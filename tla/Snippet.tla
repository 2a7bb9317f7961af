------------------------------ MODULE Snippet ------------------------------
(***************************************************************************)
(* The snippet container of snippet.c: a list of instructions, their       *)
(* number, and the arena their memory comes from.  An instruction is a     *)
(* block of the arena or, from Python, an object of the caller's own       *)
(* (Foreign).  The list node sits at the end of an instruction and the     *)
(* arena's free list uses its first bytes, so the two lists of a block do  *)
(* not share pointers.  Calls are atomic: the library is single-threaded.  *)
(*                                                                         *)
(* Callers hand append and insert an instruction that is in no list, and   *)
(* remove one that is in this list, as all callers in src/ and             *)
(* __init__.py do; what happens otherwise is undefined.                    *)
(***************************************************************************)
EXTENDS Arena, SequencesExt

CONSTANTS
    SnippetHead   \* the list head embedded in snippet_t

ASSUME SnippetAssumption == SnippetHead \notin Block \cup Foreign \cup {Null}

Instruction == Block \cup Foreign
MaxCount == Size * MaxChain + Cardinality(Foreign)

VARIABLES
    heap,    \* the list nodes of all instructions and of the snippet
    count,   \* snip->count
    idx,     \* the idx field of every instruction
    held,    \* instructions that callers hold and that are in no list
    decoded, \* the local idx of a running snippet_decode, or -1
    state    \* "ready", "destroyed", or "fault" after a wild memory access

snippetVars == <<chain, live, rc, heap, count, idx, held, decoded, state>>

L == INSTANCE DList

Listed == IF L!Closed(heap, SnippetHead) THEN L!Elements(heap, SnippetHead) ELSE << >>

SnippetTypeOK ==
    /\ live \subseteq Block
    /\ heap \in LET Cell == Instruction \cup {SnippetHead}
                IN  [next : [Cell -> Cell \cup {Null}], prev : [Cell -> Cell \cup {Null}]]
    /\ count \in 0..MaxCount
    /\ idx \in [Instruction -> 0..MaxCount]
    /\ held \subseteq Instruction
    /\ decoded \in -1..MaxCount
    /\ state \in {"ready", "destroyed", "fault"}

-----------------------------------------------------------------------------
\* A memory access that the process does not survive.
Fault ==
    /\ state' = "fault"
    /\ rc' = -1
    /\ UNCHANGED <<chain, live, heap, count, idx, held, decoded>>

\* No call is running, and the snippet can be used.
Idle == decoded = -1 /\ state = "ready"

\* A call that reports an error and changes nothing.
Refused ==
    /\ rc' = -1
    /\ UNCHANGED <<chain, live, heap, count, idx, held, decoded, state>>

\* The memset of arena_allocate
Wiped(b) ==
    /\ heap' = [next |-> [heap.next EXCEPT ![b] = Null],
                prev |-> [heap.prev EXCEPT ![b] = Null]]
    /\ idx' = [idx EXCEPT ![b] = 0]

\* arena_free on the chain c
ArenaFree(c, b) == [c EXCEPT ![Owner(c, b)] = Returned(c[Owner(c, b)], b)]

-----------------------------------------------------------------------------
\* snippet_init
SnippetInit ==
    /\ Init
    /\ heap = L!ListInit(L!EmptyHeap(Instruction \cup {SnippetHead}), SnippetHead)
    /\ count = 0
    /\ idx = [i \in Instruction |-> 0]
    /\ held = Foreign
    /\ decoded = -1
    /\ state = "ready"

\* snippet_allocate
SnippetAllocate ==
    /\ Idle
    /\ \/ /\ AllocateFromFree \/ AllocateFromNew
          /\ LET new == CHOOSE b \in Block : live' = live \cup {b} /\ b \notin live IN
             /\ Wiped(new)
             /\ held' = held \cup {new}
          /\ UNCHANGED <<count, decoded, state>>
       \/ AllocateNoMemory /\ UNCHANGED <<heap, count, idx, held, decoded, state>>

\* The effect of list_insert_before(&ins->node, pos) and count++
Link(ins, pos) ==
    /\ heap' = L!InsertBefore(heap, ins, pos)
    /\ count' = count + 1
    /\ held' = held \ {ins}
    /\ rc' = 0
    /\ UNCHANGED <<chain, live, idx, decoded, state>>

\* snippet_append
SnippetAppend(ins) == Idle /\ ins \in held /\ Link(ins, SnippetHead)

\* A snippet_insert_at that takes the node before the index as its place.
SnippetInsertAt_OneEarly(ins, i) ==
    /\ Idle
    /\ ins \in held
    /\ i \in 1..count
    /\ Link(ins, L!ListGet(heap, SnippetHead, i - 1))

\* snippet_insert_at.  At index 0 the place is the head, and in front of the
\* head is the end of the list.
SnippetInsertAt(ins, i) ==
    /\ Idle
    /\ ins \in held
    /\ \/ i > count /\ Refused
       \/ i = count /\ Link(ins, SnippetHead)
       \/ i < count /\ i = 0 /\ Link(ins, SnippetHead)
       \/ /\ i < count /\ i # 0
          /\ LET pos == L!ListGet(heap, SnippetHead, i)
             IN  IF pos = Null THEN Refused ELSE Link(ins, pos)

\* snippet_insert_before
SnippetInsertBefore(ins, pos) ==
    /\ Idle
    /\ ins \in held
    /\ pos \in ToSet(Listed)
    /\ Link(ins, pos)

\* A snippet_remove that gives the memory back but leaves the list alone.
SnippetRemove_StillLinked(ins) ==
    /\ Idle
    /\ count # 0
    /\ ins \in ToSet(Listed)
    /\ chain' = ArenaFree(chain, ins)
    /\ live' = live \ {ins}
    /\ count' = count - 1
    /\ rc' = 0
    /\ UNCHANGED <<heap, idx, held, decoded, state>>

\* snippet_remove.  The instruction is out of the list before arena_free
\* refuses one that is not from the arena; count is then not changed.
SnippetRemove(ins) ==
    /\ Idle
    /\ count # 0
    /\ ins \in ToSet(Listed)
    /\ heap' = L!RemoveNode(heap, ins)
    /\ IF Owner(chain, ins) # 0
       THEN /\ chain' = ArenaFree(chain, ins)
            /\ live' = live \ {ins}
            /\ count' = count - 1
            /\ rc' = 0
            /\ UNCHANGED held
       ELSE /\ rc' = -1
            /\ held' = held \cup {ins}
            /\ UNCHANGED <<chain, live, count>>
    /\ UNCHANGED <<idx, decoded, state>>

\* A snippet_swap that leaves the idx fields as they were.
SnippetSwap_NoIndexes(i, j) ==
    /\ Idle
    /\ i < count /\ j < count /\ i # j
    /\ heap' = L!SwapNodes(heap, L!ListGet(heap, SnippetHead, i), L!ListGet(heap, SnippetHead, j))
    /\ rc' = 0
    /\ UNCHANGED <<chain, live, count, idx, held, decoded, state>>

\* snippet_swap
SnippetSwap(i, j) ==
    /\ Idle
    /\ \/ (i >= count \/ j >= count) /\ Refused
       \/ /\ i < count /\ i = j
          /\ rc' = 0
          /\ UNCHANGED <<chain, live, heap, count, idx, held, decoded, state>>
       \/ /\ i < count /\ j < count /\ i # j
          /\ LET pos1 == L!ListGet(heap, SnippetHead, i)
                 pos2 == L!ListGet(heap, SnippetHead, j)
             IN  IF Null \in {pos1, pos2} THEN Refused
                 ELSE /\ heap' = L!SwapNodes(heap, pos1, pos2)
                      /\ idx' = [idx EXCEPT ![pos1] = j, ![pos2] = i]
                      /\ rc' = 0
                      /\ UNCHANGED <<chain, live, count, held, decoded, state>>

\* The instructions that snippet_free gives back: all up to the first that the
\* arena refuses.
FreedPrefix ==
    LET refused == {k \in DOMAIN Listed : Owner(chain, Listed[k]) = 0}
    IN  IF refused = {} THEN Listed
        ELSE SubSeq(Listed, 1, (CHOOSE k \in refused : \A m \in refused : k <= m) - 1)

\* The chain after the loop of snippet_free over the instructions of s
FreedChain(s) ==
    LET after[k \in 0..Len(s)] == IF k = 0 THEN chain ELSE ArenaFree(after[k-1], s[k])
    IN  after[Len(s)]

\* A snippet_free that forgets the count.
SnippetFree_CountKept ==
    /\ Idle
    /\ chain' = FreedChain(FreedPrefix)
    /\ live' = live \ ToSet(FreedPrefix)
    /\ heap' = L!ListInit(heap, SnippetHead)
    /\ rc' = 0
    /\ UNCHANGED <<count, idx, held, decoded, state>>

\* A snippet_free that empties the list before it walks it.
SnippetFree_ResetFirst ==
    /\ Idle
    /\ heap' = L!ListInit(heap, SnippetHead)
    /\ count' = 0
    /\ rc' = 0
    /\ UNCHANGED <<chain, live, idx, held, decoded, state>>

\* A snippet_free that forgets the list head.
SnippetFree_ListKept ==
    /\ Idle
    /\ IF ToSet(FreedPrefix) \subseteq live
       THEN /\ chain' = FreedChain(FreedPrefix)
            /\ live' = live \ ToSet(FreedPrefix)
            /\ count' = 0
            /\ rc' = 0
            /\ UNCHANGED <<heap, idx, held, decoded, state>>
       ELSE Fault

\* snippet_free.  A refusal ends it with the list and the count as they were.
\* (snip->blocks is never set, so the part about basic blocks is not reached.)
SnippetFree ==
    /\ Idle
    /\ IF ToSet(FreedPrefix) \subseteq live
       THEN /\ chain' = FreedChain(FreedPrefix)
            /\ live' = live \ ToSet(FreedPrefix)
            /\ IF FreedPrefix = Listed
               THEN /\ heap' = L!ListInit(heap, SnippetHead)
                    /\ count' = 0
                    /\ rc' = 0
               ELSE rc' = -1 /\ UNCHANGED <<heap, count>>
            /\ UNCHANGED <<idx, held, decoded, state>>
       ELSE Fault   \* a block is freed twice: the free list is no list any more

\* snippet_destroy: the memory of the instructions is unmapped, the pointers
\* to the arenas are kept.
SnippetDestroy ==
    /\ Idle
    /\ chain' = << >>
    /\ live' = {}
    /\ heap' = L!ListInit(heap, SnippetHead)
    /\ count' = 0
    /\ rc' = 0
    /\ held' = Foreign
    /\ state' = "destroyed"
    /\ UNCHANGED <<idx, decoded>>

\* snippet_init of a snippet that was destroyed
SnippetInitAgain ==
    /\ state = "destroyed"
    /\ chain' = <<NewSubArena(1)>>
    /\ LET Fresh(f) == [c \in DOMAIN f |-> IF c \in Block THEN Null ELSE f[c]]
       IN  heap' = L!ListInit([next |-> Fresh(heap.next), prev |-> Fresh(heap.prev)], SnippetHead)
    /\ idx' = [i \in Instruction |-> IF i \in Block THEN 0 ELSE idx[i]]
    /\ count' = 0
    /\ rc' = 0
    /\ state' = "ready"
    /\ UNCHANGED <<live, held, decoded>>

-----------------------------------------------------------------------------
\* snippet_decode of a snippet that is expected to be empty
DecodeStart ==
    /\ Idle
    /\ count = 0
    /\ decoded' = 0
    /\ UNCHANGED <<chain, live, rc, heap, count, idx, held, state>>

\* One round of its loop: allocate, number, append
DecodeOne ==
    /\ decoded # -1
    /\ AllocateFromFree \/ AllocateFromNew
    /\ LET new    == CHOOSE b \in Block : live' = live \cup {b} /\ b \notin live
           zeroed == [next |-> [heap.next EXCEPT ![new] = Null],
                      prev |-> [heap.prev EXCEPT ![new] = Null]]
       IN  /\ heap' = L!InsertBefore(zeroed, new, SnippetHead)
           /\ idx' = [idx EXCEPT ![new] = decoded]
    /\ count' = count + 1
    /\ decoded' = decoded + 1
    /\ UNCHANGED <<held, state>>

\* The block of an instruction that Zydis cannot turn into a request is lost:
\* it is in no list and nobody is given a pointer to it, and a sub-arena that
\* the arena got for it stays.
DecodeRejected ==
    /\ decoded # -1
    /\ \/ /\ chain[ServingIndex(chain)].free_count # 0
          /\ chain' = [chain EXCEPT ![ServingIndex(chain)] = Taken(chain[ServingIndex(chain)])]
          /\ live' = live \cup {Head(chain[ServingIndex(chain)].free)}
          /\ Wiped(Head(chain[ServingIndex(chain)].free))
       \/ /\ chain[ServingIndex(chain)].free_count = 0 /\ Len(chain) < MaxChain
          /\ LET new == NewSubArena(Len(chain) + 1) IN
             /\ chain' = Append(chain, Taken(new))
             /\ live' = live \cup {Head(new.free)}
             /\ Wiped(Head(new.free))
       \/ AllocateNoMemory /\ UNCHANGED <<heap, idx>>
    /\ rc' = -1
    /\ decoded' = -1
    /\ UNCHANGED <<count, held, state>>

\* No further instruction in the buffer
DecodeEnd ==
    /\ decoded # -1
    /\ decoded' = -1
    /\ rc' = 0
    /\ UNCHANGED <<chain, live, heap, count, idx, held, state>>

SnippetNext ==
    \/ SnippetAllocate
    \/ \E ins \in Instruction : SnippetAppend(ins) \/ SnippetRemove(ins)
    \/ \E ins \in Instruction, i \in 0..MaxCount : SnippetInsertAt(ins, i)
    \/ \E ins, pos \in Instruction : SnippetInsertBefore(ins, pos)
    \/ \E i, j \in 0..MaxCount : SnippetSwap(i, j)
    \/ SnippetFree
    \/ SnippetDestroy
    \/ SnippetInitAgain
    \/ DecodeStart \/ DecodeOne \/ DecodeRejected \/ DecodeEnd

SnippetSpec == SnippetInit /\ [][SnippetNext]_snippetVars

-----------------------------------------------------------------------------
(***************************************************************************)
(* CountIsLength: outside a call, snip->count is the length of the list,   *)
(* whichever calls made, emptied, decoded or destroyed the snippet.        *)
(***************************************************************************)
CountIsLength == Idle => count = Len(Listed)

(***************************************************************************)
(* IndexesInList: every index below snip->count names an instruction.      *)
(* snippet_get, snippet_swap and the random choices of the pipeline pass   *)
(* such an index to list_get, which calls the contrary what should not     *)
(* happen (list.h:103).                                                    *)
(***************************************************************************)
IndexesInList ==
    Idle => \A i \in 0..(count - 1) : L!ListGet(heap, SnippetHead, i) # Null

(***************************************************************************)
(* NoFault: no sequence of calls makes the library walk into a NULL node,  *)
(* free a block twice or follow a pointer to unmapped memory; and an       *)
(* instruction in the list is memory that nobody else can be given: a      *)
(* block of the arena that is in no free list, or an object of the caller. *)
(***************************************************************************)
ListedIsLive == ToSet(Listed) \subseteq live \cup Foreign

NoFault == state # "fault" /\ (state = "ready" => L!Closed(heap, SnippetHead) /\ ListedIsLive)

(***************************************************************************)
(* SwapKeepsIndexes: where every idx field named the place of its          *)
(* instruction, it still does after snippet_swap, also for neighbours.     *)
(***************************************************************************)
IndexesValid == \A k \in DOMAIN Listed : idx[Listed[k]] = k - 1

SwapKeepsIndexes ==
    [][IndexesValid /\ ~IndexesValid' => ~ \E i, j \in 0..MaxCount : SnippetSwap(i, j)]_snippetVars

(***************************************************************************)
(* LostOnlyInDecode: a block that is neither in the list nor in the hands  *)
(* of a caller comes from a snippet_decode that failed; every other call   *)
(* leaves each block reachable, so that it can be freed.                   *)
(***************************************************************************)
Lost == live \ (held \cup ToSet(Listed))

LostOnlyInDecode == [][Lost' \subseteq Lost \/ decoded # -1]_snippetVars

(***************************************************************************)
(* InsertedAtInnerIndex: for an index inside the list other than 0, the    *)
(* instruction that snippet_insert_at inserts has that index afterwards,   *)
(* and the instructions behind it have moved on by one.                    *)
(***************************************************************************)
InsertedAt(ins, i) == Listed' = InsertAt(Listed, i + 1, ins)

InsertedAtInnerIndex ==
    [][\A ins \in Instruction, i \in 1..MaxCount :
          SnippetInsertAt(ins, i) /\ rc' = 0 => InsertedAt(ins, i)]_snippetVars

(***************************************************************************)
(* InsertedAtIndex: the same for every index, which is what                *)
(* test/test_mutator.py:97-98 asserts of an insert at any position.        *)
(***************************************************************************)
InsertedAtIndex ==
    [][\A ins \in Instruction, i \in 0..MaxCount :
          SnippetInsertAt(ins, i) /\ rc' = 0 => InsertedAt(ins, i)]_snippetVars
=============================================================================
