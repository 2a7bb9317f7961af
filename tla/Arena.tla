------------------------------- MODULE Arena -------------------------------
(***************************************************************************)
(* The block allocator of arena.c.  An arena is a chain of sub-arenas of   *)
(* Size blocks each; every sub-arena keeps a list of its free blocks and,  *)
(* beside it, their number.  The free list is a sequence here: LinkedList  *)
(* shows that the list functions edit it as one.  Block <<i, j>> is the    *)
(* j-th block of the i-th sub-arena: arena_free finds the sub-arena of a   *)
(* pointer by its address range.                                           *)
(***************************************************************************)
EXTENDS Integers, Sequences, FiniteSets

CONSTANTS
    Size,       \* blocks per sub-arena (arena_t.size; INIT_SNIPPET_SZ in snippet.c)
    MaxChain,   \* bound: the sub-arenas that mmap grants at most
    Foreign,    \* memory that callers own and no sub-arena contains
    Null        \* the NULL pointer

ASSUME SizeAssumption == Size \in Nat \ {0} /\ MaxChain \in Nat \ {0}

BlocksOf(i) == {i} \X (1..Size)

Block == (1..MaxChain) \X (1..Size)

ASSUME ForeignAssumption == Foreign \cap Block = {} /\ Null \notin Block

VARIABLES
    chain,  \* the sub-arenas in the order of arena_t.next
    live,   \* the blocks callers got and have not given back
    rc      \* 0, or -1 when the last call failed (NULL from arena_allocate)

vars == <<chain, live, rc>>

FreeSet(s) == {s.free[k] : k \in DOMAIN s.free}

SubArena == [free : Seq(Block), free_count : Int]

TypeOK ==
    /\ chain \in Seq(SubArena)
    /\ Len(chain) \in 1..MaxChain
    /\ live \subseteq Block
    /\ rc \in {0, -1}

-----------------------------------------------------------------------------
\* An arena_init whose first block starts one block too low, over the header.
NewSubArena_OverHeader(i) == [free |-> [j \in 1..Size |-> <<i, j - 1>>], free_count |-> Size]

\* arena_init: all blocks in the free list, in address order
NewSubArena(i) == [free |-> [j \in 1..Size |-> <<i, j>>], free_count |-> Size]

\* A search that stops in front of the last sub-arena whatever it still has.
ServingIndex_ShortWalk(c) ==
    IF \E i \in 1..(Len(c) - 1) : c[i].free_count # 0
    THEN CHOOSE i \in 1..(Len(c) - 1) :
            c[i].free_count # 0 /\ \A k \in 1..(i-1) : c[k].free_count = 0
    ELSE 1

\* The sub-arena an allocation is served from: the first with free_count # 0
\* or, when there is none, the last of the chain.
ServingIndex(c) ==
    IF \E i \in DOMAIN c : c[i].free_count # 0
    THEN CHOOSE i \in DOMAIN c :
            c[i].free_count # 0 /\ \A k \in 1..(i-1) : c[k].free_count = 0
    ELSE Len(c)

\* An allocation that counts the block but leaves it in the free list.
Taken_StillListed(s) == [free |-> s.free, free_count |-> s.free_count - 1]

\* list_remove of the first block of the free list
Taken(s) == [free |-> Tail(s.free), free_count |-> s.free_count - 1]

\* A free that forgets to count the block it lists.
Returned_NotCounted(s, b) == [free |-> Append(s.free, b), free_count |-> s.free_count]

\* list_insert_before(block, &arena->free)
Returned(s, b) == [free |-> Append(s.free, b), free_count |-> s.free_count + 1]

\* The sub-arena whose address range holds p, 0 when none does.
Owner(c, p) ==
    IF \E i \in DOMAIN c : p \in BlocksOf(i)
    THEN CHOOSE i \in DOMAIN c : p \in BlocksOf(i)
    ELSE 0

-----------------------------------------------------------------------------
Init ==
    /\ chain = <<NewSubArena(1)>>
    /\ live = {}
    /\ rc = 0

\* arena_allocate out of a sub-arena that has a free block
AllocateFromFree ==
    LET i == ServingIndex(chain) IN
    /\ chain[i].free_count # 0
    /\ chain' = [chain EXCEPT ![i] = Taken(chain[i])]
    /\ live' = live \cup {Head(chain[i].free)}
    /\ rc' = 0

\* arena_allocate when every sub-arena is used up: a new one goes to the end
AllocateFromNew ==
    LET new == NewSubArena(Len(chain) + 1) IN
    /\ chain[ServingIndex(chain)].free_count = 0
    /\ Len(chain) < MaxChain
    /\ chain' = Append(chain, Taken(new))
    /\ live' = live \cup {Head(new.free)}
    /\ rc' = 0

\* ... or mmap fails and the caller gets NULL
AllocateNoMemory ==
    /\ chain[ServingIndex(chain)].free_count = 0
    /\ rc' = -1
    /\ UNCHANGED <<chain, live>>

\* arena_free of a block of this arena, which the caller holds
FreeBlock(b) ==
    LET i == Owner(chain, b) IN
    /\ b \in live
    /\ i # 0
    /\ chain' = [chain EXCEPT ![i] = Returned(chain[i], b)]
    /\ live' = live \ {b}
    /\ rc' = 0

\* arena_free of NULL, or of memory outside every sub-arena: refused
FreeRefused(p) ==
    /\ p = Null \/ Owner(chain, p) = 0
    /\ rc' = -1
    /\ UNCHANGED <<chain, live>>

Allocate == AllocateFromFree \/ AllocateFromNew \/ AllocateNoMemory

Next ==
    \/ Allocate
    \/ \E b \in Block : FreeBlock(b)
    \/ \E p \in Foreign \cup {Null} : FreeRefused(p)

Spec == Init /\ [][Next]_vars

-----------------------------------------------------------------------------
(***************************************************************************)
(* CountsExact: arena_allocate decides by free_count and then takes the    *)
(* head of the list unseen, so the number beside each free list is its     *)
(* length at all times; a count that drifts would end in a NULL block or   *)
(* in blocks that are never used again.                                    *)
(***************************************************************************)
CountsExact == \A i \in DOMAIN chain : chain[i].free_count = Len(chain[i].free)

(***************************************************************************)
(* NoBlockTwice: every block of the chain is either in a caller's hands or *)
(* exactly once in the free list of its own sub-arena.  Callers build      *)
(* instructions in these blocks and keep pointers to them, so a block that *)
(* is listed twice, or listed while it is held, would become two           *)
(* instructions at one address.                                            *)
(***************************************************************************)
NoBlockTwice ==
    /\ \A i \in DOMAIN chain : FreeSet(chain[i]) = BlocksOf(i) \ live
    /\ \A i \in DOMAIN chain : \A k, l \in DOMAIN chain[i].free :
          chain[i].free[k] = chain[i].free[l] => k = l
    /\ \A b \in live : b[1] \in DOMAIN chain

(***************************************************************************)
(* FailsOnlyWhenFull: an allocation grows the chain or fails only when     *)
(* every block of every sub-arena is in use: freed blocks of earlier       *)
(* sub-arenas are found again, the chain is not extended past them.        *)
(***************************************************************************)
FailsOnlyWhenFull ==
    [][(Len(chain') # Len(chain)) \/ AllocateNoMemory
            => live = UNION {BlocksOf(i) : i \in DOMAIN chain}]_vars

(* The pool of Allocator that the chain implements. *)
Pool == INSTANCE Allocator WITH idle <- UNION {FreeSet(chain[i]) : i \in DOMAIN chain}

ImplementsPool == Pool!Spec
=============================================================================
