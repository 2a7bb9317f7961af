--------------------------- MODULE SnippetProofs ---------------------------
(***************************************************************************)
(* Proofs about Snippet, for any number and size of sub-arenas, of a       *)
(* snippet whose instructions are all blocks of its own arena (no Foreign  *)
(* object: with one, arena_free refuses in the middle of snippet_remove    *)
(* and snippet_free, and the count and the list do go wrong).  The list    *)
(* functions are the subject of DListProofs; the arena comes first.        *)
(***************************************************************************)
EXTENDS Snippet, SequenceTheorems, FiniteSetTheorems, WellFoundedInduction, TLAPS

(***************************************************************************)
(* The arena: for any number and size of sub-arenas, no block is handed    *)
(* out twice, the counts are exact, and the chain implements the pool of   *)
(* Allocator.                                                              *)
(***************************************************************************)

(***************************************************************************)
(* What the invariants say of one sub-arena: s is the i-th one, and its    *)
(* free list holds its blocks outside U, each once.                        *)
(***************************************************************************)
SubArenaOK(i, s, U) ==
    /\ s \in SubArena
    /\ s.free_count = Len(s.free)
    /\ FreeSet(s) = BlocksOf(i) \ U
    /\ \A k, l \in DOMAIN s.free : s.free[k] = s.free[l] => k = l

(* The inductive invariant. *)
IInv == TypeOK /\ CountsExact /\ NoBlockTwice

(* ... is a fact about each sub-arena, and one about the live blocks. *)
PerSubArena ==
    /\ TypeOK
    /\ \A i \in 1..Len(chain) : SubArenaOK(i, chain[i], live)
    /\ \A b \in live : b[1] \in 1..Len(chain)

LEMMA IInvPerSubArena == IInv <=> PerSubArena
  <1>1. ASSUME TypeOK PROVE DOMAIN chain = 1..Len(chain) /\ \A i \in 1..Len(chain) : chain[i] \in SubArena
    BY <1>1, LenProperties DEF TypeOK
  <1> QED  BY <1>1 DEF IInv, PerSubArena, CountsExact, NoBlockTwice, SubArenaOK

-----------------------------------------------------------------------------
(* A set of positions in the chain has a first one. *)
LEMMA FirstPosition ==
    ASSUME NEW T \in SUBSET Nat, T # {}
    PROVE  \E x \in T : \A y \in T : x <= y
  <1>1. IsWellFoundedOn(OpToRel(<, Nat), Nat)
    BY NatLessThanWellFounded
  <1>2. PICK x \in T : \A y \in T : ~(<<y, x>> \in OpToRel(<, Nat))
    BY <1>1, WFMin
  <1>3. \A y \in T : ~(y < x)
    BY <1>2 DEF OpToRel
  <1> QED  BY <1>3

(***************************************************************************)
(* The walk of arena_allocate ends at a sub-arena of the chain, and at one *)
(* without a free block only when no sub-arena has one.                    *)
(***************************************************************************)
LEMMA ServingIndexFact ==
    ASSUME NEW c \in Seq(SubArena), Len(c) \in Nat \ {0}
    PROVE  /\ ServingIndex(c) \in 1..Len(c)
           /\ c[ServingIndex(c)].free_count = 0 => \A i \in 1..Len(c) : c[i].free_count = 0
  <1>1. DOMAIN c = 1..Len(c)
    BY LenProperties
  <1> DEFINE T == {i \in 1..Len(c) : c[i].free_count # 0}
             First(i) == c[i].free_count # 0 /\ \A k \in 1..(i-1) : c[k].free_count = 0
  <1>2. CASE T = {}
    BY <1>1, <1>2 DEF ServingIndex
  <1>3. CASE T # {}
    <2>0. T \in SUBSET Nat
      OBVIOUS
    <2>1. PICK x \in T : \A y \in T : x <= y
      <3> HIDE DEF T
      <3> QED  BY <1>3, <2>0, FirstPosition
    <2>2. x \in 1..Len(c) /\ First(x)
      BY <2>1
    <2>3. ServingIndex(c) = CHOOSE i \in 1..Len(c) : First(i)
      BY <1>1, <1>3 DEF ServingIndex
    <2>4. ServingIndex(c) \in 1..Len(c) /\ First(ServingIndex(c))
      <3> HIDE DEF First
      <3> QED  BY <2>2, <2>3
    <2> QED  BY <2>4
  <1> QED  BY <1>2, <1>3

(* The search of arena_free finds the one sub-arena that a block lies in. *)
LEMMA OwnerFact ==
    ASSUME NEW c \in Seq(SubArena), NEW b \in Block
    PROVE  /\ Owner(c, b) # 0 => Owner(c, b) \in 1..Len(c) /\ b \in BlocksOf(Owner(c, b))
           /\ b[1] \in 1..Len(c) => Owner(c, b) = b[1]
  <1>1. DOMAIN c = 1..Len(c)
    BY LenProperties
  <1>2. \A i : b \in BlocksOf(i) <=> i = b[1]
    BY DEF Block, BlocksOf
  <1> QED  BY <1>1, <1>2 DEF Owner

-----------------------------------------------------------------------------
(* A new sub-arena is all free: none of its blocks can be in use. *)
LEMMA NewSubArenaOK ==
    ASSUME NEW i \in 1..MaxChain, NEW U, U \cap BlocksOf(i) = {}
    PROVE  SubArenaOK(i, NewSubArena(i), U)
  <1> DEFINE f == [j \in 1..Size |-> <<i, j>>]
  <1>1. f \in Seq(Block) /\ Len(f) = Size /\ DOMAIN f = 1..Size
    BY SizeAssumption DEF Block
  <1>2. {f[k] : k \in 1..Size} = BlocksOf(i)
    BY DEF BlocksOf
  <1>3. NewSubArena(i).free = f /\ NewSubArena(i).free_count = Size /\ NewSubArena(i) \in SubArena
    BY <1>1, SizeAssumption DEF NewSubArena, SubArena
  <1>4. FreeSet(NewSubArena(i)) = BlocksOf(i) \ U
    <2> HIDE DEF f
    <2> QED  BY <1>1, <1>2, <1>3 DEF FreeSet
  <1>5. \A k, l \in 1..Size : f[k] = f[l] => k = l
    OBVIOUS
  <1> HIDE DEF f
  <1> QED  BY <1>1, <1>3, <1>4, <1>5 DEF SubArenaOK

(* Taking the head of a free list moves that one block to the callers. *)
LEMMA TakenOK ==
    ASSUME NEW i, NEW s, NEW U, SubArenaOK(i, s, U), s.free_count # 0
    PROVE  /\ Head(s.free) \in BlocksOf(i) \ U
           /\ Head(s.free) \in Block
           /\ SubArenaOK(i, Taken(s), U \cup {Head(s.free)})
  <1> DEFINE f == s.free
             b == Head(s.free)
  <1>1. f \in Seq(Block) /\ f # << >> /\ Len(f) \in Nat \ {0} /\ s.free_count = Len(f)
    BY EmptySeq DEF SubArenaOK, SubArena
  <1>2. /\ b = f[1] /\ b \in Block
        /\ Tail(f) \in Seq(Block)
        /\ Len(Tail(f)) = Len(f) - 1
        /\ \A k \in 1..Len(Tail(f)) : Tail(f)[k] = f[k + 1]
    BY <1>1, HeadTailProperties
  <1>3. DOMAIN f = 1..Len(f) /\ DOMAIN Tail(f) = 1..(Len(f) - 1)
    BY <1>1, <1>2, LenProperties
  <1>4. /\ {f[k] : k \in 1..Len(f)} = BlocksOf(i) \ U
        /\ \A k, l \in 1..Len(f) : f[k] = f[l] => k = l
    BY <1>3 DEF SubArenaOK, FreeSet
  <1>5. Taken(s).free = Tail(f) /\ Taken(s).free_count = Len(f) - 1 /\ Taken(s) \in SubArena
    BY <1>1, <1>2 DEF Taken, SubArena
  <1>6. b \in BlocksOf(i) \ U
    BY <1>1, <1>2, <1>4
  <1>7. {Tail(f)[k] : k \in 1..(Len(f) - 1)} = BlocksOf(i) \ (U \cup {b})
    <2>1. ASSUME NEW k \in 1..(Len(f) - 1)
          PROVE  Tail(f)[k] \in BlocksOf(i) \ (U \cup {b})
      <3>1. Tail(f)[k] = f[k + 1] /\ k + 1 \in 1..Len(f) /\ 1 \in 1..Len(f) /\ k + 1 # 1
        BY <1>1, <1>2
      <3> QED  BY <1>2, <1>4, <3>1
    <2>2. ASSUME NEW x \in BlocksOf(i) \ (U \cup {b})
          PROVE  \E k \in 1..(Len(f) - 1) : Tail(f)[k] = x
      <3>1. PICK m \in 1..Len(f) : f[m] = x
        BY <1>4
      <3>2. m # 1 /\ m - 1 \in 1..(Len(f) - 1) /\ m - 1 + 1 = m
        BY <1>1, <1>2, <3>1
      <3> QED  BY <1>2, <3>1, <3>2
    <2> QED  BY <2>1, <2>2
  <1>8. \A k, l \in 1..(Len(f) - 1) : Tail(f)[k] = Tail(f)[l] => k = l
    BY <1>1, <1>2, <1>4
  <1>9. SubArenaOK(i, Taken(s), U \cup {b})
    <2> HIDE DEF f, b
    <2>1. FreeSet(Taken(s)) = {Tail(f)[k] : k \in 1..(Len(f) - 1)}
      BY <1>3, <1>5 DEF FreeSet
    <2> QED  BY <1>2, <1>3, <1>5, <1>7, <1>8, <2>1 DEF SubArenaOK
  <1> QED  BY <1>2, <1>6, <1>9

(* Listing a block of the sub-arena that was in use makes it free, once. *)
LEMMA ReturnedOK ==
    ASSUME NEW i \in 1..MaxChain, NEW s, NEW U, SubArenaOK(i, s, U), NEW b \in BlocksOf(i), b \in U
    PROVE  SubArenaOK(i, Returned(s, b), U \ {b})
  <1> DEFINE f == s.free
             g == Append(s.free, b)
  <1>1. f \in Seq(Block) /\ Len(f) \in Nat /\ s.free_count = Len(f) /\ b \in Block
    BY LenProperties DEF SubArenaOK, SubArena, Block, BlocksOf
  <1>2. /\ g \in Seq(Block)
        /\ Len(g) = Len(f) + 1
        /\ \A k \in 1..Len(f) : g[k] = f[k]
        /\ g[Len(f) + 1] = b
    BY <1>1, AppendProperties
  <1>3. DOMAIN f = 1..Len(f) /\ DOMAIN g = 1..(Len(f) + 1)
    BY <1>1, <1>2, LenProperties
  <1>4. /\ {f[k] : k \in 1..Len(f)} = BlocksOf(i) \ U
        /\ \A k, l \in 1..Len(f) : f[k] = f[l] => k = l
    BY <1>3 DEF SubArenaOK, FreeSet
  <1>5. Returned(s, b).free = g /\ Returned(s, b).free_count = Len(f) + 1 /\ Returned(s, b) \in SubArena
    BY <1>1, <1>2 DEF Returned, SubArena
  <1>6. \A k \in 1..(Len(f) + 1) : k \in 1..Len(f) \/ k = Len(f) + 1
    BY <1>1
  <1>7. \A k \in 1..Len(f) : f[k] # b
    BY <1>4
  <1>8. {g[k] : k \in 1..(Len(f) + 1)} = BlocksOf(i) \ (U \ {b})
    <2>1. ASSUME NEW k \in 1..(Len(f) + 1) PROVE g[k] \in BlocksOf(i) \ (U \ {b})
      BY <1>2, <1>4, <1>6
    <2>2. ASSUME NEW x \in BlocksOf(i) \ (U \ {b}) PROVE \E k \in 1..(Len(f) + 1) : g[k] = x
      <3>1. CASE x = b
        BY <1>1, <1>2, <3>1
      <3>2. CASE x # b
        <4>1. PICK m \in 1..Len(f) : f[m] = x
          BY <1>4, <3>2
        <4> QED  BY <1>1, <1>2, <4>1
      <3> QED  BY <3>1, <3>2
    <2> QED  BY <2>1, <2>2
  <1>9. \A k, l \in 1..(Len(f) + 1) : g[k] = g[l] => k = l
    BY <1>2, <1>4, <1>6, <1>7
  <1> HIDE DEF f, g
  <1> QED  BY <1>1, <1>2, <1>3, <1>5, <1>8, <1>9 DEF SubArenaOK, FreeSet

(* What happens to a block of one sub-arena leaves the others as they are. *)
LEMMA OtherSubArenaOK ==
    ASSUME NEW i, NEW j, i # j, NEW s, NEW U, SubArenaOK(j, s, U), NEW b \in BlocksOf(i)
    PROVE  SubArenaOK(j, s, U \cup {b}) /\ SubArenaOK(j, s, U \ {b})
  BY DEF SubArenaOK, BlocksOf

-----------------------------------------------------------------------------
(***************************************************************************)
(* The step of one sub-arena, i, that gives block b of its own to a caller *)
(* or gets it back keeps the whole invariant.                              *)
(***************************************************************************)
LEMMA OneSubArenaChanged ==
    ASSUME TypeOK,
           \A k \in 1..Len(chain) : SubArenaOK(k, chain[k], live),
           NEW i \in 1..Len(chain), NEW b \in BlocksOf(i), NEW s,
           chain' = [chain EXCEPT ![i] = s],
           live' \in {live \cup {b}, live \ {b}},
           SubArenaOK(i, s, live')
    PROVE  /\ chain' \in Seq(SubArena)
           /\ Len(chain') = Len(chain)
           /\ \A k \in 1..Len(chain') : SubArenaOK(k, chain'[k], live')
  <1>1. chain \in Seq(SubArena) /\ s \in SubArena
    BY DEF TypeOK, SubArenaOK
  <1>2. /\ chain' \in Seq(SubArena)
        /\ Len(chain') = Len(chain)
        /\ \A k \in 1..Len(chain) : chain'[k] = IF k = i THEN s ELSE chain[k]
    BY <1>1, ExceptSeq
  <1>3. ASSUME NEW k \in 1..Len(chain) PROVE SubArenaOK(k, chain'[k], live')
    <2>1. CASE k = i
      BY <1>2, <2>1
    <2>2. CASE k # i
      <3>1. SubArenaOK(k, chain[k], live \cup {b}) /\ SubArenaOK(k, chain[k], live \ {b})
        BY <2>2, OtherSubArenaOK
      <3> QED  BY <1>2, <2>2, <3>1
    <2> QED  BY <2>1, <2>2
  <1> QED  BY <1>2, <1>3

LEMMA InitIInv == Init => IInv
  <1> SUFFICES ASSUME Init PROVE IInv
    OBVIOUS
  <1>1. SubArenaOK(1, NewSubArena(1), live)
    BY NewSubArenaOK, SizeAssumption DEF Init
  <1>2. chain = <<NewSubArena(1)>> /\ NewSubArena(1) \in SubArena /\ Len(chain) = 1 /\ chain[1] = NewSubArena(1)
    BY <1>1 DEF Init, SubArenaOK
  <1>3. TypeOK
    BY <1>2, SizeAssumption DEF Init, TypeOK
  <1>4. \A i \in 1..Len(chain) : i = 1
    BY <1>2
  <1> QED  BY <1>1, <1>2, <1>3, <1>4, IInvPerSubArena DEF Init, PerSubArena

(* The chain grows by a sub-arena, whose first block is given out. *)
LEMMA GrownKeeps ==
    ASSUME PerSubArena, Len(chain) < MaxChain,
           chain' = Append(chain, Taken(NewSubArena(Len(chain) + 1))),
           live' = live \cup {Head(NewSubArena(Len(chain) + 1).free)},
           rc' \in {0, -1}
    PROVE  /\ PerSubArena'
           /\ Head(NewSubArena(Len(chain) + 1).free) \in Block \ live
  <1> DEFINE n == Len(chain) + 1
             new == NewSubArena(n)
             b == Head(new.free)
  <1>0. /\ TypeOK
        /\ \A k \in 1..Len(chain) : SubArenaOK(k, chain[k], live)
        /\ \A c \in live : c[1] \in 1..Len(chain)
        /\ chain \in Seq(SubArena) /\ Len(chain) \in 1..MaxChain /\ live \subseteq Block
    BY DEF PerSubArena, TypeOK
  <1>1. n \in 1..MaxChain /\ chain' = Append(chain, Taken(new)) /\ live' = live \cup {b}
    BY <1>0, SizeAssumption
  <1>2. live \cap BlocksOf(n) = {}
    BY <1>0 DEF BlocksOf
  <1>3. SubArenaOK(n, new, live) /\ new.free_count # 0
    BY <1>1, <1>2, NewSubArenaOK, SizeAssumption DEF NewSubArena
  <1> HIDE DEF new
  <1>4. b \in BlocksOf(n) \ live /\ b \in Block /\ SubArenaOK(n, Taken(new), live')
    <2>1. /\ b \in BlocksOf(n) \ live /\ b \in Block
          /\ SubArenaOK(n, Taken(new), live \cup {b})
      BY ONLY <1>3, TakenOK
    <2> QED  BY <1>1, <2>1
  <1> HIDE DEF b
  <1>5. /\ chain' \in Seq(SubArena) /\ Len(chain') = n
        /\ \A k \in 1..Len(chain) : chain'[k] = chain[k]
        /\ chain'[n] = Taken(new)
    BY <1>0, <1>1, <1>4, AppendProperties DEF SubArenaOK
  <1>6. ASSUME NEW k \in 1..Len(chain') PROVE SubArenaOK(k, chain'[k], live')
    <2>1. CASE k = n
      BY <1>4, <1>5, <2>1
    <2>2. CASE k # n
      <3>1. k \in 1..Len(chain)
        BY <1>0, <1>5, <2>2
      <3> QED  BY <1>0, <1>1, <1>4, <1>5, <2>2, <3>1, OtherSubArenaOK
    <2> QED  BY <2>1, <2>2
  <1>7. b[1] = n
    BY <1>4 DEF BlocksOf
  <1>8. \A c \in live' : c[1] \in 1..Len(chain')
    BY <1>0, <1>1, <1>5, <1>7
  <1>9. PerSubArena'
    BY <1>0, <1>1, <1>4, <1>5, <1>6, <1>8 DEF PerSubArena, TypeOK
  <1> QED  BY <1>4, <1>9 DEF b, new

LEMMA NextPerSubArena == PerSubArena /\ [Next]_vars => PerSubArena'
  <1> SUFFICES ASSUME PerSubArena, [Next]_vars PROVE PerSubArena'
    OBVIOUS
  <1> DEFINE Kept == /\ TypeOK'
                     /\ \A k \in 1..Len(chain') : SubArenaOK(k, chain'[k], live')
                     /\ \A b \in live' : b[1] \in 1..Len(chain')
  <1>0. /\ TypeOK
        /\ \A k \in 1..Len(chain) : SubArenaOK(k, chain[k], live)
        /\ \A b \in live : b[1] \in 1..Len(chain)
    BY DEF PerSubArena
  <1>t. chain \in Seq(SubArena) /\ Len(chain) \in 1..MaxChain /\ live \subseteq Block
    BY <1>0 DEF TypeOK
  <1>1. ASSUME AllocateFromFree PROVE Kept
    <2> DEFINE i == ServingIndex(chain)
               b == Head(chain[i].free)
    <2>1. i \in 1..Len(chain)
      BY <1>t, SizeAssumption, ServingIndexFact
    <2>2. /\ chain[i].free_count # 0
          /\ chain' = [chain EXCEPT ![i] = Taken(chain[i])]
          /\ live' = live \cup {b}
          /\ rc' = 0
      BY <1>1 DEF AllocateFromFree
    <2> HIDE DEF i
    <2>3. /\ b \in BlocksOf(i) \ live
          /\ b \in Block
          /\ SubArenaOK(i, Taken(chain[i]), live')
      BY <1>0, <2>1, <2>2, TakenOK
    <2> HIDE DEF b
    <2>4. /\ chain' \in Seq(SubArena)
          /\ Len(chain') = Len(chain)
          /\ \A k \in 1..Len(chain') : SubArenaOK(k, chain'[k], live')
      BY <1>0, <2>1, <2>2, <2>3, OneSubArenaChanged
    <2>5. b[1] = i
      BY <2>3 DEF BlocksOf
    <2> QED  BY <1>0, <1>t, <2>1, <2>2, <2>3, <2>4, <2>5 DEF TypeOK
  <1>2. ASSUME AllocateFromNew PROVE Kept
    BY <1>2, GrownKeeps DEF AllocateFromNew, PerSubArena
  <1>3. ASSUME AllocateNoMemory PROVE Kept
    BY <1>0, <1>3 DEF AllocateNoMemory, TypeOK
  <1>4. ASSUME NEW b \in Block, FreeBlock(b) PROVE Kept
    <2> DEFINE i == Owner(chain, b)
    <2>1. /\ b \in live
          /\ i # 0
          /\ chain' = [chain EXCEPT ![i] = Returned(chain[i], b)]
          /\ live' = live \ {b}
          /\ rc' = 0
      BY <1>4 DEF FreeBlock
    <2>2. i \in 1..Len(chain) /\ b \in BlocksOf(i)
      BY <1>t, <2>1, OwnerFact
    <2> HIDE DEF i
    <2>3. i \in 1..MaxChain
      BY <1>t, <2>2, SizeAssumption
    <2>4. SubArenaOK(i, Returned(chain[i], b), live')
      BY <1>0, <2>1, <2>2, <2>3, ReturnedOK
    <2>5. /\ chain' \in Seq(SubArena)
          /\ Len(chain') = Len(chain)
          /\ \A k \in 1..Len(chain') : SubArenaOK(k, chain'[k], live')
      BY <1>0, <2>1, <2>2, <2>4, OneSubArenaChanged
    <2> QED  BY <1>0, <1>t, <2>1, <2>5 DEF TypeOK
  <1>5. ASSUME NEW p \in Foreign \cup {Null}, FreeRefused(p) PROVE Kept
    BY <1>0, <1>5 DEF FreeRefused, TypeOK
  <1>6. ASSUME UNCHANGED vars PROVE Kept
    BY <1>0, <1>6 DEF vars, TypeOK
  <1>7. Kept
    BY <1>1, <1>2, <1>3, <1>4, <1>5, <1>6 DEF Next, Allocate
  <1> QED  BY <1>7 DEF PerSubArena

LEMMA NextIInv == IInv /\ [Next]_vars => IInv'
  BY IInvPerSubArena, NextPerSubArena, PTL

-----------------------------------------------------------------------------
(***************************************************************************)
(* The chain, its free lists and the live blocks keep their types.         *)
(***************************************************************************)
THEOREM TypeCorrect == Spec => []TypeOK
  <1>1. IInv => TypeOK
    BY DEF IInv
  <1> QED  BY InitIInv, NextIInv, <1>1, PTL DEF Spec

(***************************************************************************)
(* free_count is the length of the free list in every sub-arena, so the    *)
(* list_get of arena_allocate always finds a block.                        *)
(***************************************************************************)
THEOREM CountsStayExact == Spec => []CountsExact
  <1>1. IInv => CountsExact
    BY DEF IInv
  <1> QED  BY InitIInv, NextIInv, <1>1, PTL DEF Spec

(***************************************************************************)
(* No block is handed out while a caller holds it, and none is lost: for   *)
(* every size of the sub-arenas and every length of the chain.             *)
(***************************************************************************)
THEOREM BlocksHaveOneOwner == Spec => []NoBlockTwice
  <1>1. IInv => NoBlockTwice
    BY DEF IInv
  <1> QED  BY InitIInv, NextIInv, <1>1, PTL DEF Spec

-----------------------------------------------------------------------------
IdleBlocks == UNION {FreeSet(chain[i]) : i \in DOMAIN chain}

(* The blocks that can be handed out, per sub-arena. *)
IdleIsRest ==
    /\ \A b \in Block : b \in IdleBlocks <=> b[1] \in 1..Len(chain) /\ b \notin live
    /\ IdleBlocks \subseteq Block

LEMMA IdleFact == PerSubArena => IdleIsRest
  <1> SUFFICES ASSUME PerSubArena PROVE IdleIsRest
    OBVIOUS
  <1>1. DOMAIN chain = 1..Len(chain) /\ Len(chain) \in 1..MaxChain
    BY LenProperties DEF PerSubArena, TypeOK
  <1>2. \A i \in 1..Len(chain) : FreeSet(chain[i]) = BlocksOf(i) \ live
    BY DEF PerSubArena, SubArenaOK
  <1> QED  BY <1>1, <1>2, SizeAssumption DEF IdleIsRest, IdleBlocks, Block, BlocksOf

(* When the serving sub-arena has no free block, every block is in use. *)
LEMMA FullFact ==
    ASSUME PerSubArena, chain[ServingIndex(chain)].free_count = 0
    PROVE  /\ live = UNION {BlocksOf(i) : i \in DOMAIN chain}
           /\ IdleBlocks = {}
  <1>1. /\ chain \in Seq(SubArena) /\ Len(chain) \in 1..MaxChain
        /\ DOMAIN chain = 1..Len(chain)
    BY LenProperties DEF PerSubArena, TypeOK
  <1>2. \A i \in 1..Len(chain) : chain[i].free_count = 0
    BY <1>1, SizeAssumption, ServingIndexFact
  <1>3. ASSUME NEW i \in 1..Len(chain) PROVE FreeSet(chain[i]) = {} /\ BlocksOf(i) \subseteq live
    <2>1. SubArenaOK(i, chain[i], live)
      BY DEF PerSubArena
    <2>2. chain[i].free \in Seq(Block) /\ Len(chain[i].free) = 0
      BY <1>2, <2>1 DEF SubArenaOK, SubArena
    <2>3. DOMAIN chain[i].free = {}
      BY <2>2, LenProperties
    <2> QED  BY <2>1, <2>3 DEF SubArenaOK, FreeSet
  <1>4. ASSUME NEW b \in live PROVE \E i \in 1..Len(chain) : b \in BlocksOf(i)
    <2>1. b \in Block /\ b[1] \in 1..Len(chain)
      BY DEF PerSubArena, TypeOK
    <2> QED  BY <2>1 DEF Block, BlocksOf
  <1> QED  BY <1>1, <1>3, <1>4 DEF IdleBlocks

(***************************************************************************)
(* The chain grows, and an allocation fails, only when every block of      *)
(* every sub-arena is in use.                                              *)
(***************************************************************************)
THEOREM GrowsOnlyWhenFull == Spec => FailsOnlyWhenFull
  <1>1. ASSUME PerSubArena, [Next]_vars,
               (Len(chain') # Len(chain)) \/ AllocateNoMemory
        PROVE  live = UNION {BlocksOf(i) : i \in DOMAIN chain}
    <2>1. CASE AllocateNoMemory
      BY <1>1, <2>1, FullFact DEF AllocateNoMemory
    <2>2. CASE AllocateFromNew
      BY <1>1, <2>2, FullFact DEF AllocateFromNew
    <2>3. ASSUME AllocateFromFree \/ \E b \in Block : FreeBlock(b)
          PROVE  Len(chain') = Len(chain)
      <3>1. chain \in Seq(SubArena)
        BY <1>1 DEF PerSubArena, TypeOK
      <3>2. \A i, s : LET c == [chain EXCEPT ![i] = s] IN DOMAIN c = DOMAIN chain
        OBVIOUS
      <3>3. PICK i, s : chain' = [chain EXCEPT ![i] = s]
        BY <2>3 DEF AllocateFromFree, FreeBlock
      <3>4. PerSubArena'
        BY <1>1, NextPerSubArena
      <3>5. chain' \in Seq(SubArena)
        BY <3>4 DEF PerSubArena, TypeOK
      <3>6. DOMAIN chain' = DOMAIN chain
        BY <3>2, <3>3
      <3> QED  BY <3>1, <3>5, <3>6, LenProperties
    <2>4. CASE \E p \in Foreign \cup {Null} : FreeRefused(p)
      BY <1>1, <2>1, <2>4 DEF FreeRefused
    <2>5. CASE UNCHANGED vars
      BY <1>1, <2>5, FullFact DEF vars, AllocateNoMemory
    <2> QED  BY <1>1, <2>1, <2>2, <2>3, <2>4, <2>5 DEF Next, Allocate
  <1>2. IInv /\ [Next]_vars =>
          [(Len(chain') # Len(chain)) \/ AllocateNoMemory
               => live = UNION {BlocksOf(i) : i \in DOMAIN chain}]_vars
    BY <1>1, IInvPerSubArena
  <1> QED  BY InitIInv, NextIInv, <1>2, PTL DEF Spec, FailsOnlyWhenFull

-----------------------------------------------------------------------------
(***************************************************************************)
(* The chain of sub-arenas implements the pool of Allocator: a caller sees *)
(* one set of blocks, whichever sub-arena serves it.                       *)
(***************************************************************************)
THEOREM ArenaImplementsPool == Spec => ImplementsPool
  <1>1. Init => Pool!Init
    <2> SUFFICES ASSUME Init PROVE Pool!Init
      OBVIOUS
    <2>1. PerSubArena
      BY InitIInv, IInvPerSubArena
    <2> QED  BY <2>1, IdleFact DEF Init, IdleIsRest, Pool!Init, IdleBlocks
  <1>2. PerSubArena /\ PerSubArena' /\ [Next]_vars => [Pool!Next]_(Pool!vars)
    <2>i. PerSubArena' => IdleIsRest'
      BY IdleFact, PTL
    <2> SUFFICES ASSUME PerSubArena, PerSubArena', [Next]_vars
                 PROVE  Pool!Next \/ (live' = live /\ IdleBlocks' = IdleBlocks)
      BY DEF Pool!vars, IdleBlocks
    <2>0. /\ chain \in Seq(SubArena) /\ Len(chain) \in 1..MaxChain /\ live \subseteq Block
          /\ \A k \in 1..Len(chain) : SubArenaOK(k, chain[k], live)
          /\ \A b \in live : b[1] \in 1..Len(chain)
      BY DEF PerSubArena, TypeOK
    <2>1. /\ \A b \in Block : b \in IdleBlocks <=> b[1] \in 1..Len(chain) /\ b \notin live
          /\ IdleBlocks \subseteq Block
      BY IdleFact DEF IdleIsRest
    <2>2. /\ \A b \in Block : b \in IdleBlocks' <=> b[1] \in 1..Len(chain') /\ b \notin live'
          /\ IdleBlocks' \subseteq Block
      BY <2>i DEF IdleIsRest
    <2>3. CASE AllocateFromFree
      <3> DEFINE i == ServingIndex(chain)
                 b == Head(chain[i].free)
      <3>1. i \in 1..Len(chain) /\ chain[i].free_count # 0
        BY <2>0, <2>3, SizeAssumption, ServingIndexFact DEF AllocateFromFree
      <3>2. b \in BlocksOf(i) \ live /\ b \in Block
        BY <2>0, <3>1, TakenOK
      <3>3. Len(chain') = Len(chain) /\ live' = live \cup {b}
        <4>1. DOMAIN chain' = DOMAIN chain /\ live' = live \cup {b}
          BY <2>3 DEF AllocateFromFree
        <4>2. chain' \in Seq(SubArena)
          BY DEF PerSubArena, TypeOK
        <4> QED  BY <2>0, <4>1, <4>2, LenProperties
      <3> HIDE DEF b
      <3>4. b[1] = i
        BY <3>2 DEF BlocksOf
      <3>5. b \in IdleBlocks
        BY <2>1, <3>1, <3>2, <3>4
      <3>6. IdleBlocks' = IdleBlocks \ {b}
        BY <2>1, <2>2, <3>3
      <3>7. Pool!Give(b)
        BY <3>3, <3>5, <3>6 DEF Pool!Give, IdleBlocks
      <3> QED  BY <3>2, <3>7 DEF Pool!Next
    <2>4. CASE AllocateFromNew
      <3> DEFINE n == Len(chain) + 1
                 b == Head(NewSubArena(n).free)
      <3>1. /\ n \in 1..MaxChain
            /\ chain' = Append(chain, Taken(NewSubArena(n)))
            /\ live' = live \cup {b}
            /\ IdleBlocks = {}
        BY <2>0, <2>4, SizeAssumption, FullFact DEF AllocateFromNew
      <3>2. live \cap BlocksOf(n) = {}
        BY <2>0 DEF BlocksOf
      <3>3. SubArenaOK(n, NewSubArena(n), live) /\ NewSubArena(n).free_count # 0
        BY <3>1, <3>2, NewSubArenaOK, SizeAssumption DEF NewSubArena
      <3>4. b \in BlocksOf(n) \ live /\ b \in Block
        BY <3>3, TakenOK
      <3>5. Len(chain') = n
        <4>1. Taken(NewSubArena(n)) \in SubArena
          BY <3>3, TakenOK DEF SubArenaOK
        <4> QED  BY <2>0, <3>1, <4>1, AppendProperties
      <3> HIDE DEF b
      <3>6. b[1] = n
        BY <3>4 DEF BlocksOf
      <3> DEFINE more == IdleBlocks' \cup {b}
      <3>7. more \in SUBSET (Block \ live) /\ b \in more /\ IdleBlocks' = more \ {b}
        BY <2>2, <3>1, <3>4
      <3>8. Pool!Give(b)
        BY <3>1, <3>4, <3>7 DEF Pool!Give, IdleBlocks
      <3> QED  BY <3>4, <3>8 DEF Pool!Next
    <2>5. ASSUME NEW b \in Block, FreeBlock(b) PROVE Pool!Next
      <3>1. b \in live /\ live' = live \ {b} /\ DOMAIN chain' = DOMAIN chain
        BY <2>5 DEF FreeBlock
      <3>2. chain' \in Seq(SubArena)
        BY DEF PerSubArena, TypeOK
      <3>3. Len(chain') = Len(chain)
        BY <2>0, <3>1, <3>2, LenProperties
      <3>4. IdleBlocks' = IdleBlocks \cup {b}
        BY <2>0, <2>1, <2>2, <3>1, <3>3
      <3>5. Pool!TakeBack(b)
        BY <3>1, <3>4 DEF Pool!TakeBack, IdleBlocks
      <3> QED  BY <3>5 DEF Pool!Next
    <2>6. CASE AllocateNoMemory \/ \E p \in Foreign \cup {Null} : FreeRefused(p)
      BY <2>6 DEF AllocateNoMemory, FreeRefused, IdleBlocks
    <2>7. CASE UNCHANGED vars
      BY <2>7 DEF vars, IdleBlocks
    <2> QED  BY <2>3, <2>4, <2>5, <2>6, <2>7 DEF Next, Allocate
  <1>3. IInv /\ IInv' /\ [Next]_vars => [Pool!Next]_(Pool!vars)
    BY <1>2, IInvPerSubArena, PTL
  <1> QED  BY InitIInv, NextIInv, <1>1, <1>3, PTL DEF Spec, ImplementsPool, Pool!Spec

-----------------------------------------------------------------------------
(* The snippet *)

LP == INSTANCE DListProofs

Cell == Instruction \cup {SnippetHead}

(* The list, as a sequence of blocks in use that no caller holds *)
ListHolds(s) ==
    /\ s \in Seq(Block)
    /\ LP!IsList(heap, SnippetHead, s)
    /\ ToSet(s) \subseteq live \ held
    /\ count = Len(s)

(* The arena of a snippet that can be used, and of one that was destroyed *)
ArenaOf ==
    \/ state = "ready" /\ PerSubArena
    \/ /\ state = "destroyed"
       /\ chain = << >> /\ live = {}
       /\ count = 0 /\ decoded = -1 /\ rc = 0

(***************************************************************************)
(* The inductive invariant: the list is one ring, its nodes are blocks in  *)
(* use that no caller holds, and the count is its length, also between the *)
(* rounds of snippet_decode.  That the nodes are in use is what makes      *)
(* wiping a newly allocated block harmless for the list, and arena_free    *)
(* accept every instruction of it; this in turn is what keeps count, list  *)
(* and arena in step.                                                      *)
(***************************************************************************)
SInv ==
    /\ Foreign = {}
    /\ heap \in LP!HeapOf(Cell)
    /\ idx \in [Instruction -> 0..MaxCount]
    /\ held \subseteq live
    /\ decoded \in {-1, count}
    /\ ArenaOf
    /\ ListHolds(Listed)

-----------------------------------------------------------------------------
(* The cells *)

LEMMA Cells ==
    ASSUME Foreign = {}
    PROVE  /\ Instruction = Block
           /\ SnippetHead \in Cell /\ SnippetHead \notin Block
           /\ Block \subseteq Cell /\ Cell \ {SnippetHead} = Block
           /\ Null \notin Cell
           /\ IsFiniteSet(Cell)
           /\ MaxCount \in Nat
           /\ Cardinality(Cell) = MaxCount + 1
  <1>1. /\ Instruction = Block /\ SnippetHead \notin Block /\ Null \notin Cell
        /\ SnippetHead \in Cell /\ Block \subseteq Cell /\ Cell \ {SnippetHead} = Block
    BY SnippetAssumption, ForeignAssumption DEF Instruction, Cell
  <1>2. /\ IsFiniteSet(1..MaxChain) /\ Cardinality(1..MaxChain) = MaxChain
        /\ IsFiniteSet(1..Size) /\ Cardinality(1..Size) = Size
    BY SizeAssumption, FS_Interval
  <1>3. IsFiniteSet(Block) /\ Cardinality(Block) = MaxChain * Size
    <2> DEFINE S == 1..MaxChain
               T == 1..Size
    <2>1. IsFiniteSet(S) /\ IsFiniteSet(T) /\ Cardinality(S) = MaxChain /\ Cardinality(T) = Size
      BY <1>2
    <2> HIDE DEF S, T
    <2>2. IsFiniteSet(S \X T) /\ Cardinality(S \X T) = Cardinality(S) * Cardinality(T)
      BY <2>1, FS_Product, Zenon
    <2>3. Block = S \X T
      BY DEF Block, S, T
    <2> QED  BY <2>1, <2>2, <2>3, Zenon
  <1>4. IsFiniteSet(Cell) /\ Cardinality(Cell) = Cardinality(Block) + 1
    BY <1>1, <1>3, FS_AddElement DEF Cell
  <1>5. MaxCount = Cardinality(Block) /\ MaxCount \in Nat
    <2>1. Cardinality(Foreign) = 0
      BY FS_EmptySet
    <2>2. MaxChain * Size = Size * MaxChain /\ Size * MaxChain \in Nat
      BY SizeAssumption
    <2> QED  BY <1>3, <2>1, <2>2 DEF MaxCount
  <1> QED  BY <1>1, <1>4, <1>5

(* The list operators of Snippet are those that DListProofs is about. *)
LEMMA SameInsertBefore == \A h, n, p : L!InsertBefore(h, n, p) = LP!InsertBefore(h, n, p)
  BY DEF L!InsertBefore, LP!InsertBefore

LEMMA SameRemoveNode == \A h, n : L!RemoveNode(h, n) = LP!RemoveNode(h, n)
  BY DEF L!RemoveNode, LP!RemoveNode

LEMMA SameSwapNodes == \A h, n, m : L!SwapNodes(h, n, m) = LP!SwapNodes(h, n, m)
  BY DEF L!SwapNodes, LP!SwapNodes, L!RemoveNode, LP!RemoveNode,
         L!ReplaceNode, LP!ReplaceNode, L!InsertAfter, LP!InsertAfter

LEMMA SameListInit == \A h, n : L!ListInit(h, n) = LP!ListInit(h, n)
  BY DEF L!ListInit, LP!ListInit

LEMMA SameCardinality ==
    /\ \A S : L!Cardinality(S) = Cardinality(S)
    /\ \A S : LP!Cardinality(S) = Cardinality(S)
    /\ \A S : LP!IsFiniteSet(S) <=> IsFiniteSet(S)
  <1>1. \A S : L!Cardinality(S) = Cardinality(S)
    BY Zenon DEF L!Cardinality, Cardinality, L!IsFiniteSet, IsFiniteSet
  <1>2. \A S : LP!Cardinality(S) = Cardinality(S)
    BY Zenon DEF LP!Cardinality, Cardinality, LP!IsFiniteSet, IsFiniteSet
  <1>3. \A S : LP!IsFiniteSet(S) <=> IsFiniteSet(S)
    BY Zenon DEF LP!IsFiniteSet, IsFiniteSet
  <1> QED  BY <1>1, <1>2, <1>3

LEMMA SameTraversal ==
    ASSUME NEW h, NEW head
    PROVE  /\ L!Closed(h, head) <=> LP!Closed(h, head)
           /\ L!Elements(h, head) = LP!Elements(h, head)
           /\ \A i : L!ListGet(h, head, i) = LP!ListGet(h, head, i)
  <1>1. L!Steps(h, head) = LP!Steps(h, head)
    <2>1. L!Cardinality(DOMAIN h.next) = LP!Cardinality(DOMAIN h.next)
      BY SameCardinality
    <2> QED  BY <2>1, Zenon DEF L!Steps, LP!Steps
  <1>2. L!Elements(h, head) = LP!Elements(h, head)
    <2>1. L!Cardinality(DOMAIN h.next) = LP!Cardinality(DOMAIN h.next)
      BY SameCardinality
    <2> QED  BY <1>1, <2>1, Zenon DEF L!Elements, LP!Elements
  <1>3. L!Closed(h, head) <=> LP!Closed(h, head)
    BY <1>1, SameCardinality, Zenon DEF L!Closed, LP!Closed
  <1> QED  BY <1>2, <1>3 DEF L!ListGet, LP!ListGet

LEMMA SameSequences ==
    /\ \A s : LP!ToSet(s) = ToSet(s)
    /\ \A s, k, x : LP!InsertAt(s, k, x) = InsertAt(s, k, x)
    /\ \A s, k : LP!RemoveAt(s, k) = RemoveAt(s, k)
  BY DEF LP!ToSet, ToSet, LP!InsertAt, InsertAt, LP!RemoveAt, RemoveAt

(* The traversals of a heap that holds the list s give s. *)
LEMMA ListRead ==
    ASSUME Foreign = {}, NEW h \in LP!HeapOf(Cell), NEW s \in Seq(Block),
           LP!IsList(h, SnippetHead, s)
    PROVE  /\ L!Closed(h, SnippetHead)
           /\ L!Elements(h, SnippetHead) = s
           /\ \A i : L!ListGet(h, SnippetHead, i) = IF i < Len(s) THEN s[i + 1] ELSE Null
           /\ Len(s) <= MaxCount
  <1>1. s \in Seq(Cell)
    BY Cells
  <1>2. LP!Closed(h, SnippetHead) /\ LP!Elements(h, SnippetHead) = s
    BY <1>1, Cells, SameCardinality, LP!ElementsOfList
  <1>3. \A i : LP!ListGet(h, SnippetHead, i) = IF i < Len(s) THEN s[i + 1] ELSE Null
    BY <1>1, Cells, SameCardinality, LP!ListGetOfList
  <1>4. Len(s) + 1 <= Cardinality(Cell) /\ Len(s) \in Nat
    BY <1>1, Cells, SameCardinality, LP!ListFits
  <1> QED  BY <1>2, <1>3, <1>4, Cells, SameTraversal

-----------------------------------------------------------------------------
(* The arena *)

(* A chain c of the length of the arena's in which the blocks of U are in use *)
ChainOK(c, U) ==
    /\ c \in Seq(SubArena) /\ Len(c) \in 1..MaxChain
    /\ \A i \in 1..Len(c) : SubArenaOK(i, c[i], U)

LEMMA ChainOfPerSubArena == PerSubArena => ChainOK(chain, live)
  BY DEF PerSubArena, TypeOK, ChainOK

(* arena_free of a block in use *)
LEMMA ArenaFreeKeeps ==
    ASSUME NEW c, NEW U, ChainOK(c, U), NEW b \in U, b \in Block, b[1] \in 1..Len(c)
    PROVE  ChainOK(ArenaFree(c, b), U \ {b}) /\ Len(ArenaFree(c, b)) = Len(c)
  <1> DEFINE i == Owner(c, b)
             s == Returned(c[i], b)
             d == [c EXCEPT ![i] = s]
  <1>1. c \in Seq(SubArena) /\ Len(c) \in 1..MaxChain /\ i \in 1..Len(c) /\ i \in 1..MaxChain /\ b \in BlocksOf(i)
    <2>1. c \in Seq(SubArena) /\ Len(c) \in 1..MaxChain
      BY DEF ChainOK
    <2>2. i = b[1]
      BY <2>1, OwnerFact
    <2>3. b[1] \in 1..MaxChain
      BY DEF Block
    <2> QED  BY <2>1, <2>2, <2>3 DEF Block, BlocksOf
  <1>2. ArenaFree(c, b) = d
    BY DEF ArenaFree
  <1> HIDE DEF i
  <1>3. SubArenaOK(i, s, U \ {b})
    BY <1>1, ReturnedOK DEF ChainOK
  <1> HIDE DEF s
  <1>4. /\ d \in Seq(SubArena) /\ Len(d) = Len(c)
        /\ \A k \in 1..Len(c) : d[k] = IF k = i THEN s ELSE c[k]
    BY <1>1, <1>3, ExceptSeq DEF SubArenaOK
  <1>5. ASSUME NEW k \in 1..Len(c) PROVE SubArenaOK(k, d[k], U \ {b})
    <2>1. CASE k = i
      BY <1>3, <1>4, <2>1
    <2>2. CASE k # i
      <3>1. SubArenaOK(k, c[k], U \ {b})
        BY <1>1, <2>2, OtherSubArenaOK DEF ChainOK
      <3> QED  BY <1>4, <2>2, <3>1
    <2> QED  BY <2>1, <2>2
  <1> HIDE DEF d
  <1> QED  BY <1>1, <1>2, <1>4, <1>5 DEF ChainOK

(* The chain that snippet_free leaves after k instructions, given all before *)
FreedUpTo(s, w, k) == IF k = 0 THEN chain ELSE ArenaFree(w[k - 1], s[k])

LEMMA FreesExist ==
    ASSUME NEW s, NEW n \in Nat
    PROVE  \E w : w = [k \in 0..n |-> FreedUpTo(s, w, k)]
  <1> DEFINE Freed(m) == \E w : w = [k \in 0..m |-> FreedUpTo(s, w, k)]
             T == {m \in Nat : ~Freed(m)}
  <1> SUFFICES ASSUME T # {} PROVE FALSE
    OBVIOUS
  <1>1. PICK m \in T : \A y \in T : m <= y
    <2>1. T \in SUBSET Nat
      OBVIOUS
    <2> HIDE DEF T
    <2> QED  BY <2>1, FirstPosition
  <1>2. CASE m = 0
    <2> DEFINE w == [k \in 0..0 |-> chain]
    <2>1. w = [k \in 0..0 |-> FreedUpTo(s, w, k)]
      BY DEF FreedUpTo
    <2> QED  BY <1>2, <2>1
  <1>3. CASE m # 0
    <2>1. m - 1 \in Nat /\ m - 1 \notin T
      BY <1>1, <1>3
    <2>2. PICK w : w = [k \in 0..(m - 1) |-> FreedUpTo(s, w, k)]
      BY <2>1
    <2> DEFINE v == [k \in 0..m |-> IF k = m THEN FreedUpTo(s, w, m) ELSE w[k]]
    <2>3. \A k \in 0..m : v[k] = FreedUpTo(s, v, k)
      <3> TAKE k \in 0..m
      <3>1. k \in Nat /\ (k # 0 => k - 1 \in 0..(m - 1) /\ v[k - 1] = w[k - 1])
        BY <1>1
      <3>2. FreedUpTo(s, v, k) = FreedUpTo(s, w, k)
        BY <3>1 DEF FreedUpTo
      <3>3. CASE k = m
        BY <3>2, <3>3
      <3>4. CASE k # m
        <4>1. k \in 0..(m - 1)
          BY <3>4, <1>1
        <4>2. w[k] = FreedUpTo(s, w, k)
          BY <2>2, <4>1
        <4> QED  BY <3>2, <3>4, <4>2
      <3> QED  BY <3>3, <3>4
    <2>4. v = [k \in 0..m |-> FreedUpTo(s, v, k)]
      BY <2>3
    <2> QED  BY <2>4, <1>1
  <1> QED  BY <1>2, <1>3

LEMMA FreedChainEquation ==
    ASSUME NEW s, Len(s) \in Nat
    PROVE  \E w : /\ \A k \in 0..Len(s) : w[k] = FreedUpTo(s, w, k)
                  /\ FreedChain(s) = w[Len(s)]
  <1> DEFINE F(w) == w = [k \in 0..Len(s) |-> FreedUpTo(s, w, k)]
             w0 == CHOOSE w : F(w)
  <1>1. \E w : F(w)
    BY FreesExist
  <1>2. FreedChain(s) = w0[Len(s)]
    BY DEF FreedChain, FreedUpTo
  <1>3. F(w0)
    BY <1>1
  <1> QED  BY <1>2, <1>3

(***************************************************************************)
(* Giving back blocks that are in use and all different, one after the     *)
(* other, leaves every sub-arena in order: the loop of snippet_free.       *)
(***************************************************************************)
LEMMA FreedChainKeeps ==
    ASSUME PerSubArena, NEW s \in Seq(Block), ToSet(s) \subseteq live,
           \A i, j \in 1..Len(s) : s[i] = s[j] => i = j
    PROVE  ChainOK(FreedChain(s), live \ ToSet(s)) /\ Len(FreedChain(s)) = Len(chain)
  <1> DEFINE n == Len(s)
             U(k) == live \ {s[i] : i \in 1..k}
  <1>1. n \in Nat /\ \A i \in 1..n : s[i] \in live /\ s[i] \in Block /\ s[i][1] \in 1..Len(chain)
    BY DEF PerSubArena, ToSet
  <1>2. PICK w : /\ \A k \in 0..n : w[k] = FreedUpTo(s, w, k)
                 /\ FreedChain(s) = w[n]
    BY <1>1, FreedChainEquation
  <1> DEFINE Good(k) == ChainOK(w[k], U(k)) /\ Len(w[k]) = Len(chain)
             T == {k \in 0..n : ~Good(k)}
  <1>3. ASSUME T # {} PROVE FALSE
    <2>1. PICK m \in T : \A y \in T : m <= y
      <3>1. T \in SUBSET Nat
        BY <1>1
      <3> HIDE DEF T
      <3> QED  BY <1>3, <3>1, FirstPosition
    <2>2. CASE m = 0
      <3>1. w[0] = chain
        BY <1>1, <1>2 DEF FreedUpTo
      <3>2. U(0) = live
        OBVIOUS
      <3> HIDE DEF U
      <3>3. Good(0)
        BY <3>1, <3>2, ChainOfPerSubArena
      <3> QED  BY <2>1, <2>2, <3>3
    <2>3. CASE m # 0
      <3>1. m \in 1..n /\ m - 1 \in 0..n /\ m - 1 \notin T
        <4> HIDE DEF Good
        <4>1. m \in 1..n /\ m - 1 \in 0..n /\ ~(m <= m - 1)
          BY <1>1, <2>1, <2>3
        <4> HIDE DEF T
        <4> QED  BY <2>1, <4>1
      <3>2. ChainOK(w[m - 1], U(m - 1)) /\ Len(w[m - 1]) = Len(chain)
        BY <3>1
      <3>3. w[m] = ArenaFree(w[m - 1], s[m])
        BY <1>2, <2>3, <3>1 DEF FreedUpTo
      <3>4. s[m] \in U(m - 1) /\ U(m) = U(m - 1) \ {s[m]}
        <4>1. \A i \in 1..m : i \in 1..n /\ (i \in 1..(m - 1) \/ i = m)
          BY <1>1, <3>1
        <4>2. \A i \in 1..(m - 1) : i \in 1..m /\ i \in 1..n /\ i # m
          BY <1>1, <3>1
        <4>3. m \in 1..m
          BY <1>1, <3>1
        <4>4. s[m] \in U(m - 1)
          BY <1>1, <3>1, <4>2
        <4>5. U(m) = U(m - 1) \ {s[m]}
          BY <4>1, <4>2, <4>3
        <4> QED  BY <4>4, <4>5
      <3> HIDE DEF U
      <3> DEFINE c == w[m - 1]
                 V == U(m - 1)
                 b == s[m]
      <3>5. ChainOK(c, V) /\ Len(c) = Len(chain) /\ b \in V /\ b \in Block /\ b[1] \in 1..Len(c)
        BY <1>1, <3>1, <3>2, <3>4
      <3> HIDE DEF c, V, b
      <3>6. ChainOK(ArenaFree(c, b), V \ {b}) /\ Len(ArenaFree(c, b)) = Len(c)
        BY <3>5, ArenaFreeKeeps
      <3>7. Good(m)
        BY <3>3, <3>4, <3>5, <3>6 DEF c, V, b
      <3> QED  BY <2>1, <3>7
    <2> QED  BY <2>2, <2>3
  <1>4. Good(n)
    <2> HIDE DEF Good
    <2> QED  BY <1>1, <1>3
  <1>5. U(n) = live \ ToSet(s)
    BY <1>1 DEF ToSet
  <1> HIDE DEF U
  <1> QED  BY <1>2, <1>4, <1>5

(* arena_allocate, when it has memory, gives a block that was not in use. *)
LEMMA AllocatedBlock ==
    ASSUME PerSubArena, AllocateFromFree \/ AllocateFromNew
    PROVE  /\ PerSubArena'
           /\ \E b \in Block : b \notin live /\ live' = live \cup {b}
  <1>1. PerSubArena'
    BY NextPerSubArena DEF Next, Allocate
  <1>2. CASE AllocateFromFree
    <2> DEFINE i == ServingIndex(chain)
               b == Head(chain[i].free)
    <2>1. i \in 1..Len(chain)
      BY ServingIndexFact, SizeAssumption DEF PerSubArena, TypeOK
    <2>2. chain[i].free_count # 0 /\ live' = live \cup {b}
      BY <1>2 DEF AllocateFromFree
    <2> HIDE DEF i
    <2>3. b \in BlocksOf(i) \ live /\ b \in Block
      BY <2>1, <2>2, TakenOK DEF PerSubArena
    <2> HIDE DEF b
    <2> QED  BY <1>1, <2>2, <2>3
  <1>3. CASE AllocateFromNew
    <2> DEFINE n == Len(chain) + 1
               new == NewSubArena(n)
               b == Head(new.free)
    <2>1. n \in 1..MaxChain /\ live' = live \cup {b}
      BY <1>3, SizeAssumption DEF AllocateFromNew, PerSubArena, TypeOK
    <2>2. live \cap BlocksOf(n) = {}
      BY DEF BlocksOf, PerSubArena, TypeOK
    <2>3. SubArenaOK(n, new, live) /\ new.free_count # 0
      BY <2>1, <2>2, NewSubArenaOK, SizeAssumption DEF NewSubArena
    <2> HIDE DEF new
    <2>4. b \in BlocksOf(n) \ live /\ b \in Block
      BY <2>1, <2>3, TakenOK
    <2> HIDE DEF b
    <2> QED  BY <1>1, <2>1, <2>4
  <1> QED  BY <1>2, <1>3

(* The block that snippet_decode takes for an instruction it then rejects *)
LEMMA TakenKeeps ==
    ASSUME PerSubArena, chain[ServingIndex(chain)].free_count # 0,
           chain' = [chain EXCEPT ![ServingIndex(chain)] = Taken(chain[ServingIndex(chain)])],
           live' = live \cup {Head(chain[ServingIndex(chain)].free)},
           rc' \in {0, -1}
    PROVE  /\ PerSubArena'
           /\ Head(chain[ServingIndex(chain)].free) \in Block \ live
  <1> DEFINE i == ServingIndex(chain)
             b == Head(chain[i].free)
  <1>0. /\ \A k \in 1..Len(chain) : SubArenaOK(k, chain[k], live)
        /\ \A c \in live : c[1] \in 1..Len(chain)
        /\ chain \in Seq(SubArena) /\ Len(chain) \in 1..MaxChain /\ live \subseteq Block /\ TypeOK
    BY DEF PerSubArena, TypeOK
  <1>1. i \in 1..Len(chain)
    BY <1>0, ServingIndexFact, SizeAssumption
  <1>2. chain[i].free_count # 0 /\ chain' = [chain EXCEPT ![i] = Taken(chain[i])] /\ live' = live \cup {b}
    OBVIOUS
  <1> HIDE DEF i
  <1>3. /\ b \in BlocksOf(i) \ live /\ b \in Block
        /\ SubArenaOK(i, Taken(chain[i]), live')
    <2>1. SubArenaOK(i, chain[i], live)
      BY <1>0, <1>1
    <2> QED  BY <1>2, <2>1, TakenOK
  <1>4. b[1] = i
    BY <1>3 DEF BlocksOf
  <1> HIDE DEF b
  <1>5. /\ chain' \in Seq(SubArena)
        /\ Len(chain') = Len(chain)
        /\ \A k \in 1..Len(chain') : SubArenaOK(k, chain'[k], live')
    BY <1>0, <1>1, <1>2, <1>3, OneSubArenaChanged
  <1>6. PerSubArena'
    BY <1>0, <1>1, <1>2, <1>3, <1>4, <1>5 DEF PerSubArena, TypeOK
  <1> QED  BY <1>3, <1>6 DEF i, b

(* A call that leaves the arena alone *)
LEMMA SameArena ==
    ASSUME PerSubArena, chain' = chain, live' = live, rc' \in {0, -1}
    PROVE  PerSubArena'
  BY DEF PerSubArena, TypeOK

-----------------------------------------------------------------------------
(* The steps *)

LEMMA SInvFacts ==
    ASSUME SInv
    PROVE  /\ live \subseteq Block /\ count \in Nat /\ count <= MaxCount
           /\ Listed \in Seq(Block) /\ Listed \in Seq(Cell) /\ Len(Listed) = count
           /\ Listed = L!Elements(heap, SnippetHead) /\ L!Closed(heap, SnippetHead)
           /\ \A i : L!ListGet(heap, SnippetHead, i) = IF i < count THEN Listed[i + 1] ELSE Null
  <1>1. Listed \in Seq(Block) /\ LP!IsList(heap, SnippetHead, Listed) /\ count = Len(Listed)
    BY DEF SInv, ListHolds
  <1>2. heap \in LP!HeapOf(Cell) /\ Foreign = {}
    BY DEF SInv
  <1>3. live \subseteq Block
    BY DEF SInv, ArenaOf, PerSubArena, TypeOK
  <1>4. Listed \in Seq(Cell) /\ count \in Nat
    BY <1>1, <1>2, Cells
  <1> HIDE DEF Listed
  <1> QED  BY <1>1, <1>2, <1>3, <1>4, ListRead

(* What is to be shown of a step that makes t of the list *)
LEMMA Becomes ==
    ASSUME Foreign = {}, heap' \in LP!HeapOf(Cell), NEW t \in Seq(Block),
           LP!IsList(heap', SnippetHead, t), ToSet(t) \subseteq live' \ held', count' = Len(t),
           held' \subseteq live', idx' \in [Instruction -> 0..MaxCount],
           decoded' \in {-1, count'}, ArenaOf'
    PROVE  SInv' /\ Listed' = t
  <1>1. Listed' = t
    BY ListRead DEF Listed
  <1> HIDE DEF Listed
  <1> QED  BY <1>1 DEF SInv, ListHolds

(* A call that leaves the list and the memory alone *)
LEMMA SameList ==
    ASSUME SInv, state = "ready", state' = "ready", rc' \in {0, -1}, decoded' \in {-1, count},
           UNCHANGED <<chain, live, heap, count, idx, held>>
    PROVE  SInv' /\ Listed' = Listed
  <1>1. ArenaOf'
    BY SameArena DEF SInv, ArenaOf
  <1>2. Listed' = Listed
    BY DEF Listed
  <1> HIDE DEF Listed
  <1> QED  BY <1>1, <1>2 DEF SInv, ListHolds

LEMMA LinkStep ==
    ASSUME SInv, Idle, NEW ins \in held, NEW k \in 1..(count + 1), NEW pos,
           pos = LP!At(Listed, SnippetHead, k), Link(ins, pos)
    PROVE  /\ SInv'
           /\ Listed' = InsertAt(Listed, k, ins) /\ ToSet(Listed') = ToSet(Listed) \cup {ins}
           /\ live' = live /\ held' = held \ {ins}
  <1> DEFINE s == Listed
             t == InsertAt(s, k, ins)
  <1>1. /\ s \in Seq(Block) /\ s \in Seq(Cell) /\ Len(s) = count /\ LP!IsList(heap, SnippetHead, s)
        /\ ToSet(s) \subseteq live \ held /\ heap \in LP!HeapOf(Cell) /\ Foreign = {}
        /\ ins \in live /\ ins \in Block /\ live \subseteq Block /\ held \subseteq live
        /\ idx \in [Instruction -> 0..MaxCount]
    BY SInvFacts DEF SInv, ListHolds
  <1> HIDE DEF s
  <1>2. ins \in Cell \ {SnippetHead} /\ SnippetHead \in Cell /\ ins \notin ToSet(s)
    BY <1>1, Cells
  <1>3. heap' = LP!InsertBefore(heap, ins, LP!At(s, SnippetHead, k))
    BY SameInsertBefore DEF Link, s
  <1>4. heap' \in LP!HeapOf(Cell) /\ LP!IsList(heap', SnippetHead, t)
    BY <1>1, <1>2, <1>3, LP!InsertBeforeIsList, SameSequences
  <1>5. t \in Seq(Block) /\ Len(t) = Len(s) + 1
    BY <1>1, LP!InsertAtElements, SameSequences
  <1>6. ToSet(t) = ToSet(s) \cup {ins}
    BY <1>1, LP!InsertAtNodes, SameSequences
  <1>7. /\ count' = count + 1 /\ held' = held \ {ins} /\ rc' = 0 /\ state = "ready" /\ decoded = -1
        /\ UNCHANGED <<chain, live, idx, decoded, state>>
    BY DEF Link, Idle
  <1>8. ArenaOf'
    BY <1>7, SameArena DEF SInv, ArenaOf
  <1> HIDE DEF t
  <1>9. SInv' /\ Listed' = t
    BY <1>1, <1>4, <1>5, <1>6, <1>7, <1>8, Becomes
  <1> QED  BY <1>6, <1>7, <1>9 DEF s, t

(* Wiping a block that is not in the list leaves the list as it is. *)
LEMMA WipedKeeps ==
    ASSUME Foreign = {}, NEW h \in LP!HeapOf(Cell), NEW s \in Seq(Block),
           LP!IsList(h, SnippetHead, s), NEW b \in Block, b \notin ToSet(s), NEW g,
           g = [next |-> [h.next EXCEPT ![b] = Null], prev |-> [h.prev EXCEPT ![b] = Null]]
    PROVE  g \in LP!HeapOf(Cell) /\ LP!IsList(g, SnippetHead, s)
  <1>1. s \in Seq(Cell) /\ b \in Cell /\ b # SnippetHead /\ SnippetHead \in Cell
    BY Cells
  <1>2. g \in LP!HeapOf(Cell)
    BY <1>1 DEF LP!HeapOf
  <1>3. \A c \in ToSet(s) \cup {SnippetHead} : g.next[c] = h.next[c] /\ g.prev[c] = h.prev[c]
    BY <1>1 DEF LP!HeapOf
  <1>4. LP!IsList(g, SnippetHead, s)
    <2>1. \A k : LP!At(s, SnippetHead, k) \in ToSet(s) \cup {SnippetHead}
      BY DEF LP!At, ToSet
    <2>2. \A k : LET c == LP!At(s, SnippetHead, k) IN g.next[c] = h.next[c] /\ g.prev[c] = h.prev[c]
      BY <1>3, <2>1
    <2> QED  BY <2>2 DEF LP!IsList
  <1> QED  BY <1>2, <1>4

LEMMA AllocateStep ==
    ASSUME SInv, SnippetAllocate
    PROVE  SInv' /\ Listed' = Listed /\ live' \ held' \subseteq live \ held
  <1>0. state = "ready" /\ decoded = -1 /\ PerSubArena /\ held \subseteq live /\ Foreign = {}
    BY DEF SnippetAllocate, Idle, SInv, ArenaOf
  <1>1. CASE AllocateNoMemory /\ UNCHANGED <<heap, count, idx, held, decoded, state>>
    BY <1>0, <1>1, SameList DEF AllocateNoMemory, SInv
  <1>2. CASE /\ AllocateFromFree \/ AllocateFromNew
             /\ LET new == CHOOSE b \in Block : live' = live \cup {b} /\ b \notin live
                IN  Wiped(new) /\ held' = held \cup {new}
             /\ UNCHANGED <<count, decoded, state>>
    <2> DEFINE new == CHOOSE b \in Block : live' = live \cup {b} /\ b \notin live
               s == Listed
    <2>1. PerSubArena' /\ new \in Block /\ live' = live \cup {new} /\ new \notin live
      BY <1>0, <1>2, AllocatedBlock
    <2>2. Wiped(new) /\ held' = held \cup {new} /\ UNCHANGED <<count, decoded, state>>
      BY <1>2
    <2> HIDE DEF new, s
    <2>3. /\ s \in Seq(Block) /\ Len(s) = count /\ LP!IsList(heap, SnippetHead, s)
          /\ ToSet(s) \subseteq live \ held /\ heap \in LP!HeapOf(Cell)
          /\ idx \in [Instruction -> 0..MaxCount] /\ new \in Instruction /\ MaxCount \in Nat
      BY <1>0, <2>1, SInvFacts, Cells DEF SInv, ListHolds, s
    <2>4. heap' \in LP!HeapOf(Cell) /\ LP!IsList(heap', SnippetHead, s)
      <3>1. new \notin ToSet(s)
        BY <2>1, <2>3
      <3> QED  BY <1>0, <2>1, <2>2, <2>3, <3>1, WipedKeeps DEF Wiped
    <2>5. idx' \in [Instruction -> 0..MaxCount]
      BY <2>2, <2>3 DEF Wiped
    <2>6. ToSet(s) \subseteq live' \ held' /\ held' \subseteq live' /\ live' \ held' \subseteq live \ held
      BY <1>0, <2>1, <2>2, <2>3
    <2>7. ArenaOf' /\ decoded' \in {-1, count'} /\ count' = Len(s)
      BY <1>0, <2>1, <2>2, <2>3 DEF ArenaOf
    <2>8. SInv' /\ Listed' = s
      BY <1>0, <2>3, <2>4, <2>5, <2>6, <2>7, Becomes
    <2> QED  BY <2>6, <2>8 DEF s
  <1> QED  BY <1>1, <1>2, <1>0 DEF SnippetAllocate, AllocateNoMemory

LEMMA OwnedOfLive ==
    ASSUME PerSubArena, NEW b \in live
    PROVE  Owner(chain, b) # 0
  <1>1. b \in Block /\ b[1] \in 1..Len(chain) /\ chain \in Seq(SubArena) /\ Len(chain) \in Nat
    BY DEF PerSubArena, TypeOK
  <1>2. Owner(chain, b) = b[1]
    BY <1>1, OwnerFact
  <1> QED  BY <1>1, <1>2

LEMMA RemoveStep ==
    ASSUME SInv, NEW ins \in Instruction, SnippetRemove(ins)
    PROVE  SInv' /\ ToSet(Listed') = ToSet(Listed) \ {ins} /\ live' = live \ {ins} /\ held' = held
  <1> DEFINE s == Listed
  <1>1. /\ s \in Seq(Block) /\ s \in Seq(Cell) /\ Len(s) = count /\ LP!IsList(heap, SnippetHead, s)
        /\ ToSet(s) \subseteq live \ held /\ heap \in LP!HeapOf(Cell) /\ Foreign = {}
        /\ live \subseteq Block /\ held \subseteq live
        /\ idx \in [Instruction -> 0..MaxCount] /\ SnippetHead \in Cell /\ ins \in Block
        /\ state = "ready" /\ decoded = -1 /\ PerSubArena
        /\ ins \in ToSet(s)
    BY SInvFacts, Cells DEF SInv, ListHolds, ArenaOf, SnippetRemove, Idle
  <1>2. Owner(chain, ins) # 0
    BY <1>1, OwnedOfLive
  <1>3. /\ heap' = L!RemoveNode(heap, ins)
        /\ chain' = ArenaFree(chain, ins)
        /\ live' = live \ {ins}
        /\ count' = count - 1
        /\ rc' = 0
        /\ UNCHANGED <<held, idx, decoded, state>>
    BY <1>2 DEF SnippetRemove
  <1> HIDE DEF s
  <1>4. PICK k \in 1..Len(s) : ins = s[k]
    BY <1>1 DEF ToSet
  <1> DEFINE t == RemoveAt(s, k)
  <1>5. heap' \in LP!HeapOf(Cell) /\ LP!IsList(heap', SnippetHead, t)
    BY <1>1, <1>3, <1>4, LP!RemoveNodeIsList, SameRemoveNode, SameSequences
  <1>6. t \in Seq(Block) /\ Len(t) = Len(s) - 1
    BY <1>1, LP!RemoveAtElements, SameSequences
  <1>7. ToSet(t) = ToSet(s) \ {ins}
    <2>1. \A i, j \in 1..Len(s) : s[i] = s[j] => i = j
      BY <1>1 DEF LP!IsList
    <2> QED  BY <1>1, <1>4, <2>1, LP!RemoveAtNodes, SameSequences
  <1>8. PerSubArena'
    <2>1. FreeBlock(ins)
      BY <1>1, <1>2, <1>3 DEF FreeBlock, ArenaFree
    <2> QED  BY <1>1, <2>1, NextPerSubArena DEF Next
  <1>9. ArenaOf' /\ decoded' \in {-1, count'} /\ held' \subseteq live' /\ ToSet(t) \subseteq live' \ held'
    <2>1. ins \notin held
      BY <1>1
    <2> QED  BY <1>1, <1>3, <1>7, <1>8, <2>1 DEF ArenaOf
  <1> HIDE DEF t
  <1>10. SInv' /\ Listed' = t
    BY <1>1, <1>3, <1>5, <1>6, <1>9, Becomes
  <1> QED  BY <1>3, <1>7, <1>10 DEF s

(* The effect of snippet_swap on the list, for two places that differ *)
LEMMA SwapStep ==
    ASSUME SInv, NEW i \in 0..MaxCount, NEW j \in 0..MaxCount, SnippetSwap(i, j)
    PROVE  /\ SInv'
           /\ \/ Listed' = Listed /\ idx' = idx
              \/ /\ i < count /\ j < count /\ i # j
                 /\ Listed' = [Listed EXCEPT ![i + 1] = Listed[j + 1], ![j + 1] = Listed[i + 1]]
                 /\ idx' = [idx EXCEPT ![Listed[i + 1]] = j, ![Listed[j + 1]] = i]
           /\ ToSet(Listed') = ToSet(Listed) /\ live' = live /\ held' = held
  <1> DEFINE s == Listed
             a == i + 1
             b == j + 1
             t == [s EXCEPT ![a] = s[b], ![b] = s[a]]
  <1>1. /\ s \in Seq(Block) /\ s \in Seq(Cell) /\ Len(s) = count /\ LP!IsList(heap, SnippetHead, s)
        /\ ToSet(s) \subseteq live \ held /\ heap \in LP!HeapOf(Cell) /\ Foreign = {}
        /\ live \subseteq Block /\ held \subseteq live /\ MaxCount \in Nat /\ count \in Nat
        /\ Null \notin Block /\ Instruction = Block
        /\ idx \in [Instruction -> 0..MaxCount] /\ SnippetHead \in Cell
        /\ state = "ready" /\ decoded = -1 /\ PerSubArena
        /\ \A m : L!ListGet(heap, SnippetHead, m) = IF m < count THEN s[m + 1] ELSE Null
    BY SInvFacts, Cells, ForeignAssumption DEF SInv, ListHolds, ArenaOf, SnippetSwap, Idle
  <1>2. CASE rc' \in {0, -1} /\ UNCHANGED <<chain, live, heap, count, idx, held, decoded, state>>
    <2>1. SInv' /\ Listed' = Listed
      BY <1>1, <1>2, SameList
    <2> QED  BY <1>2, <2>1
  <1>3. CASE ~(rc' \in {0, -1} /\ UNCHANGED <<chain, live, heap, count, idx, held, decoded, state>>)
    <2>1. i < count /\ j < count /\ i # j
      BY <1>3 DEF SnippetSwap, Refused
    <2>2. L!ListGet(heap, SnippetHead, i) = s[a] /\ L!ListGet(heap, SnippetHead, j) = s[b]
      BY <1>1, <2>1
    <2>3. a \in 1..Len(s) /\ b \in 1..Len(s) /\ a # b
      BY <1>1, <2>1
    <2> HIDE DEF s
    <2>4. s[a] \in Block /\ s[b] \in Block
      BY <1>1, <2>3
    <2>5. /\ heap' = L!SwapNodes(heap, s[a], s[b])
          /\ idx' = [idx EXCEPT ![s[a]] = j, ![s[b]] = i]
          /\ rc' = 0
          /\ UNCHANGED <<chain, live, count, held, decoded, state>>
      BY <1>1, <1>3, <2>1, <2>2, <2>4 DEF SnippetSwap, Refused
    <2> HIDE DEF a, b
    <2>6. heap' \in LP!HeapOf(Cell) /\ LP!IsList(heap', SnippetHead, t)
      BY <1>1, <2>3, <2>5, LP!SwapNodesIsList, SameSwapNodes
    <2>7. t \in Seq(Block) /\ Len(t) = Len(s)
      BY <1>1, <2>3
    <2>8. ToSet(t) = ToSet(s)
      <3>1. \A m \in 1..Len(s) : t[m] = IF m = b THEN s[a] ELSE IF m = a THEN s[b] ELSE s[m]
        BY <1>1, <2>3
      <3>2. DOMAIN t = 1..Len(s) /\ DOMAIN s = 1..Len(s)
        BY <1>1, <2>7
      <3> HIDE DEF t
      <3>3. \A m \in 1..Len(s) : t[m] \in ToSet(s)
        BY <2>3, <3>1, <3>2 DEF ToSet
      <3>4. \A m \in 1..Len(s) : s[m] \in ToSet(t)
        <4> TAKE m \in 1..Len(s)
        <4>1. s[m] = t[IF m = a THEN b ELSE IF m = b THEN a ELSE m]
          BY <2>3, <3>1
        <4> QED  BY <2>3, <3>2, <4>1 DEF ToSet
      <3> QED  BY <3>2, <3>3, <3>4 DEF ToSet
    <2>9. idx' \in [Instruction -> 0..MaxCount] /\ ArenaOf'
      BY <1>1, <2>5, SameArena DEF ArenaOf
    <2> HIDE DEF t
    <2>10. SInv' /\ Listed' = t
      BY <1>1, <2>5, <2>6, <2>7, <2>8, <2>9, Becomes
    <2> QED  BY <2>1, <2>5, <2>8, <2>10 DEF s, t, a, b
  <1> QED  BY <1>2, <1>3

(* No instruction of the list is refused by arena_free. *)
LEMMA AllFreed ==
    ASSUME SInv, state = "ready"
    PROVE  FreedPrefix = Listed /\ ToSet(Listed) \subseteq live
  <1>1. PerSubArena /\ ToSet(Listed) \subseteq live
    BY DEF SInv, ArenaOf, ListHolds
  <1>2. \A k \in DOMAIN Listed : Listed[k] \in live
    BY <1>1 DEF ToSet
  <1>3. \A k \in DOMAIN Listed : Owner(chain, Listed[k]) # 0
    BY <1>1, <1>2, OwnedOfLive
  <1> HIDE DEF Listed
  <1> QED  BY <1>1, <1>3 DEF FreedPrefix

LEMMA NewListStep ==
    ASSUME SInv, NEW h \in LP!HeapOf(Cell), heap' = L!ListInit(h, SnippetHead), count' = 0, ArenaOf',
           held' \subseteq live', idx' \in [Instruction -> 0..MaxCount], decoded' \in {-1, 0}
    PROVE  SInv' /\ Listed' = << >>
  <1>1. heap' \in LP!HeapOf(Cell) /\ LP!IsList(heap', SnippetHead, << >>)
    BY Cells, LP!ListInitIsList, SameListInit DEF SInv
  <1>2. << >> \in Seq(Block) /\ Len(<< >>) = 0 /\ ToSet(<< >>) = {}
    BY DEF ToSet
  <1> QED  BY <1>1, <1>2, Becomes DEF SInv

LEMMA FreeStep ==
    ASSUME SInv, SnippetFree
    PROVE  SInv' /\ Listed' = << >> /\ live' = live \ ToSet(Listed) /\ held' = held
  <1> DEFINE s == Listed
  <1>1. /\ PerSubArena /\ state = "ready" /\ decoded = -1 /\ held \subseteq live
        /\ heap \in LP!HeapOf(Cell) /\ Foreign = {} /\ idx \in [Instruction -> 0..MaxCount]
        /\ s \in Seq(Block) /\ LP!IsList(heap, SnippetHead, s) /\ ToSet(s) \subseteq live \ held
    BY DEF SInv, ArenaOf, ListHolds, SnippetFree, Idle
  <1>2. FreedPrefix = s /\ ToSet(s) \subseteq live
    BY <1>1, AllFreed
  <1>3. /\ chain' = FreedChain(s)
        /\ live' = live \ ToSet(s)
        /\ heap' = L!ListInit(heap, SnippetHead)
        /\ count' = 0 /\ rc' = 0
        /\ UNCHANGED <<idx, held, decoded, state>>
    BY <1>2 DEF SnippetFree
  <1> HIDE DEF s
  <1>4. ChainOK(chain', live') /\ Len(chain') = Len(chain)
    <2>1. \A i, j \in 1..Len(s) : s[i] = s[j] => i = j
      BY <1>1 DEF LP!IsList
    <2> QED  BY <1>1, <1>2, <1>3, <2>1, FreedChainKeeps
  <1>5. PerSubArena'
    BY <1>1, <1>3, <1>4 DEF ChainOK, PerSubArena, TypeOK
  <1>6. ArenaOf' /\ held' \subseteq live'
    BY <1>1, <1>3, <1>5 DEF ArenaOf
  <1>7. SInv' /\ Listed' = << >>
    BY <1>1, <1>3, <1>6, NewListStep
  <1> QED  BY <1>3, <1>7 DEF s

LEMMA DestroyStep ==
    ASSUME SInv, SnippetDestroy
    PROVE  SInv' /\ live' = {}
  <1>1. /\ heap \in LP!HeapOf(Cell) /\ Foreign = {} /\ idx \in [Instruction -> 0..MaxCount] /\ decoded = -1
    BY DEF SInv, SnippetDestroy, Idle
  <1>2. ArenaOf' /\ held' \subseteq live' /\ live' = {} /\ count' = 0 /\ idx' = idx /\ decoded' = decoded
        /\ heap' = L!ListInit(heap, SnippetHead)
    BY <1>1 DEF SnippetDestroy, ArenaOf
  <1> QED  BY <1>1, <1>2, NewListStep

LEMMA InitAgainStep ==
    ASSUME SInv, SnippetInitAgain
    PROVE  SInv' /\ live' = {}
  <1> DEFINE Fresh(f) == [c \in DOMAIN f |-> IF c \in Block THEN Null ELSE f[c]]
             h == [next |-> Fresh(heap.next), prev |-> Fresh(heap.prev)]
  <1>1. /\ heap \in LP!HeapOf(Cell) /\ Foreign = {} /\ idx \in [Instruction -> 0..MaxCount]
        /\ chain = << >> /\ live = {} /\ held = {} /\ count = 0 /\ decoded = -1 /\ state = "destroyed"
        /\ MaxCount \in Nat
    BY Cells DEF SInv, SnippetInitAgain, ArenaOf
  <1>2. /\ chain' = <<NewSubArena(1)>>
        /\ heap' = L!ListInit(h, SnippetHead)
        /\ idx' = [i \in Instruction |-> IF i \in Block THEN 0 ELSE idx[i]]
        /\ count' = 0 /\ rc' = 0 /\ state' = "ready"
        /\ UNCHANGED <<live, held, decoded>>
    BY DEF SnippetInitAgain
  <1>3. h \in LP!HeapOf(Cell)
    BY <1>1 DEF LP!HeapOf
  <1> HIDE DEF h
  <1>4. PerSubArena'
    <2>1. SubArenaOK(1, NewSubArena(1), live')
      BY <1>1, <1>2, NewSubArenaOK, SizeAssumption
    <2>2. /\ chain' = <<NewSubArena(1)>> /\ NewSubArena(1) \in SubArena
          /\ Len(chain') = 1 /\ chain'[1] = NewSubArena(1) /\ chain' \in Seq(SubArena)
      BY <1>2, <2>1 DEF SubArenaOK
    <2>3. TypeOK'
      BY <1>1, <1>2, <2>2, SizeAssumption DEF TypeOK
    <2> QED  BY <1>1, <1>2, <2>1, <2>2, <2>3 DEF PerSubArena
  <1>5. ArenaOf' /\ idx' \in [Instruction -> 0..MaxCount] /\ held' \subseteq live'
    BY <1>1, <1>2, <1>4 DEF ArenaOf
  <1> QED  BY <1>1, <1>2, <1>3, <1>5, NewListStep

LEMMA InsertAtStep ==
    ASSUME SInv, NEW ins \in Instruction, NEW i \in 0..MaxCount, SnippetInsertAt(ins, i)
    PROVE  /\ SInv'
           /\ \/ /\ Listed' = Listed /\ rc' = -1
                 /\ live' = live /\ held' = held
              \/ /\ i # 0 => Listed' = InsertAt(Listed, i + 1, ins)
                 /\ ToSet(Listed') = ToSet(Listed) \cup {ins}
                 /\ live' = live /\ held' = held \ {ins}
  <1>1. /\ Idle /\ ins \in held /\ state = "ready" /\ decoded = -1
        /\ count \in Nat /\ Listed \in Seq(Block) /\ Len(Listed) = count /\ Null \notin Block
        /\ \A m : L!ListGet(heap, SnippetHead, m) = IF m < count THEN Listed[m + 1] ELSE Null
    BY SInvFacts, ForeignAssumption DEF SnippetInsertAt, Idle
  <1>2. CASE Refused
    BY <1>1, <1>2, SameList DEF Refused, SInv
  <1>3. CASE i = count /\ Link(ins, SnippetHead)
    <2>1. count + 1 \in 1..(count + 1) /\ SnippetHead = LP!At(Listed, SnippetHead, count + 1)
      BY <1>1 DEF LP!At
    <2> QED  BY <1>1, <1>3, <2>1, LinkStep
  <1>4. CASE i = 0 /\ Link(ins, SnippetHead)
    <2>1. count + 1 \in 1..(count + 1) /\ SnippetHead = LP!At(Listed, SnippetHead, count + 1)
      BY <1>1 DEF LP!At
    <2> QED  BY <1>1, <1>4, <2>1, LinkStep
  <1>5. CASE i < count /\ i # 0 /\ Link(ins, L!ListGet(heap, SnippetHead, i))
    <2>1. i + 1 \in 1..(count + 1) /\ L!ListGet(heap, SnippetHead, i) = LP!At(Listed, SnippetHead, i + 1)
      BY <1>1, <1>5 DEF LP!At
    <2> QED  BY <1>1, <1>5, <2>1, LinkStep
  <1> QED  BY <1>2, <1>3, <1>4, <1>5 DEF SnippetInsertAt

LEMMA AppendStep ==
    ASSUME SInv, NEW ins \in Instruction, SnippetAppend(ins)
    PROVE  /\ SInv' /\ ToSet(Listed') = ToSet(Listed) \cup {ins}
           /\ live' = live /\ held' = held \ {ins}
  <1>1. count + 1 \in 1..(count + 1) /\ SnippetHead = LP!At(Listed, SnippetHead, count + 1)
    BY SInvFacts DEF LP!At
  <1> QED  BY <1>1, LinkStep DEF SnippetAppend

LEMMA InsertBeforeStep ==
    ASSUME SInv, NEW ins \in Instruction, NEW pos \in Instruction, SnippetInsertBefore(ins, pos)
    PROVE  /\ SInv' /\ ToSet(Listed') = ToSet(Listed) \cup {ins}
           /\ live' = live /\ held' = held \ {ins}
  <1>1. /\ count \in Nat /\ Listed \in Seq(Block) /\ Len(Listed) = count
    BY SInvFacts
  <1>2. PICK k \in 1..count : pos = Listed[k]
    BY <1>1 DEF SnippetInsertBefore, ToSet
  <1>3. k \in 1..(count + 1) /\ pos = LP!At(Listed, SnippetHead, k)
    BY <1>1, <1>2 DEF LP!At
  <1> QED  BY <1>3, LinkStep DEF SnippetInsertBefore

LEMMA DecodeOneStep ==
    ASSUME SInv, DecodeOne
    PROVE  SInv'
  <1> DEFINE new == CHOOSE b \in Block : live' = live \cup {b} /\ b \notin live
             zeroed == [next |-> [heap.next EXCEPT ![new] = Null],
                        prev |-> [heap.prev EXCEPT ![new] = Null]]
             s == Listed
             t == InsertAt(s, Len(s) + 1, new)
  <1>1. /\ decoded = count /\ PerSubArena /\ state = "ready" /\ Foreign = {}
        /\ AllocateFromFree \/ AllocateFromNew
    BY DEF DecodeOne, SInv, ArenaOf
  <1>2. PerSubArena' /\ new \in Block /\ live' = live \cup {new} /\ new \notin live
    BY <1>1, AllocatedBlock
  <1>3. /\ heap' = L!InsertBefore(zeroed, new, SnippetHead)
        /\ idx' = [idx EXCEPT ![new] = decoded]
        /\ count' = count + 1 /\ decoded' = decoded + 1
        /\ UNCHANGED <<held, state>>
    BY DEF DecodeOne
  <1> HIDE DEF new, s
  <1>4. /\ s \in Seq(Block) /\ s \in Seq(Cell) /\ Len(s) = count /\ LP!IsList(heap, SnippetHead, s)
        /\ count \in Nat /\ count <= MaxCount /\ MaxCount \in Nat
        /\ ToSet(s) \subseteq live \ held /\ heap \in LP!HeapOf(Cell) /\ held \subseteq live
        /\ idx \in [Instruction -> 0..MaxCount] /\ new \in Instruction
        /\ new \in Cell \ {SnippetHead} /\ SnippetHead \in Cell
    BY <1>1, <1>2, SInvFacts, Cells DEF SInv, ListHolds, s
  <1>5. new \notin ToSet(s) /\ new \notin held
    BY <1>2, <1>4
  <1>6. zeroed \in LP!HeapOf(Cell) /\ LP!IsList(zeroed, SnippetHead, s)
    BY <1>1, <1>2, <1>4, <1>5, WipedKeeps
  <1> HIDE DEF zeroed
  <1>7. heap' \in LP!HeapOf(Cell) /\ LP!IsList(heap', SnippetHead, t)
    <2>1. Len(s) + 1 \in 1..(Len(s) + 1) /\ LP!At(s, SnippetHead, Len(s) + 1) = SnippetHead
      BY <1>4 DEF LP!At
    <2>2. heap' = LP!InsertBefore(zeroed, new, LP!At(s, SnippetHead, Len(s) + 1))
      BY <1>3, <2>1, SameInsertBefore
    <2> QED  BY <1>4, <1>5, <1>6, <2>1, <2>2, LP!InsertBeforeIsList, SameSequences
  <1>8. /\ t \in Seq(Block) /\ Len(t) = Len(s) + 1
        /\ ToSet(t) = ToSet(s) \cup {new}
    <2> DEFINE k == Len(s) + 1
    <2>1. k \in 1..(Len(s) + 1)
      BY <1>4
    <2> HIDE DEF k
    <2>2. InsertAt(s, k, new) \in Seq(Block) /\ Len(InsertAt(s, k, new)) = Len(s) + 1
      BY <1>2, <1>4, <2>1, LP!InsertAtElements, SameSequences
    <2>3. ToSet(InsertAt(s, k, new)) = ToSet(s) \cup {new}
      BY <1>2, <1>4, <2>1, LP!InsertAtNodes, SameSequences
    <2> QED  BY <2>2, <2>3 DEF k
  <1> HIDE DEF t
  <1>9. /\ idx' \in [Instruction -> 0..MaxCount] /\ ArenaOf' /\ held' \subseteq live'
        /\ count' = Len(t) /\ decoded' \in {-1, count'} /\ ToSet(t) \subseteq live' \ held'
    BY <1>1, <1>2, <1>3, <1>4, <1>5, <1>8 DEF ArenaOf
  <1> QED  BY <1>1, <1>7, <1>8, <1>9, Becomes

LEMMA DecodeRejectedStep ==
    ASSUME SInv, DecodeRejected
    PROVE  SInv'
  <1> DEFINE s == Listed
  <1>1. /\ decoded # -1 /\ PerSubArena /\ state = "ready" /\ Foreign = {} /\ held \subseteq live
        /\ decoded' = -1 /\ rc' = -1 /\ UNCHANGED <<count, held, state>>
    BY DEF DecodeRejected, SInv, ArenaOf
  <1>2. CASE AllocateNoMemory /\ UNCHANGED <<heap, idx>>
    BY <1>1, <1>2, SameList DEF AllocateNoMemory
  <1>3. ASSUME NEW b \in Block \ live, PerSubArena', live' = live \cup {b}, Wiped(b)
        PROVE  SInv'
    <2> HIDE DEF s
    <2>1. /\ s \in Seq(Block) /\ Len(s) = count /\ LP!IsList(heap, SnippetHead, s)
          /\ ToSet(s) \subseteq live \ held /\ heap \in LP!HeapOf(Cell)
          /\ idx \in [Instruction -> 0..MaxCount] /\ b \in Instruction /\ MaxCount \in Nat
      BY <1>1, SInvFacts, Cells DEF SInv, ListHolds, s
    <2>2. heap' \in LP!HeapOf(Cell) /\ LP!IsList(heap', SnippetHead, s)
      <3>1. b \notin ToSet(s) /\ b \in Block
        BY <2>1
      <3> QED  BY <1>1, <1>3, <2>1, <3>1, WipedKeeps DEF Wiped
    <2>3. /\ idx' \in [Instruction -> 0..MaxCount] /\ ArenaOf' /\ held' \subseteq live'
          /\ count' = Len(s) /\ decoded' \in {-1, count'} /\ ToSet(s) \subseteq live' \ held'
      BY <1>1, <1>3, <2>1 DEF ArenaOf, Wiped
    <2> QED  BY <1>1, <2>1, <2>2, <2>3, Becomes
  <1>4. CASE /\ chain[ServingIndex(chain)].free_count # 0
             /\ chain' = [chain EXCEPT ![ServingIndex(chain)] = Taken(chain[ServingIndex(chain)])]
             /\ live' = live \cup {Head(chain[ServingIndex(chain)].free)}
             /\ Wiped(Head(chain[ServingIndex(chain)].free))
    <2> DEFINE b == Head(chain[ServingIndex(chain)].free)
    <2>1. b \in Block \ live /\ PerSubArena' /\ live' = live \cup {b} /\ Wiped(b)
      BY <1>1, <1>4, TakenKeeps
    <2> HIDE DEF b
    <2> QED  BY <1>3, <2>1
  <1>5. CASE LET new == NewSubArena(Len(chain) + 1) IN
             /\ Len(chain) < MaxChain
             /\ chain' = Append(chain, Taken(new))
             /\ live' = live \cup {Head(new.free)}
             /\ Wiped(Head(new.free))
    <2> DEFINE b == Head(NewSubArena(Len(chain) + 1).free)
    <2>1. b \in Block \ live /\ PerSubArena' /\ live' = live \cup {b} /\ Wiped(b)
      BY <1>1, <1>5, GrownKeeps
    <2> HIDE DEF b
    <2> QED  BY <1>3, <2>1
  <1> QED  BY <1>2, <1>4, <1>5 DEF DecodeRejected

LEMMA DecodeFrameStep ==
    ASSUME SInv, DecodeStart \/ DecodeEnd
    PROVE  SInv' /\ Listed' = Listed
  <1>1. CASE DecodeStart
    <2>1. rc \in {0, -1} /\ state = "ready"
      BY <1>1 DEF DecodeStart, Idle, SInv, ArenaOf, PerSubArena, TypeOK
    <2> QED  BY <1>1, <2>1, SameList DEF DecodeStart
  <1>2. CASE DecodeEnd
    <2>1. state = "ready"
      BY <1>2 DEF DecodeEnd, SInv, ArenaOf
    <2> QED  BY <1>2, <2>1, SameList DEF DecodeEnd
  <1> QED  BY <1>1, <1>2

LEMMA SInvInit ==
    ASSUME Foreign = {}, SnippetInit
    PROVE  SInv
  <1> DEFINE h == L!EmptyHeap(Instruction \cup {SnippetHead})
  <1>1. /\ Init /\ heap = L!ListInit(h, SnippetHead) /\ count = 0 /\ held = {} /\ decoded = -1
        /\ state = "ready" /\ idx \in [Instruction -> 0..MaxCount]
    BY Cells DEF SnippetInit
  <1>2. h \in LP!HeapOf(Cell)
    BY DEF L!EmptyHeap, LP!HeapOf, Cell
  <1> HIDE DEF h
  <1>3. heap \in LP!HeapOf(Cell) /\ LP!IsList(heap, SnippetHead, << >>)
    BY <1>1, <1>2, Cells, LP!ListInitIsList, SameListInit
  <1>4. << >> \in Seq(Block) /\ Len(<< >>) = 0 /\ ToSet(<< >>) = {}
    BY DEF ToSet
  <1>5. Listed = << >>
    BY <1>3, <1>4, ListRead DEF Listed
  <1>6. PerSubArena
    BY <1>1, InitIInv, IInvPerSubArena
  <1> HIDE DEF Listed
  <1> QED  BY <1>1, <1>3, <1>4, <1>5, <1>6 DEF SInv, ListHolds, ArenaOf

LEMMA SInvStutter ==
    ASSUME SInv, UNCHANGED snippetVars
    PROVE  SInv' /\ Listed' = Listed
  <1>1. UNCHANGED <<chain, live, rc, heap, count, idx, held, decoded, state>>
    BY DEF snippetVars
  <1>2. Listed' = Listed
    BY <1>1 DEF Listed
  <1>3. PerSubArena <=> PerSubArena'
    BY <1>1 DEF PerSubArena, TypeOK
  <1> HIDE DEF Listed
  <1> QED  BY <1>1, <1>2, <1>3 DEF SInv, ListHolds, ArenaOf

LEMMA SInvNext ==
    ASSUME SInv, [SnippetNext]_snippetVars
    PROVE  SInv'
  <1>1. ASSUME NEW ins \in Instruction, SnippetAppend(ins) \/ SnippetRemove(ins) PROVE SInv'
    BY <1>1, AppendStep, RemoveStep
  <1>2. ASSUME NEW ins \in Instruction, NEW i \in 0..MaxCount, SnippetInsertAt(ins, i) PROVE SInv'
    BY <1>2, InsertAtStep
  <1>3. ASSUME NEW ins \in Instruction, NEW pos \in Instruction, SnippetInsertBefore(ins, pos) PROVE SInv'
    BY <1>3, InsertBeforeStep
  <1>4. ASSUME NEW i \in 0..MaxCount, NEW j \in 0..MaxCount, SnippetSwap(i, j) PROVE SInv'
    BY <1>4, SwapStep
  <1>5. ASSUME SnippetAllocate \/ SnippetFree \/ SnippetDestroy \/ SnippetInitAgain PROVE SInv'
    BY <1>5, AllocateStep, FreeStep, DestroyStep, InitAgainStep
  <1>6. ASSUME DecodeStart \/ DecodeOne \/ DecodeRejected \/ DecodeEnd PROVE SInv'
    BY <1>6, DecodeOneStep, DecodeRejectedStep, DecodeFrameStep
  <1>7. ASSUME UNCHANGED snippetVars PROVE SInv'
    BY <1>7, SInvStutter
  <1> QED  BY <1>1, <1>2, <1>3, <1>4, <1>5, <1>6, <1>7 DEF SnippetNext

LEMMA InvariantHoldsAlways ==
    ASSUME Foreign = {}
    PROVE  SnippetSpec => []SInv
  <1>1. SnippetInit => SInv
    BY SInvInit
  <1>2. SInv /\ [SnippetNext]_snippetVars => SInv'
    BY SInvNext
  <1> QED  BY <1>1, <1>2, PTL DEF SnippetSpec

-----------------------------------------------------------------------------
(***************************************************************************)
(* Every variable of the snippet keeps its type; the state is never that   *)
(* of a wild memory access.                                                *)
(***************************************************************************)
THEOREM SnippetTypeCorrect ==
    ASSUME Foreign = {}
    PROVE  SnippetSpec => []SnippetTypeOK
  <1>1. SInv => SnippetTypeOK
    <2> SUFFICES ASSUME SInv PROVE SnippetTypeOK
      OBVIOUS
    <2>1. /\ live \subseteq Block /\ count \in Nat /\ count <= MaxCount
          /\ Instruction = Block /\ MaxCount \in Nat
      BY SInvFacts, Cells DEF SInv
    <2>2. heap \in [next : [Cell -> Cell \cup {Null}], prev : [Cell -> Cell \cup {Null}]]
      BY DEF SInv, LP!HeapOf
    <2> QED  BY <2>1, <2>2 DEF SInv, ArenaOf, SnippetTypeOK, Cell
  <1> QED  BY <1>1, InvariantHoldsAlways, PTL

(***************************************************************************)
(* No call walks into a NULL node, frees a block twice or leaves a block   *)
(* in the list that the arena could hand out again: for every number and   *)
(* size of sub-arenas, and through destroy and a second init.              *)
(***************************************************************************)
THEOREM SnippetNeverFaults ==
    ASSUME Foreign = {}
    PROVE  SnippetSpec => []NoFault
  <1>1. SInv => NoFault
    <2> SUFFICES ASSUME SInv PROVE NoFault
      OBVIOUS
    <2>1. L!Closed(heap, SnippetHead) /\ ToSet(Listed) \subseteq live
      BY SInvFacts DEF SInv, ListHolds
    <2> QED  BY <2>1 DEF SInv, ArenaOf, NoFault, ListedIsLive
  <1> QED  BY <1>1, InvariantHoldsAlways, PTL

(***************************************************************************)
(* snip->count is the number of instructions in the list, which the index  *)
(* checks of snippet_get, snippet_insert_at and snippet_swap rely on.      *)
(***************************************************************************)
THEOREM CountIsAlwaysLength ==
    ASSUME Foreign = {}
    PROVE  SnippetSpec => []CountIsLength
  <1>1. SInv => CountIsLength
    BY DEF SInv, ListHolds, CountIsLength
  <1> QED  BY <1>1, InvariantHoldsAlways, PTL

(***************************************************************************)
(* An index below the count always names an instruction: the pointer of    *)
(* list_get that the passes use without a test is never NULL.              *)
(***************************************************************************)
THEOREM IndexesNameInstructions ==
    ASSUME Foreign = {}
    PROVE  SnippetSpec => []IndexesInList
  <1>1. SInv => IndexesInList
    <2> SUFFICES ASSUME SInv, NEW i \in 0..(count - 1)
                 PROVE  L!ListGet(heap, SnippetHead, i) # Null
      BY DEF IndexesInList
    <2>1. /\ count \in Nat /\ Listed \in Seq(Block) /\ Len(Listed) = count
          /\ L!ListGet(heap, SnippetHead, i) = IF i < count THEN Listed[i + 1] ELSE Null
      BY SInvFacts
    <2>2. i < count /\ i + 1 \in 1..Len(Listed)
      BY <2>1
    <2> QED  BY <2>1, <2>2, ForeignAssumption
  <1> QED  BY <1>1, InvariantHoldsAlways, PTL

(***************************************************************************)
(* snippet_swap keeps idx and place in step: for every length of the list, *)
(* and whether the two places are neighbours or not.                       *)
(***************************************************************************)
THEOREM SwapAlwaysKeepsIndexes ==
    ASSUME Foreign = {}
    PROVE  SnippetSpec => SwapKeepsIndexes
  <1>1. ASSUME SInv, NEW i \in 0..MaxCount, NEW j \in 0..MaxCount, SnippetSwap(i, j), IndexesValid
        PROVE  IndexesValid'
    <2> DEFINE s == Listed
               t == Listed'
    <2>1. /\ s \in Seq(Block) /\ Len(s) = count /\ count \in Nat /\ LP!IsList(heap, SnippetHead, s)
          /\ idx \in [Instruction -> 0..MaxCount] /\ Instruction = Block
          /\ \A k \in 1..Len(s) : idx[s[k]] = k - 1
      BY <1>1, SInvFacts, Cells DEF SInv, ListHolds, IndexesValid
    <2>2. \/ t = s /\ idx' = idx
          \/ /\ i < count /\ j < count /\ i # j
             /\ t = [s EXCEPT ![i + 1] = s[j + 1], ![j + 1] = s[i + 1]]
             /\ idx' = [idx EXCEPT ![s[i + 1]] = j, ![s[j + 1]] = i]
      BY <1>1, SwapStep
    <2> HIDE DEF s, t
    <2>3. CASE t = s /\ idx' = idx
      BY <1>1, <2>3 DEF IndexesValid, s, t
    <2>4. CASE /\ i < count /\ j < count /\ i # j
               /\ t = [s EXCEPT ![i + 1] = s[j + 1], ![j + 1] = s[i + 1]]
               /\ idx' = [idx EXCEPT ![s[i + 1]] = j, ![s[j + 1]] = i]
      <3> DEFINE a == i + 1
                 b == j + 1
      <3>1. a \in 1..Len(s) /\ b \in 1..Len(s) /\ a # b /\ i = a - 1 /\ j = b - 1
        BY <2>1, <2>4
      <3>2. /\ t = [s EXCEPT ![a] = s[b], ![b] = s[a]]
            /\ idx' = [idx EXCEPT ![s[a]] = b - 1, ![s[b]] = a - 1]
        BY <2>4, <3>1
      <3> HIDE DEF a, b
      <3>3. \A k, l \in 1..Len(s) : s[k] = s[l] => k = l
        BY <2>1 DEF LP!IsList
      <3>4. /\ DOMAIN t = 1..Len(s)
            /\ \A k \in 1..Len(s) : t[k] = IF k = b THEN s[a] ELSE IF k = a THEN s[b] ELSE s[k]
        BY <2>1, <3>1, <3>2
      <3>5. \A x \in Block : idx'[x] = IF x = s[b] THEN a - 1 ELSE IF x = s[a] THEN b - 1 ELSE idx[x]
        BY <2>1, <3>1, <3>2
      <3>6. \A k \in 1..Len(s) : s[k] \in Block
        BY <2>1
      <3>7. ASSUME NEW k \in 1..Len(s) PROVE idx'[t[k]] = k - 1
        <4>1. CASE k = b
          BY <3>1, <3>3, <3>4, <3>5, <3>6, <4>1
        <4>2. CASE k = a
          BY <3>1, <3>3, <3>4, <3>5, <3>6, <4>2
        <4>3. CASE k # a /\ k # b
          <5>1. t[k] = s[k] /\ s[k] # s[a] /\ s[k] # s[b]
            BY <3>1, <3>3, <3>4, <4>3
          <5> QED  BY <2>1, <3>5, <3>6, <5>1
        <4> QED  BY <4>1, <4>2, <4>3
      <3> QED  BY <3>4, <3>7 DEF IndexesValid, t
    <2> QED  BY <2>2, <2>3, <2>4
  <1>2. SInv /\ [SnippetNext]_snippetVars
        => [IndexesValid /\ ~IndexesValid' => ~ \E i, j \in 0..MaxCount : SnippetSwap(i, j)]_snippetVars
    BY <1>1
  <1> QED  BY <1>2, InvariantHoldsAlways, PTL DEF SnippetSpec, SwapKeepsIndexes

(***************************************************************************)
(* An insert at an index inside the list, other than 0, puts the           *)
(* instruction at that index: for lists of every length.                   *)
(***************************************************************************)
THEOREM InsertsAtInnerIndex ==
    ASSUME Foreign = {}
    PROVE  SnippetSpec => InsertedAtInnerIndex
  <1>1. ASSUME SInv, NEW ins \in Instruction, NEW i \in 1..MaxCount, SnippetInsertAt(ins, i), rc' = 0
        PROVE  InsertedAt(ins, i)
    <2>1. i \in 0..MaxCount /\ i # 0
      BY <1>1, Cells DEF SInv
    <2> QED  BY <1>1, <2>1, InsertAtStep DEF InsertedAt
  <1>2. SInv /\ [SnippetNext]_snippetVars
        => [\A ins \in Instruction, i \in 1..MaxCount :
               SnippetInsertAt(ins, i) /\ rc' = 0 => InsertedAt(ins, i)]_snippetVars
    BY <1>1
  <1> QED  BY <1>2, InvariantHoldsAlways, PTL DEF SnippetSpec, InsertedAtInnerIndex

(***************************************************************************)
(* Outside snippet_decode no call loses a block: what is in use is in the  *)
(* list or in the hands of a caller, or was lost before.                   *)
(***************************************************************************)
THEOREM OnlyDecodeLoses ==
    ASSUME Foreign = {}
    PROVE  SnippetSpec => LostOnlyInDecode
  <1> DEFINE Kept == Lost' \subseteq Lost
  <1>1. ASSUME SInv, NEW ins \in Instruction, SnippetAppend(ins) \/ SnippetRemove(ins) PROVE Kept
    <2>1. CASE SnippetAppend(ins)
      BY <1>1, <2>1, AppendStep DEF Lost
    <2>2. CASE SnippetRemove(ins)
      BY <1>1, <2>2, RemoveStep DEF Lost
    <2> QED  BY <1>1, <2>1, <2>2
  <1>2. ASSUME SInv, NEW ins \in Instruction, NEW i \in 0..MaxCount, SnippetInsertAt(ins, i) PROVE Kept
    BY <1>2, InsertAtStep DEF Lost
  <1>3. ASSUME SInv, NEW ins \in Instruction, NEW pos \in Instruction, SnippetInsertBefore(ins, pos)
        PROVE  Kept
    BY <1>3, InsertBeforeStep DEF Lost
  <1>4. ASSUME SInv, NEW i \in 0..MaxCount, NEW j \in 0..MaxCount, SnippetSwap(i, j) PROVE Kept
    BY <1>4, SwapStep DEF Lost
  <1>5. ASSUME SInv, SnippetAllocate PROVE Kept
    BY <1>5, AllocateStep DEF Lost
  <1>6. ASSUME SInv, SnippetFree PROVE Kept
    BY <1>6, FreeStep DEF Lost
  <1>7. ASSUME SInv, SnippetDestroy \/ SnippetInitAgain PROVE Kept
    BY <1>7, DestroyStep, InitAgainStep DEF Lost
  <1>8. ASSUME SInv, DecodeStart PROVE Kept
    BY <1>8, DecodeFrameStep DEF Lost, DecodeStart
  <1>9. ASSUME DecodeOne \/ DecodeRejected \/ DecodeEnd PROVE decoded # -1
    BY <1>9 DEF DecodeOne, DecodeRejected, DecodeEnd
  <1> HIDE DEF Kept
  <1>10. SInv /\ SnippetNext => Kept \/ decoded # -1
    BY <1>1, <1>2, <1>3, <1>4, <1>5, <1>6, <1>7, <1>8, <1>9 DEF SnippetNext
  <1>11. SInv /\ [SnippetNext]_snippetVars => [Lost' \subseteq Lost \/ decoded # -1]_snippetVars
    BY <1>10 DEF Kept
  <1> QED  BY <1>11, InvariantHoldsAlways, PTL DEF SnippetSpec, LostOnlyInDecode
=============================================================================
