-------------------------- MODULE ContainersProofs --------------------------
(***************************************************************************)
(* Proofs about Containers, for every item, size and factor of growth: the *)
(* nodes of a list, in use and put aside, are two chains that share no     *)
(* node, and a list does what Container promises.  With the proofs about   *)
(* the other containers, Containers implements Container and its           *)
(* containers stay well formed.                                            *)
(***************************************************************************)
EXTENDS ArrayProofs

-----------------------------------------------------------------------------
(* Nodes of a list *)

Nodes == [prev : Nat, next : Nat, item : Contained]
Memories == UNION {[D -> Nodes] : D \in {E \in SUBSET (Nat \ {0}) : IsFiniteSet(E)}}

LEMMA MemoryKnown ==
    ASSUME NEW m
    PROVE  m \in Memories <=> m \in [DOMAIN m -> Nodes] /\ DOMAIN m \subseteq Nat \ {0} /\ IsFiniteSet(DOMAIN m)
  <1>1. ASSUME m \in Memories
        PROVE  m \in [DOMAIN m -> Nodes] /\ DOMAIN m \subseteq Nat \ {0} /\ IsFiniteSet(DOMAIN m)
    <2>1. PICK D \in {E \in SUBSET (Nat \ {0}) : IsFiniteSet(E)} : m \in [D -> Nodes]
      BY <1>1 DEF Memories
    <2>2. DOMAIN m = D
      BY <2>1
    <2> QED  BY <2>1, <2>2
  <1>2. ASSUME m \in [DOMAIN m -> Nodes], DOMAIN m \subseteq Nat \ {0}, IsFiniteSet(DOMAIN m)
        PROVE  m \in Memories
    BY <1>2 DEF Memories
  <1> QED  BY <1>1, <1>2

(* Places in a chain of nodes *)
FirstOf(s) == IF Len(s) = 0 THEN NoNode ELSE s[1]
FinalOf(s) == IF Len(s) = 0 THEN NoNode ELSE s[Len(s)]
Before(s, k) == IF k = 1 THEN NoNode ELSE s[k - 1]
Behind(s, k) == IF k = Len(s) THEN NoNode ELSE s[k + 1]

(* The equation of the walk of Onward as a function of its own *)
OnwardFrom(l, n, at, k) ==
    IF k = 0 THEN n ELSE IF at[k - 1] = NoNode THEN NoNode ELSE l.nodes[at[k - 1]].next

(* A chain that is followed from its first node is found whole. *)
LEMMA OnwardChain ==
    ASSUME NEW l, NEW n,
           NEW s \in Seq(Nat), Cardinality(DOMAIN l.nodes) \in Nat, Len(s) <= Cardinality(DOMAIN l.nodes),
           n = FirstOf(s), \A k \in 1..Len(s) : s[k] # NoNode /\ l.nodes[s[k]].next = Behind(s, k)
    PROVE  Onward(l, n) = s
  <1> DEFINE all == Cardinality(DOMAIN l.nodes)
             g(k) == IF k < Len(s) THEN s[k + 1] ELSE NoNode
             F(w) == w = [k \in 0..all |-> OnwardFrom(l, n, w, k)]
             at == CHOOSE w : F(w)
             Ends(m) == (m = all \/ at[m] = NoNode) /\ \A k \in 0 .. m - 1 : at[k] # NoNode
             length == CHOOSE m \in 0..all : Ends(m)
  <1>1. Onward(l, n) = [k \in 1..length |-> at[k - 1]]
    BY DEF Onward, OnwardFrom
  <1>2. all \in Nat /\ Len(s) \in Nat /\ Len(s) <= all
    OBVIOUS
  <1> HIDE DEF all
  <1>3. \E w : F(w)
    <2> DEFINE w == [k \in 0..all |-> g(k)]
    <2>1. \A k \in 0..all : w[k] = OnwardFrom(l, n, w, k)
      <3> TAKE k \in 0..all
      <3>1. CASE k = 0
        BY <1>2, <3>1 DEF OnwardFrom, FirstOf
      <3>2. CASE k # 0
        <4>1. k - 1 \in 0..all /\ w[k - 1] = g(k - 1) /\ w[k] = g(k) /\ (k - 1) + 1 = k
          BY <1>2, <3>2
        <4>2. CASE k - 1 < Len(s)
          <5>1. k \in 1..Len(s) /\ w[k - 1] = s[k] /\ s[k] # NoNode /\ l.nodes[s[k]].next = Behind(s, k)
            BY <1>2, <3>2, <4>1, <4>2
          <5>2. g(k) = Behind(s, k)
            BY <1>2, <5>1 DEF Behind
          <5> QED  BY <3>2, <4>1, <5>1, <5>2 DEF OnwardFrom
        <4>3. CASE ~(k - 1 < Len(s))
          BY <1>2, <3>2, <4>1, <4>3 DEF OnwardFrom
        <4> QED  BY <4>2, <4>3
      <3> QED  BY <3>1, <3>2
    <2> HIDE DEF g
    <2>2. F(w)
      BY <2>1
    <2> QED  BY <2>2
  <1>4. F(at)
    BY <1>3
  <1> HIDE DEF at
  <1>5. \A k \in 0..all : at[k] = OnwardFrom(l, n, at, k)
    BY <1>4
  <1>6. \A k \in 0..all : at[k] = g(k)
    <2> DEFINE T == {k \in 0..all : at[k] # g(k)}
    <2> SUFFICES ASSUME T # {} PROVE FALSE
      OBVIOUS
    <2>1. PICK k \in T : \A y \in T : k <= y
      <3>1. T \in SUBSET Nat
        BY <1>2
      <3> HIDE DEF T
      <3> QED  BY <3>1, LeastNumber
    <2>2. k \in 0..all /\ at[k] # g(k) /\ at[k] = OnwardFrom(l, n, at, k)
      BY <1>5, <2>1
    <2>3. k # 0
      BY <1>2, <2>2 DEF OnwardFrom, FirstOf
    <2>4. k - 1 \in 0..all /\ k - 1 \notin T /\ (k - 1) + 1 = k
      BY <1>2, <2>1, <2>2, <2>3
    <2>5. at[k - 1] = g(k - 1)
      BY <2>4
    <2>6. CASE k - 1 < Len(s)
      <3>1. k \in 1..Len(s) /\ at[k - 1] = s[k] /\ s[k] # NoNode /\ l.nodes[s[k]].next = Behind(s, k)
        BY <1>2, <2>2, <2>3, <2>4, <2>5, <2>6
      <3>2. g(k) = Behind(s, k)
        BY <1>2, <3>1 DEF Behind
      <3> QED  BY <2>2, <2>3, <3>1, <3>2 DEF OnwardFrom
    <2>7. CASE ~(k - 1 < Len(s))
      BY <1>2, <2>2, <2>3, <2>5, <2>7 DEF OnwardFrom
    <2> QED  BY <2>6, <2>7
  <1>7. length = Len(s)
    <2> DEFINE end == Len(s)
    <2>1. end \in 0..all /\ Ends(end)
      <3>1. end \in 0..all /\ at[end] = NoNode
        BY <1>2, <1>6
      <3>2. \A k \in 0 .. end - 1 : at[k] # NoNode
        <4> TAKE k \in 0 .. end - 1
        <4>1. k \in 0..all /\ k < Len(s) /\ k + 1 \in 1..Len(s)
          BY <1>2
        <4> QED  BY <1>6, <4>1
      <3> QED  BY <3>1, <3>2
    <2>2. ASSUME NEW m \in 0..all, Ends(m)
          PROVE  m = end
      <3>1. CASE m < end
        <4>1. at[m] = s[m + 1] /\ m + 1 \in 1..Len(s) /\ m # all
          BY <1>2, <1>6, <3>1
        <4>2. at[m] # NoNode
          BY <4>1
        <4> QED  BY <2>2, <4>1, <4>2
      <3>2. CASE end < m
        <4>1. end \in 0 .. m - 1 /\ at[end] = NoNode
          BY <1>2, <1>6, <3>2
        <4> QED  BY <2>2, <4>1
      <3> QED  BY <1>2, <3>1, <3>2
    <2> HIDE DEF Ends, end
    <2>3. length = end
      BY <2>1, <2>2
    <2> QED  BY <2>3 DEF end
  <1> HIDE DEF length
  <1> DEFINE r == [k \in 1..Len(s) |-> at[k - 1]]
  <1>8. r \in Seq(Nat) /\ Len(r) = Len(s) /\ \A k \in 1..Len(s) : r[k] = s[k]
    <2>1. \A k \in 1..Len(s) : k - 1 \in 0..all /\ k - 1 < Len(s) /\ (k - 1) + 1 = k
      BY <1>2
    <2>2. \A k \in 1..Len(s) : at[k - 1] = s[k] /\ s[k] \in Nat
      BY <1>6, <2>1
    <2> HIDE DEF g
    <2> QED  BY <1>2, <2>2
  <1> HIDE DEF r
  <1>9. r = s
    BY <1>8, SameSequence
  <1> QED  BY <1>1, <1>7, <1>9 DEF r

ListsOf ==
    [dynamic : BOOLEAN, nodes : Memories, slots : Nat, size : Nat, head : Nat, tail : Nat, first : Nat,
     new : Nat, memory : Nat]

LEMMA ListFields ==
    ASSUME NEW l \in ListsOf
    PROVE  /\ l = [dynamic |-> l.dynamic, nodes |-> l.nodes, slots |-> l.slots, size |-> l.size, head |-> l.head,
                   tail |-> l.tail, first |-> l.first, new |-> l.new, memory |-> l.memory]
           /\ l.dynamic \in BOOLEAN /\ l.nodes \in Memories /\ l.slots \in Nat /\ l.size \in Nat /\ l.head \in Nat
           /\ l.tail \in Nat /\ l.first \in Nat /\ l.new \in Nat /\ l.memory \in Nat
           /\ l.nodes \in [DOMAIN l.nodes -> Nodes] /\ DOMAIN l.nodes \subseteq Nat \ {0}
              /\ IsFiniteSet(DOMAIN l.nodes)
           /\ \A n \in DOMAIN l.nodes : /\ n \in Nat /\ n # NoNode /\ l.nodes[n].prev \in Nat
              /\ l.nodes[n].next \in Nat
                                        /\ l.nodes[n].item \in Contained
  <1>1. /\ l = [dynamic |-> l.dynamic, nodes |-> l.nodes, slots |-> l.slots, size |-> l.size, head |-> l.head,
                tail |-> l.tail, first |-> l.first, new |-> l.new, memory |-> l.memory]
        /\ l.dynamic \in BOOLEAN /\ l.nodes \in Memories /\ l.slots \in Nat /\ l.size \in Nat /\ l.head \in Nat
        /\ l.tail \in Nat /\ l.first \in Nat /\ l.new \in Nat /\ l.memory \in Nat
    BY DEF ListsOf
  <1>2. l.nodes \in [DOMAIN l.nodes -> Nodes] /\ DOMAIN l.nodes \subseteq Nat \ {0} /\ IsFiniteSet(DOMAIN l.nodes)
    BY <1>1, MemoryKnown
  <1>3. \A n \in DOMAIN l.nodes : /\ n \in Nat /\ n # NoNode /\ l.nodes[n].prev \in Nat /\ l.nodes[n].next \in Nat
                                  /\ l.nodes[n].item \in Contained
    BY <1>2 DEF Nodes, NoNode
  <1> QED  BY <1>1, <1>2, <1>3

In(s, n) == \E k \in 1..Len(s) : s[k] = n

(* The nodes of p are linked both ways, those of u one after the other, and no node is in both or twice. *)
Strung(nodes, p) ==
    \A k \in 1..Len(p) : p[k] \in DOMAIN nodes /\ nodes[p[k]].prev = Before(p, k) /\ nodes[p[k]].next = Behind(p, k)
Waiting(nodes, u) == \A k \in 1..Len(u) : u[k] \in DOMAIN nodes /\ nodes[u[k]].next = Behind(u, k)
Once(p, u) ==
    /\ \A j, k \in 1..Len(p) : p[j] = p[k] => j = k
    /\ \A j, k \in 1..Len(u) : u[j] = u[k] => j = k
    /\ \A n : ~(In(p, n) /\ In(u, n))

(* The nodes that were taken, a new one included: all there are, or the first ones of the buffer *)
Count(l, p, u) == Len(p) + Len(u) + IF l.new = NoNode THEN 0 ELSE 1
IsNew(l, n) == n # NoNode /\ n = l.new
Taken(l, p, u) ==
    /\ l.dynamic => Len(u) = 0 /\ \A n : n \in DOMAIN l.nodes <=> In(p, n) \/ IsNew(l, n)
    /\ ~l.dynamic => /\ DOMAIN l.nodes = 1..l.slots /\ Count(l, p, u) <= l.slots
                     /\ \A n \in 1..l.slots : In(p, n) \/ In(u, n) \/ IsNew(l, n) <=> n <= Count(l, p, u)
    /\ \A n : IsNew(l, n) => n \in DOMAIN l.nodes /\ ~In(p, n) /\ ~In(u, n)

(* The nodes of the list l are p, those that wait to be used again u. *)
Chained(l, p, u) ==
    /\ l \in ListsOf /\ p \in Seq(Nat) /\ u \in Seq(Nat)
    /\ l.head = FirstOf(p) /\ l.tail = FinalOf(p) /\ l.first = FirstOf(u)
    /\ Strung(l.nodes, p) /\ Waiting(l.nodes, u) /\ Once(p, u) /\ Taken(l, p, u)

LEMMA ChainFits ==
    ASSUME NEW D, IsFiniteSet(D), NEW s \in Seq(Nat), \A k \in 1..Len(s) : s[k] \in D,
           \A j, k \in 1..Len(s) : s[j] = s[k] => j = k
    PROVE  Cardinality(D) \in Nat /\ Len(s) <= Cardinality(D)
  <1> DEFINE n == Len(s)
             f == [k \in 1..n |-> s[k]]
  <1>1. f \in Injection(1..n, D)
    BY DEF Injection, IsInjective
  <1>2. Cardinality(1..n) <= Cardinality(D)
    BY <1>1, FS_Injection
  <1>3. n \in Nat /\ 1 \in Int /\ n \in Int
    OBVIOUS
  <1>4. Cardinality(1..n) = IF 1 > n THEN 0 ELSE n - 1 + 1
    BY <1>3, FS_Interval
  <1>5. Cardinality(1..n) = n
    BY <1>3, <1>4
  <1>6. Cardinality(D) \in Nat
    BY FS_CardinalityType
  <1> QED  BY <1>2, <1>5, <1>6

LEMMA PathOfChain ==
    ASSUME NEW l, NEW p, NEW u, Chained(l, p, u)
    PROVE  Path(l) = p /\ Unused(l) = u
  <1>1. /\ l \in ListsOf /\ p \in Seq(Nat) /\ u \in Seq(Nat) /\ l.head = FirstOf(p) /\ l.first = FirstOf(u)
        /\ Strung(l.nodes, p) /\ Waiting(l.nodes, u) /\ Once(p, u)
    BY DEF Chained
  <1>2. IsFiniteSet(DOMAIN l.nodes) /\ \A n \in DOMAIN l.nodes : n # NoNode
    BY <1>1, ListFields
  <1>3. Onward(l, l.head) = p
    <2>1. \A k \in 1..Len(p) : p[k] \in DOMAIN l.nodes /\ l.nodes[p[k]].next = Behind(p, k) /\ p[k] # NoNode
      BY <1>1, <1>2 DEF Strung
    <2>2. Cardinality(DOMAIN l.nodes) \in Nat /\ Len(p) <= Cardinality(DOMAIN l.nodes)
      <3>1. \A j, k \in 1..Len(p) : p[j] = p[k] => j = k
        BY <1>1 DEF Once
      <3> QED  BY <1>1, <1>2, <2>1, <3>1, ChainFits
    <2> QED  BY <1>1, <2>1, <2>2, OnwardChain
  <1>4. Onward(l, l.first) = u
    <2>1. \A k \in 1..Len(u) : u[k] \in DOMAIN l.nodes /\ l.nodes[u[k]].next = Behind(u, k) /\ u[k] # NoNode
      BY <1>1, <1>2 DEF Waiting
    <2>2. Cardinality(DOMAIN l.nodes) \in Nat /\ Len(u) <= Cardinality(DOMAIN l.nodes)
      <3>1. \A j, k \in 1..Len(u) : u[j] = u[k] => j = k
        BY <1>1 DEF Once
      <3> QED  BY <1>1, <1>2, <2>1, <3>1, ChainFits
    <2> QED  BY <1>1, <2>1, <2>2, OnwardChain
  <1> QED  BY <1>3, <1>4 DEF Path, Unused

LEMMA ItemsOfChain ==
    ASSUME NEW l, NEW p, NEW u, Chained(l, p, u)
    PROVE  /\ ItemsOf(l) \in Seq(Contained) /\ Len(ItemsOf(l)) = Len(p) /\ Len(p) \in Nat
           /\ \A k \in 1..Len(p) : ItemsOf(l)[k] = l.nodes[p[k]].item
  <1>1. ItemsOf(l) = [k \in 1..Len(p) |-> l.nodes[p[k]].item]
    BY PathOfChain DEF ItemsOf, Chained
  <1>2. p \in Seq(Nat) /\ \A k \in 1..Len(p) : l.nodes[p[k]].item \in Contained
    BY ListFields DEF Chained, Strung
  <1> HIDE DEF ItemsOf
  <1> QED  BY <1>1, <1>2

-----------------------------------------------------------------------------
(* Taking a node *)

(* There is a number that no node has. *)
LEMMA FreshNode ==
    ASSUME NEW m \in Memories
    PROVE  Fresh(m) \in Nat \ {0} /\ Fresh(m) \notin DOMAIN m
  <1> DEFINE D == DOMAIN m
             c == Cardinality(D)
             S == 1 .. c + 1
  <1>1. IsFiniteSet(D) /\ D \subseteq Nat \ {0}
    BY MemoryKnown
  <1>2. c \in Nat
    BY <1>1, FS_CardinalityType
  <1> HIDE DEF c
  <1>3. Cardinality(S) = c + 1
    <2>1. 1 \in Int /\ c + 1 \in Int
      BY <1>2
    <2>2. Cardinality(1 .. c + 1) = IF 1 > c + 1 THEN 0 ELSE (c + 1) - 1 + 1
      BY <2>1, FS_Interval
    <2> QED  BY <1>2, <2>2
  <1>4. \E n \in S : n \notin D
    <2> SUFFICES ASSUME S \subseteq D PROVE FALSE
      OBVIOUS
    <2>1. Cardinality(S) <= Cardinality(D)
      BY <1>1, FS_Subset
    <2>2. Cardinality(S) <= c
      BY <2>1 DEF c
    <2> QED  BY <1>2, <1>3, <2>2
  <1>5. Fresh(m) = CHOOSE n \in S : n \notin D
    BY DEF Fresh, c
  <1> HIDE DEF S
  <1>6. Fresh(m) \in S /\ Fresh(m) \notin D
    BY <1>4, <1>5
  <1> QED  BY <1>2, <1>6 DEF S

LEMMA WithNode ==
    ASSUME NEW m \in Memories, NEW n \in Nat \ {0}, n \notin DOMAIN m
    PROVE  /\ With(m, n) \in Memories /\ DOMAIN With(m, n) = DOMAIN m \cup {n}
           /\ \A k \in DOMAIN m : With(m, n)[k] = m[k]
  <1> DEFINE D == DOMAIN m \cup {n}
             w == With(m, n)
  <1>1. m \in [DOMAIN m -> Nodes] /\ DOMAIN m \subseteq Nat \ {0} /\ IsFiniteSet(DOMAIN m)
    BY MemoryKnown
  <1>2. w = [k \in D |-> IF k = n THEN BlankNode ELSE m[k]]
    BY DEF With
  <1>3. BlankNode \in Nodes
    BY DEF BlankNode, Nodes, NoNode, Contained
  <1>4. w \in [D -> Nodes] /\ DOMAIN w = D
    BY <1>1, <1>2, <1>3
  <1>5. IsFiniteSet(D)
    BY <1>1, FS_AddElement
  <1>6. D \subseteq Nat \ {0}
    BY <1>1
  <1>7. w \in Memories
    BY <1>4, <1>5, <1>6, MemoryKnown
  <1>8. \A k \in DOMAIN m : w[k] = m[k]
    BY <1>2
  <1> QED  BY <1>4, <1>7, <1>8

(* The rest of a chain *)
Rest(s) == [k \in 1 .. Len(s) - 1 |-> s[k + 1]]

LEMMA RestOfChain ==
    ASSUME NEW s \in Seq(Nat), Len(s) > 0
    PROVE  /\ Rest(s) \in Seq(Nat) /\ Len(Rest(s)) = Len(s) - 1
           /\ \A k \in 1 .. Len(s) - 1 : Rest(s)[k] = s[k + 1] /\ Behind(Rest(s), k) = Behind(s, k + 1)
           /\ FirstOf(Rest(s)) = Behind(s, 1)
           /\ \A n : In(s, n) <=> n = s[1] \/ In(Rest(s), n)
  <1> DEFINE r == Rest(s)
  <1>1. Len(s) - 1 \in Nat /\ \A k \in 1 .. Len(s) - 1 : k + 1 \in 1..Len(s) /\ s[k + 1] \in Nat
    OBVIOUS
  <1>2. r \in Seq(Nat) /\ Len(r) = Len(s) - 1 /\ \A k \in 1 .. Len(s) - 1 : r[k] = s[k + 1]
    BY <1>1 DEF Rest
  <1> HIDE DEF r
  <1>3. \A k \in 1 .. Len(s) - 1 : Behind(r, k) = Behind(s, k + 1)
    <2> TAKE k \in 1 .. Len(s) - 1
    <2>1. k # Len(r) => k + 1 \in 1..Len(r)
      BY <1>2
    <2> QED  BY <1>2, <2>1 DEF Behind
  <1>4. FirstOf(r) = Behind(s, 1)
    BY <1>2 DEF FirstOf, Behind
  <1>5. \A n : In(s, n) <=> n = s[1] \/ In(r, n)
    <2> TAKE n
    <2>1. ASSUME In(s, n)
          PROVE  n = s[1] \/ In(r, n)
      <3>1. PICK k \in 1..Len(s) : s[k] = n
        BY <2>1 DEF In
      <3>2. CASE k # 1
        <4>1. k - 1 \in 1..Len(r) /\ (k - 1) + 1 = k
          BY <1>2, <3>2
        <4>2. r[k - 1] = n
          BY <1>2, <3>1, <4>1
        <4> QED  BY <4>1, <4>2 DEF In
      <3> QED  BY <3>1, <3>2
    <2>2. ASSUME n = s[1] \/ In(r, n)
          PROVE  In(s, n)
      <3>1. CASE n = s[1]
        <4>1. 1 \in 1..Len(s)
          OBVIOUS
        <4> QED  BY <3>1, <4>1 DEF In
      <3>2. CASE In(r, n)
        <4>1. PICK k \in 1..Len(r) : r[k] = n
          BY <3>2 DEF In
        <4>2. k + 1 \in 1..Len(s) /\ s[k + 1] = n
          BY <1>2, <4>1
        <4> QED  BY <4>2 DEF In
      <3> QED  BY <2>2, <3>1, <3>2
    <2> QED  BY <2>1, <2>2
  <1> QED  BY <1>2, <1>3, <1>4, <1>5 DEF r

(* What allocating and linking leave alone, the size at times excepted *)
KinList(l, m) == m.dynamic = l.dynamic /\ m.slots = l.slots
SameItems(l, m, p) == \A k \in 1..Len(p) : m.nodes[p[k]].item = l.nodes[p[k]].item

(* The list m has a new node that is in neither chain. *)
Given(l, m, p, v) ==
    /\ Chained(m, p, v) /\ m.new # NoNode /\ m.new \in DOMAIN m.nodes /\ KinList(l, m) /\ m.size = l.size
    /\ SameItems(l, m, p)

LEMMA NodeAllocated ==
    ASSUME NEW l, NEW p, NEW u, Chained(l, p, u), l.new = NoNode, l.dynamic, NEW n, n = Fresh(l.nodes), l.memory # 0,
           NEW m, m = [l EXCEPT !.nodes = With(@, n), !.new = n, !.memory = @ - 1]
    PROVE  Given(l, m, p, u)
  <1> DEFINE w == With(l.nodes, n)
             less == l.memory - 1
  <1>1. /\ l \in ListsOf /\ p \in Seq(Nat) /\ u \in Seq(Nat)
        /\ l.head = FirstOf(p) /\ l.tail = FinalOf(p) /\ l.first = FirstOf(u)
        /\ Strung(l.nodes, p) /\ Waiting(l.nodes, u) /\ Once(p, u) /\ Taken(l, p, u)
    BY DEF Chained
  <1>2. /\ l = [dynamic |-> l.dynamic, nodes |-> l.nodes, slots |-> l.slots, size |-> l.size, head |-> l.head,
                tail |-> l.tail, first |-> l.first, new |-> l.new, memory |-> l.memory]
        /\ l.dynamic \in BOOLEAN /\ l.nodes \in Memories /\ l.slots \in Nat /\ l.size \in Nat /\ l.head \in Nat
        /\ l.tail \in Nat /\ l.first \in Nat /\ l.new \in Nat /\ l.memory \in Nat
    BY <1>1, ListFields
  <1>3. n \in Nat \ {0} /\ n \notin DOMAIN l.nodes
    BY <1>2, FreshNode
  <1>4. w \in Memories /\ DOMAIN w = DOMAIN l.nodes \cup {n} /\ \A k \in DOMAIN l.nodes : w[k] = l.nodes[k]
    BY <1>2, <1>3, WithNode
  <1>5. less \in Nat
    BY <1>2
  <1> HIDE DEF w, less
  <1>6. m = [dynamic |-> l.dynamic, nodes |-> w, slots |-> l.slots, size |-> l.size, head |-> l.head,
             tail |-> l.tail, first |-> l.first, new |-> n, memory |-> less]
    BY <1>2 DEF w, less
  <1>60. /\ l.dynamic \in BOOLEAN /\ w \in Memories /\ l.slots \in Nat /\ l.size \in Nat /\ l.head \in Nat
        /\ l.tail \in Nat /\ l.first \in Nat /\ n \in Nat /\ less \in Nat
    BY <1>2, <1>3, <1>4, <1>5
  <1>7. /\ m \in ListsOf
        /\ m.nodes = w /\ m.new = n /\ m.dynamic = l.dynamic /\ m.slots = l.slots /\ m.size = l.size
           /\ m.head = l.head
        /\ m.tail = l.tail /\ m.first = l.first
    BY ONLY <1>6, <1>60 DEF ListsOf
  <1>8. /\ m.nodes = w /\ m.new = n /\ m.dynamic = l.dynamic /\ m.slots = l.slots /\ m.size = l.size
           /\ m.head = l.head
        /\ m.tail = l.tail /\ m.first = l.first
    BY <1>7
  <1>9. Strung(w, p) /\ Waiting(w, u)
    BY <1>1, <1>4 DEF Strung, Waiting
  <1>10. \A k \in 1..Len(p) : p[k] \in DOMAIN l.nodes
    BY <1>1 DEF Strung
  <1>11. Len(u) = 0 /\ \A k : k \in DOMAIN l.nodes <=> In(p, k)
    BY <1>1 DEF Taken, IsNew
  <1>12. Taken(m, p, u)
    <2>1. \A k : IsNew(m, k) <=> k = n
      BY <1>3, <1>8 DEF IsNew, NoNode
    <2>2. \A k : k \in DOMAIN w <=> In(p, k) \/ IsNew(m, k)
      BY <1>4, <1>11, <2>1
    <2>3. ~In(p, n) /\ ~In(u, n)
      BY <1>3, <1>11 DEF In
    <2>4. n \in DOMAIN w
      BY <1>4
    <2> QED  BY <1>8, <1>11, <2>1, <2>2, <2>3, <2>4 DEF Taken
  <1>13. SameItems(l, m, p)
    BY <1>4, <1>8, <1>10 DEF SameItems
  <1>14. n # NoNode /\ n \in DOMAIN w
    BY <1>3, <1>4 DEF NoNode
  <1> QED  BY <1>1, <1>7, <1>8, <1>9, <1>12, <1>13, <1>14 DEF Given, Chained, KinList

LEMMA NodeReused ==
    ASSUME NEW l, NEW p, NEW u, Chained(l, p, u), l.new = NoNode, ~l.dynamic, l.first # NoNode,
           NEW m, m = [l EXCEPT !.new = l.first, !.first = l.nodes[l.first].next]
    PROVE  Given(l, m, p, Rest(u))
  <1> DEFINE n == l.first
             next == l.nodes[n].next
             v == Rest(u)
  <1>1. /\ l \in ListsOf /\ p \in Seq(Nat) /\ u \in Seq(Nat)
        /\ l.head = FirstOf(p) /\ l.tail = FinalOf(p) /\ l.first = FirstOf(u)
        /\ Strung(l.nodes, p) /\ Waiting(l.nodes, u) /\ Once(p, u) /\ Taken(l, p, u)
    BY DEF Chained
  <1>2. /\ l = [dynamic |-> l.dynamic, nodes |-> l.nodes, slots |-> l.slots, size |-> l.size, head |-> l.head,
                tail |-> l.tail, first |-> l.first, new |-> l.new, memory |-> l.memory]
        /\ l.dynamic \in BOOLEAN /\ l.nodes \in Memories /\ l.slots \in Nat /\ l.size \in Nat /\ l.head \in Nat
        /\ l.tail \in Nat /\ l.first \in Nat /\ l.new \in Nat /\ l.memory \in Nat
    BY <1>1, ListFields
  <1>3. Len(u) > 0 /\ 1 \in 1..Len(u) /\ n = u[1] /\ Len(u) \in Nat /\ Len(p) \in Nat
    BY <1>1 DEF FirstOf
  <1>4. n \in DOMAIN l.nodes /\ next = Behind(u, 1)
    BY <1>1, <1>3 DEF Waiting
  <1>5. /\ v \in Seq(Nat) /\ Len(v) = Len(u) - 1
        /\ \A k \in 1 .. Len(u) - 1 : v[k] = u[k + 1] /\ Behind(v, k) = Behind(u, k + 1)
        /\ FirstOf(v) = Behind(u, 1)
        /\ \A k : In(u, k) <=> k = u[1] \/ In(v, k)
    BY <1>1, <1>3, RestOfChain
  <1>6. next \in Nat
    BY <1>1, <1>4, ListFields
  <1> HIDE DEF next, v
  <1>7. m = [dynamic |-> l.dynamic, nodes |-> l.nodes, slots |-> l.slots, size |-> l.size, head |-> l.head,
             tail |-> l.tail, first |-> next, new |-> n, memory |-> l.memory]
    BY <1>2 DEF next
  <1>70. /\ l.dynamic \in BOOLEAN /\ l.nodes \in Memories /\ l.slots \in Nat /\ l.size \in Nat /\ l.head \in Nat
        /\ l.tail \in Nat /\ next \in Nat /\ n \in Nat /\ l.memory \in Nat
    BY <1>2, <1>6
  <1>8. /\ m \in ListsOf
        /\ m.nodes = l.nodes /\ m.new = n /\ m.dynamic = l.dynamic /\ m.slots = l.slots /\ m.size = l.size
           /\ m.head = l.head
        /\ m.tail = l.tail /\ m.first = next
    BY ONLY <1>7, <1>70 DEF ListsOf
  <1>9. /\ m.nodes = l.nodes /\ m.new = n /\ m.dynamic = l.dynamic /\ m.slots = l.slots /\ m.size = l.size
           /\ m.head = l.head
        /\ m.tail = l.tail /\ m.first = next
    BY <1>8
  <1>10. \A k \in 1..Len(v) : k + 1 \in 1..Len(u) /\ v[k] = u[k + 1] /\ Behind(v, k) = Behind(u, k + 1)
    BY <1>3, <1>5
  <1>11. Waiting(l.nodes, v)
    BY <1>1, <1>10 DEF Waiting
  <1>12. ~In(v, n) /\ ~In(p, n)
    <2>1. ASSUME In(v, n)
          PROVE  FALSE
      <3>1. PICK k \in 1..Len(v) : v[k] = n
        BY <2>1 DEF In
      <3>2. k + 1 \in 1..Len(u) /\ u[k + 1] = u[1] /\ 1 \in 1..Len(u)
        BY <1>3, <1>10, <3>1
      <3>3. k + 1 = 1
        BY <1>1, <3>2 DEF Once
      <3> QED  BY <3>1, <3>3
    <2>2. In(u, n)
      BY <1>3, <1>5
    <2> QED  BY <1>1, <2>1, <2>2 DEF Once
  <1>13. Once(p, v)
    <2>1. \A j, k \in 1..Len(v) : v[j] = v[k] => j = k
      <3> TAKE j, k \in 1..Len(v)
      <3>1. j + 1 \in 1..Len(u) /\ k + 1 \in 1..Len(u) /\ v[j] = u[j + 1] /\ v[k] = u[k + 1]
        BY <1>10
      <3>2. v[j] = v[k] => j + 1 = k + 1
        BY <1>1, <3>1 DEF Once
      <3> QED  BY <3>2
    <2>2. \A k : ~(In(p, k) /\ In(v, k))
      BY <1>1, <1>5 DEF Once
    <2> QED  BY <1>1, <2>1, <2>2 DEF Once
  <1>14. \A k : IsNew(m, k) <=> k = n
    BY <1>9 DEF IsNew
  <1>15. Count(m, p, v) = Count(l, p, u)
    BY <1>3, <1>5, <1>9 DEF Count
  <1>16. Taken(m, p, v)
    <2>1. \A k : In(p, k) \/ In(v, k) \/ IsNew(m, k) <=> In(p, k) \/ In(u, k) \/ IsNew(l, k)
      BY <1>3, <1>5, <1>14 DEF IsNew
    <2>2. /\ DOMAIN l.nodes = 1..l.slots /\ Count(l, p, u) <= l.slots
          /\ \A k \in 1..l.slots : In(p, k) \/ In(u, k) \/ IsNew(l, k) <=> k <= Count(l, p, u)
      BY <1>1 DEF Taken
    <2> QED  BY <1>4, <1>9, <1>12, <1>14, <1>15, <2>1, <2>2 DEF Taken
  <1>17. SameItems(l, m, p)
    BY <1>9 DEF SameItems
  <1>18. Chained(m, p, v)
    BY <1>1, <1>4, <1>5, <1>8, <1>11, <1>13, <1>16 DEF Chained
  <1>19. n # NoNode
    OBVIOUS
  <1> QED  BY <1>4, <1>9, <1>17, <1>18, <1>19 DEF Given, KinList, v

LEMMA NodeCut ==
    ASSUME NEW l, NEW p, NEW u, Chained(l, p, u), l.new = NoNode, ~l.dynamic, l.first = NoNode, l.size = Len(p),
           l.size + 1 <= l.slots, NEW m, m = [l EXCEPT !.new = l.size + 1]
    PROVE  Given(l, m, p, u)
  <1> DEFINE n == l.size + 1
  <1>1. /\ l \in ListsOf /\ p \in Seq(Nat) /\ u \in Seq(Nat)
        /\ l.head = FirstOf(p) /\ l.tail = FinalOf(p) /\ l.first = FirstOf(u)
        /\ Strung(l.nodes, p) /\ Waiting(l.nodes, u) /\ Once(p, u) /\ Taken(l, p, u)
    BY DEF Chained
  <1>2. /\ l = [dynamic |-> l.dynamic, nodes |-> l.nodes, slots |-> l.slots, size |-> l.size, head |-> l.head,
                tail |-> l.tail, first |-> l.first, new |-> l.new, memory |-> l.memory]
        /\ l.dynamic \in BOOLEAN /\ l.nodes \in Memories /\ l.slots \in Nat /\ l.size \in Nat /\ l.head \in Nat
        /\ l.tail \in Nat /\ l.first \in Nat /\ l.new \in Nat /\ l.memory \in Nat
        /\ \A k \in DOMAIN l.nodes : k # NoNode
    BY <1>1, ListFields
  <1>3. n \in Nat /\ n # NoNode /\ n \in 1..l.slots /\ n = Len(p) + 1
    BY <1>2 DEF NoNode
  <1> HIDE DEF n
  <1>4. m = [dynamic |-> l.dynamic, nodes |-> l.nodes, slots |-> l.slots, size |-> l.size, head |-> l.head,
             tail |-> l.tail, first |-> l.first, new |-> n, memory |-> l.memory]
    BY <1>2 DEF n
  <1>40. /\ l.dynamic \in BOOLEAN /\ l.nodes \in Memories /\ l.slots \in Nat /\ l.size \in Nat /\ l.head \in Nat
        /\ l.tail \in Nat /\ l.first \in Nat /\ n \in Nat /\ l.memory \in Nat
    BY <1>2, <1>3
  <1>5. /\ m \in ListsOf
        /\ m.nodes = l.nodes /\ m.new = n /\ m.dynamic = l.dynamic /\ m.slots = l.slots /\ m.size = l.size
           /\ m.head = l.head
        /\ m.tail = l.tail /\ m.first = l.first
    BY ONLY <1>4, <1>40 DEF ListsOf
  <1>6. /\ m.nodes = l.nodes /\ m.new = n /\ m.dynamic = l.dynamic /\ m.slots = l.slots /\ m.size = l.size
           /\ m.head = l.head
        /\ m.tail = l.tail /\ m.first = l.first
    BY <1>5
  <1>7. Len(u) = 0
    <2>1. Len(u) # 0 => 1 \in 1..Len(u)
      BY <1>1
    <2>2. \A k \in 1..Len(u) : u[k] # NoNode
      BY <1>1, <1>2 DEF Waiting
    <2> QED  BY <1>1, <2>1, <2>2 DEF FirstOf
  <1>8. \A k : ~In(u, k)
    BY <1>7 DEF In
  <1>9. Count(l, p, u) = Len(p) /\ Count(m, p, u) = Len(p) + 1
    BY <1>1, <1>3, <1>6, <1>7 DEF Count
  <1>10. \A k : IsNew(m, k) <=> k = n
    BY <1>3, <1>6 DEF IsNew
  <1>11. DOMAIN l.nodes = 1..l.slots /\ \A k \in 1..l.slots : In(p, k) <=> k <= Len(p)
    BY <1>1, <1>8, <1>9 DEF Taken, IsNew
  <1>12. Taken(m, p, u)
    <2>1. ~In(p, n) /\ n \in DOMAIN l.nodes
      BY <1>1, <1>3, <1>11
    <2>2. \A k \in 1..l.slots : In(p, k) \/ In(u, k) \/ IsNew(m, k) <=> k <= Len(p) + 1
      <3> TAKE k \in 1..l.slots
      <3>1. (In(p, k) <=> k <= Len(p)) /\ (IsNew(m, k) <=> k = n) /\ ~In(u, k)
        BY <1>8, <1>10, <1>11
      <3>11. k \in Nat /\ Len(p) \in Nat
        BY <1>1, <1>2
      <3>2. k <= Len(p) \/ k = Len(p) + 1 <=> k <= Len(p) + 1
        BY <3>11
      <3> QED  BY <1>3, <3>1, <3>2
    <2>3. Count(m, p, u) <= l.slots
      BY <1>3, <1>9
    <2> QED  BY <1>6, <1>8, <1>9, <1>10, <1>11, <2>1, <2>2, <2>3 DEF Taken
  <1>13. SameItems(l, m, p)
    BY <1>6 DEF SameItems
  <1>14. n \in DOMAIN l.nodes
    BY <1>3, <1>11
  <1> QED  BY <1>1, <1>3, <1>5, <1>6, <1>12, <1>13, <1>14 DEF Given, Chained, KinList

LEMMA AllocatedNode ==
    ASSUME NEW l, NEW p, NEW u, Chained(l, p, u), l.new = NoNode, l.size = Len(p)
    PROVE  \/ \E m, v : AllocateNode(l) = Success(m) /\ Given(l, m, p, v)
           \/ AllocateNode(l) = Fails("NOT_ENOUGH_MEMORY", l) /\ l.dynamic
           \/ AllocateNode(l) = Fails("INSUFFICIENT_BUFFER_SIZE", l) /\ ~l.dynamic /\ Len(p) = l.slots
  <1>1. /\ l.size \in Nat /\ l.slots \in Nat /\ l.memory \in Nat /\ Len(p) \in Nat /\ Len(u) \in Nat
        /\ Taken(l, p, u)
    BY ListFields DEF Chained
  <1>2. CASE l.dynamic /\ l.memory = 0
    BY <1>2 DEF AllocateNode
  <1>3. CASE l.dynamic /\ l.memory # 0
    <2> DEFINE n == Fresh(l.nodes)
               m == [l EXCEPT !.nodes = With(@, n), !.new = n, !.memory = @ - 1]
    <2>1. AllocateNode(l) = Success(m)
      BY <1>3 DEF AllocateNode
    <2> HIDE DEF m
    <2>2. Given(l, m, p, u)
      BY <1>3, NodeAllocated DEF m
    <2> QED  BY <2>1, <2>2
  <1>4. CASE ~l.dynamic /\ l.first # NoNode
    <2> DEFINE m == [l EXCEPT !.new = l.first, !.first = l.nodes[l.first].next]
    <2>1. AllocateNode(l) = Success(m)
      BY <1>4 DEF AllocateNode
    <2> HIDE DEF m
    <2>2. Given(l, m, p, Rest(u))
      BY <1>4, NodeReused DEF m
    <2> QED  BY <2>1, <2>2
  <1>5. CASE ~l.dynamic /\ l.first = NoNode /\ l.size + 1 <= l.slots
    <2> DEFINE m == [l EXCEPT !.new = l.size + 1]
    <2>1. AllocateNode(l) = Success(m)
      BY <1>1, <1>5 DEF AllocateNode
    <2> HIDE DEF m
    <2>2. Given(l, m, p, u)
      BY <1>5, NodeCut DEF m
    <2> QED  BY <2>1, <2>2
  <1>6. CASE ~l.dynamic /\ l.first = NoNode /\ ~(l.size + 1 <= l.slots)
    <2>1. AllocateNode(l) = Fails("INSUFFICIENT_BUFFER_SIZE", l)
      BY <1>1, <1>6 DEF AllocateNode
    <2>2. Len(p) <= l.slots
      <3>1. Count(l, p, u) <= l.slots /\ Count(l, p, u) = Len(p) + Len(u) + 0
        BY <1>1, <1>6 DEF Taken, Count
      <3> QED  BY <1>1, <3>1
    <2> QED  BY <1>1, <1>6, <2>1, <2>2
  <1> QED  BY <1>2, <1>3, <1>4, <1>5, <1>6

(* Writing to a node *)
SetPrev(w, n, a) == [w EXCEPT ![n].prev = a]
SetNext(w, n, a) == [w EXCEPT ![n].next = a]
SetItem(w, n, x) == [w EXCEPT ![n].item = x]

(* z is w but for the node n. *)
ElseSame(w, z, n) == z \in Memories /\ DOMAIN z = DOMAIN w /\ \A k \in DOMAIN w : k # n => z[k] = w[k]

LEMMA NodeSet ==
    ASSUME NEW w \in Memories, NEW n \in DOMAIN w
    PROVE  /\ \A a \in Nat : /\ ElseSame(w, SetPrev(w, n, a), n) /\ SetPrev(w, n, a)[n].prev = a
                             /\ SetPrev(w, n, a)[n].next = w[n].next /\ SetPrev(w, n, a)[n].item = w[n].item
           /\ \A a \in Nat : /\ ElseSame(w, SetNext(w, n, a), n) /\ SetNext(w, n, a)[n].next = a
                             /\ SetNext(w, n, a)[n].prev = w[n].prev /\ SetNext(w, n, a)[n].item = w[n].item
           /\ \A x \in Contained : /\ ElseSame(w, SetItem(w, n, x), n) /\ SetItem(w, n, x)[n].item = x
                                   /\ SetItem(w, n, x)[n].next = w[n].next /\ SetItem(w, n, x)[n].prev = w[n].prev
  <1> DEFINE D == DOMAIN w
  <1>1. w \in [D -> Nodes] /\ D \subseteq Nat \ {0} /\ IsFiniteSet(D) /\ n \in D
    BY MemoryKnown
  <1> HIDE DEF D
  <1>2. w[n] \in Nodes
    BY <1>1
  <1>3. ASSUME NEW z \in [D -> Nodes], \A k \in D : k # n => z[k] = w[k]
        PROVE  ElseSame(w, z, n)
    <2>1. DOMAIN z = D
      BY <1>3
    <2>2. z \in Memories
      BY <1>1, <1>3, <2>1, MemoryKnown
    <2> QED  BY <1>3, <2>1, <2>2 DEF ElseSame, D
  <1>4. ASSUME NEW e \in Nodes
        PROVE  /\ [w EXCEPT ![n] = e] \in [D -> Nodes] /\ [w EXCEPT ![n] = e][n] = e
               /\ \A k \in D : k # n => [w EXCEPT ![n] = e][k] = w[k]
    BY <1>1
  <1>5. ASSUME NEW a \in Nat
        PROVE  /\ ElseSame(w, SetPrev(w, n, a), n) /\ SetPrev(w, n, a)[n].prev = a
               /\ SetPrev(w, n, a)[n].next = w[n].next /\ SetPrev(w, n, a)[n].item = w[n].item
    <2> DEFINE e == [w[n] EXCEPT !.prev = a]
               z == [w EXCEPT ![n] = e]
    <2>1. e \in Nodes /\ e.prev = a /\ e.next = w[n].next /\ e.item = w[n].item
      BY <1>2 DEF Nodes
    <2>2. SetPrev(w, n, a) = z
      BY DEF SetPrev
    <2> HIDE DEF e
    <2>3. z \in [D -> Nodes] /\ z[n] = e /\ \A k \in D : k # n => z[k] = w[k]
      BY <1>4, <2>1
    <2> HIDE DEF z
    <2>4. ElseSame(w, z, n)
      BY <1>3, <2>3
    <2> QED  BY <2>1, <2>2, <2>3, <2>4
  <1>6. ASSUME NEW a \in Nat
        PROVE  /\ ElseSame(w, SetNext(w, n, a), n) /\ SetNext(w, n, a)[n].next = a
               /\ SetNext(w, n, a)[n].prev = w[n].prev /\ SetNext(w, n, a)[n].item = w[n].item
    <2> DEFINE e == [w[n] EXCEPT !.next = a]
               z == [w EXCEPT ![n] = e]
    <2>1. e \in Nodes /\ e.next = a /\ e.prev = w[n].prev /\ e.item = w[n].item
      BY <1>2 DEF Nodes
    <2>2. SetNext(w, n, a) = z
      BY DEF SetNext
    <2> HIDE DEF e
    <2>3. z \in [D -> Nodes] /\ z[n] = e /\ \A k \in D : k # n => z[k] = w[k]
      BY <1>4, <2>1
    <2> HIDE DEF z
    <2>4. ElseSame(w, z, n)
      BY <1>3, <2>3
    <2> QED  BY <2>1, <2>2, <2>3, <2>4
  <1>7. ASSUME NEW x \in Contained
        PROVE  /\ ElseSame(w, SetItem(w, n, x), n) /\ SetItem(w, n, x)[n].item = x
               /\ SetItem(w, n, x)[n].next = w[n].next /\ SetItem(w, n, x)[n].prev = w[n].prev
    <2> DEFINE e == [w[n] EXCEPT !.item = x]
               z == [w EXCEPT ![n] = e]
    <2>1. e \in Nodes /\ e.item = x /\ e.prev = w[n].prev /\ e.next = w[n].next
      BY <1>2 DEF Nodes
    <2>2. SetItem(w, n, x) = z
      BY DEF SetItem
    <2> HIDE DEF e
    <2>3. z \in [D -> Nodes] /\ z[n] = e /\ \A k \in D : k # n => z[k] = w[k]
      BY <1>4, <2>1
    <2> HIDE DEF z
    <2>4. ElseSame(w, z, n)
      BY <1>3, <2>3
    <2> QED  BY <2>1, <2>2, <2>3, <2>4
  <1> QED  BY <1>5, <1>6, <1>7

(* The same list with other nodes *)
LEMMA NodesReplaced ==
    ASSUME NEW l \in ListsOf, NEW w \in Memories, NEW m, m = [l EXCEPT !.nodes = w]
    PROVE  /\ m \in ListsOf
           /\ m.nodes = w /\ m.new = l.new /\ m.dynamic = l.dynamic /\ m.slots = l.slots /\ m.size = l.size
           /\ m.head = l.head /\ m.tail = l.tail /\ m.first = l.first /\ m.memory = l.memory
  <1>1. /\ l = [dynamic |-> l.dynamic, nodes |-> l.nodes, slots |-> l.slots, size |-> l.size, head |-> l.head,
                tail |-> l.tail, first |-> l.first, new |-> l.new, memory |-> l.memory]
        /\ l.dynamic \in BOOLEAN /\ l.nodes \in Memories /\ l.slots \in Nat /\ l.size \in Nat /\ l.head \in Nat
        /\ l.tail \in Nat /\ l.first \in Nat /\ l.new \in Nat /\ l.memory \in Nat
    BY ListFields
  <1>2. m = [dynamic |-> l.dynamic, nodes |-> w, slots |-> l.slots, size |-> l.size, head |-> l.head,
             tail |-> l.tail, first |-> l.first, new |-> l.new, memory |-> l.memory]
    BY <1>1
  <1>3. w \in Memories
    OBVIOUS
  <1> QED  BY ONLY <1>1, <1>2, <1>3 DEF ListsOf

(* An item is written to a node. *)
ItemPut(l, n, x) == [l EXCEPT !.nodes[n].item = x]
ItemAt(l, m, p, u, n, x) ==
    /\ Chained(m, p, u) /\ KinList(l, m) /\ m.size = l.size /\ m.new = l.new
    /\ DOMAIN m.nodes = DOMAIN l.nodes /\ m.nodes[n].item = x
    /\ \A k \in DOMAIN l.nodes : k # n => m.nodes[k] = l.nodes[k]

LEMMA ItemWritten ==
    ASSUME NEW l, NEW p, NEW u, Chained(l, p, u), NEW n \in DOMAIN l.nodes, NEW x \in Contained
    PROVE  ItemAt(l, ItemPut(l, n, x), p, u, n, x)
  <1> DEFINE m == ItemPut(l, n, x)
             w == SetItem(l.nodes, n, x)
  <1>1. /\ l \in ListsOf /\ p \in Seq(Nat) /\ u \in Seq(Nat)
        /\ l.head = FirstOf(p) /\ l.tail = FinalOf(p) /\ l.first = FirstOf(u)
        /\ Strung(l.nodes, p) /\ Waiting(l.nodes, u) /\ Once(p, u) /\ Taken(l, p, u)
    BY DEF Chained
  <1>2. l.nodes \in Memories
    BY <1>1, ListFields
  <1>3. ElseSame(l.nodes, w, n) /\ w[n].item = x /\ w[n].next = l.nodes[n].next /\ w[n].prev = l.nodes[n].prev
    BY <1>2, NodeSet
  <1>4. m = [l EXCEPT !.nodes = w]
    BY DEF SetItem, ItemPut
  <1> HIDE DEF w, m
  <1>5. w \in Memories /\ DOMAIN w = DOMAIN l.nodes /\ \A k \in DOMAIN l.nodes : k # n => w[k] = l.nodes[k]
    BY <1>3 DEF ElseSame
  <1>6. /\ m \in ListsOf
        /\ m.nodes = w /\ m.new = l.new /\ m.dynamic = l.dynamic /\ m.slots = l.slots /\ m.size = l.size
        /\ m.head = l.head /\ m.tail = l.tail /\ m.first = l.first /\ m.memory = l.memory
    BY ONLY <1>1, <1>4, <1>5, NodesReplaced
  <1>7. \A k \in DOMAIN l.nodes : w[k].next = l.nodes[k].next /\ w[k].prev = l.nodes[k].prev
    BY <1>3, <1>5
  <1>8. Strung(w, p) /\ Waiting(w, u)
    BY <1>1, <1>5, <1>7 DEF Strung, Waiting
  <1>9. Taken(m, p, u)
    BY <1>1, <1>5, <1>6 DEF Taken, Count, IsNew
  <1> QED  BY <1>1, <1>3, <1>5, <1>6, <1>8, <1>9 DEF Chained, KinList, ItemAt, m

-----------------------------------------------------------------------------
(* The new node in its place *)

ItemsKept(l, m) == DOMAIN m.nodes = DOMAIN l.nodes /\ \A k \in DOMAIN l.nodes : m.nodes[k].item = l.nodes[k].item

Placed(l, m, q, u) ==
    Chained(m, q, u) /\ KinList(l, m) /\ m.size = l.size + 1 /\ m.new = NoNode /\ ItemsKept(l, m)

LEMMA NewNode ==
    ASSUME NEW l, NEW p, NEW u, Chained(l, p, u), l.new # NoNode
    PROVE  l.new \in DOMAIN l.nodes /\ ~In(p, l.new) /\ ~In(u, l.new)
  BY DEF Chained, Taken, IsNew

LEMMA PlacedOnce ==
    ASSUME NEW l, NEW p, NEW u, Chained(l, p, u), l.new # NoNode, NEW q \in Seq(Nat), Len(q) = Len(p) + 1,
           \A k : In(q, k) <=> In(p, k) \/ k = l.new, \A j, k \in 1..Len(q) : q[j] = q[k] => j = k,
           NEW m, m.dynamic = l.dynamic, m.slots = l.slots, m.new = NoNode, DOMAIN m.nodes = DOMAIN l.nodes
    PROVE  Once(q, u) /\ Taken(m, q, u)
  <1>1. p \in Seq(Nat) /\ u \in Seq(Nat) /\ Once(p, u) /\ Taken(l, p, u) /\ ~In(u, l.new)
    BY NewNode DEF Chained
  <1>2. Once(q, u)
    BY <1>1 DEF Once
  <1>3. \A k : ~IsNew(m, k) /\ (IsNew(l, k) <=> k = l.new)
    BY DEF IsNew
  <1>4. Count(m, q, u) = Count(l, p, u)
    <2>1. Len(p) \in Nat /\ Len(u) \in Nat
      BY <1>1
    <2> QED  BY <2>1 DEF Count
  <1>5. Taken(m, q, u)
    <2>1. \A k : In(q, k) \/ IsNew(m, k) <=> In(p, k) \/ IsNew(l, k)
      BY <1>3
    <2>2. \A k : In(q, k) \/ In(u, k) \/ IsNew(m, k) <=> In(p, k) \/ In(u, k) \/ IsNew(l, k)
      BY <1>3
    <2> QED  BY <1>1, <1>3, <1>4, <2>1, <2>2 DEF Taken
  <1> QED  BY <1>2, <1>5

(* The chain with a node more at its end *)
LEMMA LongerChain ==
    ASSUME NEW p \in Seq(Nat), NEW n \in Nat
    PROVE  LET q == Append(p, n) IN
           /\ q \in Seq(Nat) /\ Len(q) = Len(p) + 1 /\ q[Len(p) + 1] = n /\ \A k \in 1..Len(p) : q[k] = p[k]
           /\ FinalOf(q) = n /\ FirstOf(q) = IF Len(p) = 0 THEN n ELSE FirstOf(p)
           /\ \A k \in 1..Len(p) : Before(q, k) = Before(p, k) /\ (k # Len(p) => Behind(q, k) = Behind(p, k))
           /\ Behind(q, Len(p) + 1) = NoNode /\ Before(q, Len(p) + 1) = FinalOf(p)
           /\ Len(p) # 0 => Behind(q, Len(p)) = n
           /\ \A k : In(q, k) <=> In(p, k) \/ k = n
           /\ ~In(p, n) /\ (\A j, k \in 1..Len(p) : p[j] = p[k] => j = k)
              => \A j, k \in 1..Len(q) : q[j] = q[k] => j = k
  <1> DEFINE q == Append(p, n)
  <1>1. /\ q \in Seq(Nat) /\ Len(q) = Len(p) + 1 /\ q[Len(p) + 1] = n /\ \A k \in 1..Len(p) : q[k] = p[k]
        /\ Len(p) \in Nat
    OBVIOUS
  <1> HIDE DEF q
  <1>2. FinalOf(q) = n /\ FirstOf(q) = IF Len(p) = 0 THEN n ELSE FirstOf(p)
    <2>1. Len(p) # 0 => 1 \in 1..Len(p)
      BY <1>1
    <2> QED  BY <1>1, <2>1 DEF FirstOf, FinalOf
  <1>3. \A k \in 1..Len(p) : Before(q, k) = Before(p, k) /\ (k # Len(p) => Behind(q, k) = Behind(p, k))
    <2> TAKE k \in 1..Len(p)
    <2>1. (k # 1 => k - 1 \in 1..Len(p)) /\ (k # Len(p) => k + 1 \in 1..Len(p)) /\ k # Len(q)
      BY <1>1
    <2> QED  BY <1>1, <2>1 DEF Before, Behind
  <1>4. Behind(q, Len(p) + 1) = NoNode /\ Before(q, Len(p) + 1) = FinalOf(p) /\ (Len(p) # 0 => Behind(q, Len(p)) = n)
    <2>1. Len(p) # 0 => Len(p) \in 1..Len(p) /\ Len(p) + 1 # 1 /\ (Len(p) + 1) - 1 = Len(p)
      BY <1>1
    <2> QED  BY <1>1, <2>1 DEF Before, Behind, FinalOf
  <1>5. \A k : In(q, k) <=> In(p, k) \/ k = n
    <2> TAKE k
    <2>1. ASSUME In(q, k)
          PROVE  In(p, k) \/ k = n
      <3>1. PICK j \in 1..Len(q) : q[j] = k
        BY <2>1 DEF In
      <3>2. j \in 1..Len(p) \/ j = Len(p) + 1
        BY <1>1, <3>1
      <3> QED  BY <1>1, <3>1, <3>2 DEF In
    <2>2. ASSUME In(p, k)
          PROVE  In(q, k)
      <3>1. PICK j \in 1..Len(p) : p[j] = k
        BY <2>2 DEF In
      <3>2. j \in 1..Len(q) /\ q[j] = k
        BY <1>1, <3>1
      <3> QED  BY <3>2 DEF In
    <2>3. In(q, n)
      <3>1. Len(p) + 1 \in 1..Len(q) /\ q[Len(p) + 1] = n
        BY <1>1
      <3> QED  BY <3>1 DEF In
    <2> QED  BY <2>1, <2>2, <2>3
  <1>6. ASSUME ~In(p, n), \A j, k \in 1..Len(p) : p[j] = p[k] => j = k
        PROVE  \A j, k \in 1..Len(q) : q[j] = q[k] => j = k
    <2> TAKE j, k \in 1..Len(q)
    <2>1. (j \in 1..Len(p) \/ j = Len(p) + 1) /\ (k \in 1..Len(p) \/ k = Len(p) + 1)
      BY <1>1
    <2>2. \A i \in 1..Len(p) : q[i] # n
      BY <1>1, <1>6 DEF In
    <2> QED  BY <1>1, <1>6, <2>1, <2>2
  <1> QED  BY <1>1, <1>2, <1>3, <1>4, <1>5, <1>6 DEF q

(* What linking at the end does to the nodes: the last one is followed by n. *)
BackNodes(l, n) ==
    LET a == SetPrev(l.nodes, n, l.tail)
        b == SetNext(a, n, NoNode)
    IN  IF l.head = NoNode THEN b ELSE SetNext(b, l.tail, n)

LEMMA LinkedBack ==
    ASSUME NEW l, NEW p, NEW u, Chained(l, p, u), l.new # NoNode
    PROVE  Placed(l, LinkBack(l), Append(p, l.new), u)
  <1> DEFINE n == l.new
             q == Append(p, n)
             a == SetPrev(l.nodes, n, l.tail)
             b == SetNext(a, n, NoNode)
             w == BackNodes(l, n)
             more == l.size + 1
             head == IF l.head = NoNode THEN n ELSE l.head
             m == LinkBack(l)
  <1>1. /\ l \in ListsOf /\ p \in Seq(Nat) /\ u \in Seq(Nat)
        /\ l.head = FirstOf(p) /\ l.tail = FinalOf(p) /\ l.first = FirstOf(u)
        /\ Strung(l.nodes, p) /\ Waiting(l.nodes, u) /\ Once(p, u) /\ Taken(l, p, u)
    BY DEF Chained
  <1>2. /\ l = [dynamic |-> l.dynamic, nodes |-> l.nodes, slots |-> l.slots, size |-> l.size, head |-> l.head,
                tail |-> l.tail, first |-> l.first, new |-> l.new, memory |-> l.memory]
        /\ l.dynamic \in BOOLEAN /\ l.nodes \in Memories /\ l.slots \in Nat /\ l.size \in Nat /\ l.head \in Nat
        /\ l.tail \in Nat /\ l.first \in Nat /\ l.new \in Nat /\ l.memory \in Nat
    BY <1>1, ListFields
  <1>3. n \in DOMAIN l.nodes /\ ~In(p, n) /\ ~In(u, n) /\ n # NoNode /\ n \in Nat /\ NoNode \in Nat
    BY <1>2, NewNode DEF NoNode
  <1>4. (\A k \in DOMAIN l.nodes : k # NoNode) /\ Len(p) \in Nat /\ (\A k \in 1..Len(p) : p[k] \in DOMAIN l.nodes)
    BY <1>1, ListFields DEF Strung
  <1>5. (l.head = NoNode <=> Len(p) = 0) /\ (Len(p) # 0 => Len(p) \in 1..Len(p) /\ l.tail = p[Len(p)])
    <2>1. Len(p) # 0 => 1 \in 1..Len(p) /\ Len(p) \in 1..Len(p)
      BY <1>4
    <2> QED  BY <1>1, <1>4, <2>1 DEF FirstOf, FinalOf
  <1>6. /\ ElseSame(l.nodes, a, n) /\ a[n].prev = l.tail /\ a[n].next = l.nodes[n].next /\ a[n].item = l.nodes[n].item
    BY <1>2, <1>3, NodeSet
  <1>7. m = [l EXCEPT !.nodes = w, !.head = head, !.tail = n, !.size = more, !.new = NoNode]
    BY DEF LinkBack, BackNodes, SetPrev, SetNext
  <1> HIDE DEF a, m, more, head
  <1>8. a \in Memories /\ DOMAIN a = DOMAIN l.nodes /\ \A k \in DOMAIN l.nodes : k # n => a[k] = l.nodes[k]
    BY <1>6 DEF ElseSame
  <1>9. ElseSame(a, b, n) /\ b[n].next = NoNode /\ b[n].prev = a[n].prev /\ b[n].item = a[n].item
    BY <1>3, <1>8, NodeSet
  <1>10. w = IF l.head = NoNode THEN b ELSE SetNext(b, l.tail, n)
    BY DEF BackNodes, a
  <1> HIDE DEF b, w
  <1>11. b \in Memories /\ DOMAIN b = DOMAIN l.nodes /\ \A k \in DOMAIN l.nodes : k # n => b[k] = l.nodes[k]
    BY <1>8, <1>9 DEF ElseSame
  <1>12. /\ w \in Memories /\ DOMAIN w = DOMAIN l.nodes /\ (\A k \in DOMAIN l.nodes : w[k].item = l.nodes[k].item)
         /\ (\A k \in DOMAIN l.nodes : k # n /\ k # l.tail => w[k] = l.nodes[k])
         /\ w[n].prev = l.tail /\ w[n].next = NoNode
         /\ (Len(p) # 0 => w[l.tail].next = n /\ w[l.tail].prev = l.nodes[l.tail].prev)
    <2>1. CASE l.head = NoNode
      BY <1>3, <1>5, <1>6, <1>9, <1>10, <1>11, <2>1
    <2>2. CASE l.head # NoNode
      <3> DEFINE z == SetNext(b, l.tail, n)
                 e == l.tail
      <3>1. e \in DOMAIN b /\ e # n
        BY <1>3, <1>4, <1>5, <1>11, <2>2 DEF In
      <3> HIDE DEF e
      <3>2. ElseSame(b, SetNext(b, e, n), e) /\ SetNext(b, e, n)[e].next = n /\ SetNext(b, e, n)[e].prev = b[e].prev
            /\ SetNext(b, e, n)[e].item = b[e].item
        BY <1>3, <1>11, <3>1, NodeSet
      <3>3. w = SetNext(b, e, n) /\ e = l.tail
        BY <1>10, <2>2 DEF e
      <3>4. w \in Memories /\ DOMAIN w = DOMAIN b /\ \A k \in DOMAIN b : k # e => w[k] = b[k]
        BY <3>2, <3>3 DEF ElseSame
      <3> QED  BY <1>3, <1>6, <1>9, <1>11, <3>1, <3>2, <3>3, <3>4
    <2> QED  BY <2>1, <2>2
  <1>13. m = [dynamic |-> l.dynamic, nodes |-> w, slots |-> l.slots, size |-> more, head |-> head,
              tail |-> n, first |-> l.first, new |-> NoNode, memory |-> l.memory]
    BY ONLY <1>2, <1>7
  <1>14. /\ l.dynamic \in BOOLEAN /\ w \in Memories /\ l.slots \in Nat /\ more \in Nat /\ head \in Nat
         /\ n \in Nat /\ l.first \in Nat /\ NoNode \in Nat /\ l.memory \in Nat
    BY <1>2, <1>3, <1>12 DEF more, head
  <1> HIDE DEF n
  <1>15. /\ m \in ListsOf
         /\ m.nodes = w /\ m.new = NoNode /\ m.dynamic = l.dynamic /\ m.slots = l.slots /\ m.size = more
         /\ m.head = head /\ m.tail = n /\ m.first = l.first
    BY ONLY <1>13, <1>14 DEF ListsOf
  <1>16. /\ q \in Seq(Nat) /\ Len(q) = Len(p) + 1 /\ q[Len(p) + 1] = n /\ \A k \in 1..Len(p) : q[k] = p[k]
         /\ FinalOf(q) = n /\ FirstOf(q) = IF Len(p) = 0 THEN n ELSE FirstOf(p)
         /\ \A k \in 1..Len(p) : Before(q, k) = Before(p, k) /\ (k # Len(p) => Behind(q, k) = Behind(p, k))
         /\ Behind(q, Len(p) + 1) = NoNode /\ Before(q, Len(p) + 1) = FinalOf(p)
         /\ Len(p) # 0 => Behind(q, Len(p)) = n
         /\ \A k : In(q, k) <=> In(p, k) \/ k = n
         /\ ~In(p, n) /\ (\A j, k \in 1..Len(p) : p[j] = p[k] => j = k)
            => \A j, k \in 1..Len(q) : q[j] = q[k] => j = k
    BY <1>1, <1>3, LongerChain
  <1> HIDE DEF q
  <1>17. Strung(w, q)
    <2> SUFFICES ASSUME NEW k \in 1..Len(q)
                 PROVE  q[k] \in DOMAIN w /\ w[q[k]].prev = Before(q, k) /\ w[q[k]].next = Behind(q, k)
      BY DEF Strung
    <2>1. CASE k = Len(p) + 1
      BY <1>1, <1>3, <1>12, <1>16, <2>1
    <2>2. CASE k # Len(p) + 1
      <3>1. k \in 1..Len(p)
        BY <1>4, <1>16, <2>2
      <3>2. p[k] \in DOMAIN l.nodes /\ l.nodes[p[k]].prev = Before(p, k) /\ l.nodes[p[k]].next = Behind(p, k)
        BY <1>1, <3>1 DEF Strung
      <3>3. p[k] # n
        BY <1>3, <3>1 DEF In
      <3>4. CASE k = Len(p)
        <4>1. p[k] = l.tail /\ Len(p) # 0
          BY <1>4, <1>5, <3>1, <3>4
        <4> QED  BY <1>12, <1>16, <3>1, <3>2, <3>4, <4>1
      <3>5. CASE k # Len(p)
        <4>1. p[k] # l.tail
          <5>1. Len(p) \in 1..Len(p) /\ l.tail = p[Len(p)]
            BY <1>4, <1>5, <3>1
          <5>2. p[k] = p[Len(p)] => k = Len(p)
            BY <1>1, <3>1, <5>1 DEF Once
          <5> QED  BY <3>5, <5>1, <5>2
        <4> QED  BY <1>12, <1>16, <3>1, <3>2, <3>3, <3>5, <4>1
      <3> QED  BY <3>4, <3>5
    <2> QED  BY <2>1, <2>2
  <1>18. Waiting(w, u)
    <2> SUFFICES ASSUME NEW k \in 1..Len(u)
                 PROVE  u[k] \in DOMAIN w /\ w[u[k]].next = Behind(u, k)
      BY DEF Waiting
    <2>1. u[k] \in DOMAIN l.nodes /\ l.nodes[u[k]].next = Behind(u, k) /\ In(u, u[k])
      BY <1>1 DEF Waiting, In
    <2>2. u[k] # n /\ ~In(p, u[k]) /\ u[k] # NoNode
      BY <1>1, <1>3, <1>4, <2>1 DEF Once
    <2>3. u[k] # l.tail
      <3>1. Len(p) # 0 => In(p, l.tail)
        BY <1>5 DEF In
      <3>2. Len(p) = 0 => l.tail = NoNode
        BY <1>1 DEF FinalOf
      <3> QED  BY <2>2, <3>1, <3>2
    <2> QED  BY <1>12, <2>1, <2>2, <2>3
  <1>19. Once(q, u) /\ Taken(m, q, u)
    <2>1. (\A j, k \in 1..Len(q) : q[j] = q[k] => j = k) /\ Len(q) = Len(p) + 1
      BY <1>1, <1>3, <1>16 DEF Once
    <2>2. \A k : In(q, k) <=> In(p, k) \/ k = l.new
      BY <1>16 DEF n
    <2>3. m.dynamic = l.dynamic /\ m.slots = l.slots /\ m.new = NoNode /\ DOMAIN m.nodes = DOMAIN l.nodes
      BY <1>12, <1>15
    <2>4. Chained(l, p, u) /\ l.new # NoNode /\ q \in Seq(Nat)
      BY <1>16
    <2> QED  BY ONLY <2>1, <2>2, <2>3, <2>4, PlacedOnce
  <1>20. m.head = FirstOf(q) /\ m.tail = FinalOf(q) /\ m.first = FirstOf(u)
    BY <1>1, <1>5, <1>15, <1>16 DEF head
  <1>21. Chained(m, q, u)
    BY <1>1, <1>15, <1>16, <1>17, <1>18, <1>19, <1>20 DEF Chained
  <1>22. ItemsKept(l, m)
    BY <1>12, <1>15 DEF ItemsKept
  <1> QED  BY <1>15, <1>21, <1>22 DEF Placed, KinList, m, q, n, more

(* The chain with a node more in front *)
Ahead(n, p) == [k \in 1 .. Len(p) + 1 |-> IF k = 1 THEN n ELSE p[k - 1]]

LEMMA ChainAhead ==
    ASSUME NEW p \in Seq(Nat), NEW n \in Nat
    PROVE  LET q == Ahead(n, p) IN
           /\ q \in Seq(Nat) /\ Len(q) = Len(p) + 1 /\ q[1] = n /\ \A k \in 1..Len(p) : q[k + 1] = p[k]
           /\ FirstOf(q) = n /\ FinalOf(q) = IF Len(p) = 0 THEN n ELSE FinalOf(p)
           /\ \A k \in 1..Len(p) : Behind(q, k + 1) = Behind(p, k) /\ (k # 1 => Before(q, k + 1) = Before(p, k))
           /\ Before(q, 1) = NoNode /\ Behind(q, 1) = FirstOf(p)
           /\ Len(p) # 0 => Before(q, 2) = n
           /\ \A k : In(q, k) <=> In(p, k) \/ k = n
           /\ ~In(p, n) /\ (\A j, k \in 1..Len(p) : p[j] = p[k] => j = k)
              => \A j, k \in 1..Len(q) : q[j] = q[k] => j = k
  <1> DEFINE q == Ahead(n, p)
  <1>1. Len(p) \in Nat /\ \A k \in 1 .. Len(p) + 1 : k # 1 => k - 1 \in 1..Len(p)
    OBVIOUS
  <1>2. /\ q \in Seq(Nat) /\ Len(q) = Len(p) + 1 /\ q[1] = n /\ \A k \in 1..Len(p) : q[k + 1] = p[k]
    <2>1. \A k \in 1 .. Len(p) + 1 : (IF k = 1 THEN n ELSE p[k - 1]) \in Nat
      BY <1>1
    <2>2. q \in Seq(Nat) /\ Len(q) = Len(p) + 1 /\ \A k \in 1 .. Len(p) + 1 : q[k] = IF k = 1 THEN n ELSE p[k - 1]
      BY <1>1, <2>1 DEF Ahead
    <2>3. \A k \in 1..Len(p) : k + 1 \in 1 .. Len(p) + 1 /\ k + 1 # 1 /\ (k + 1) - 1 = k
      BY <1>1
    <2>4. 1 \in 1 .. Len(p) + 1
      BY <1>1
    <2> HIDE DEF q
    <2> QED  BY <2>2, <2>3, <2>4
  <1> HIDE DEF q
  <1>3. FirstOf(q) = n /\ FinalOf(q) = IF Len(p) = 0 THEN n ELSE FinalOf(p)
    <2>1. Len(p) # 0 => Len(p) \in 1..Len(p)
      BY <1>1
    <2> QED  BY <1>1, <1>2, <2>1 DEF FirstOf, FinalOf
  <1>4. \A k \in 1..Len(p) : Behind(q, k + 1) = Behind(p, k) /\ (k # 1 => Before(q, k + 1) = Before(p, k))
    <2> TAKE k \in 1..Len(p)
    <2>1. (k # 1 => k - 1 \in 1..Len(p) /\ (k - 1) + 1 = k) /\ (k # Len(p) => k + 1 \in 1..Len(p))
      BY <1>1
    <2>2. k + 1 # 1 /\ (k + 1) - 1 = k /\ (k + 1 = Len(q) <=> k = Len(p))
      BY <1>1, <1>2
    <2>3. k # 1 => q[k] = p[k - 1]
      BY <1>2, <2>1
    <2>4. k # Len(p) => q[(k + 1) + 1] = p[k + 1]
      BY <1>2, <2>1
    <2> QED  BY <2>2, <2>3, <2>4 DEF Before, Behind
  <1>5. Before(q, 1) = NoNode /\ Behind(q, 1) = FirstOf(p) /\ (Len(p) # 0 => Before(q, 2) = n)
    <2>1. Len(p) # 0 => 1 \in 1..Len(p)
      BY <1>1
    <2> QED  BY <1>1, <1>2, <2>1 DEF Before, Behind, FirstOf
  <1>6. \A k : In(q, k) <=> In(p, k) \/ k = n
    <2> TAKE k
    <2>1. ASSUME In(q, k)
          PROVE  In(p, k) \/ k = n
      <3>1. PICK j \in 1..Len(q) : q[j] = k
        BY <2>1 DEF In
      <3>2. j = 1 \/ (j - 1 \in 1..Len(p) /\ (j - 1) + 1 = j)
        BY <1>1, <1>2, <3>1
      <3>3. j # 1 => p[j - 1] = k
        BY <1>2, <3>1, <3>2
      <3> QED  BY <1>2, <3>1, <3>2, <3>3 DEF In
    <2>2. ASSUME In(p, k)
          PROVE  In(q, k)
      <3>1. PICK j \in 1..Len(p) : p[j] = k
        BY <2>2 DEF In
      <3>2. j + 1 \in 1..Len(q) /\ q[j + 1] = k
        BY <1>1, <1>2, <3>1
      <3> QED  BY <3>2 DEF In
    <2>3. In(q, n)
      <3>1. 1 \in 1..Len(q) /\ q[1] = n
        BY <1>1, <1>2
      <3> QED  BY <3>1 DEF In
    <2> QED  BY <2>1, <2>2, <2>3
  <1>7. ASSUME ~In(p, n), \A j, k \in 1..Len(p) : p[j] = p[k] => j = k
        PROVE  \A j, k \in 1..Len(q) : q[j] = q[k] => j = k
    <2> TAKE j, k \in 1..Len(q)
    <2>1. /\ j = 1 \/ (j - 1 \in 1..Len(p) /\ (j - 1) + 1 = j)
          /\ k = 1 \/ (k - 1 \in 1..Len(p) /\ (k - 1) + 1 = k)
      BY <1>1, <1>2
    <2>2. \A i \in 1..Len(p) : p[i] # n
      BY <1>7 DEF In
    <2>3. (j # 1 => q[j] = p[j - 1]) /\ (k # 1 => q[k] = p[k - 1]) /\ q[1] = n
      BY <1>2, <2>1
    <2>4. j # 1 /\ k # 1 /\ p[j - 1] = p[k - 1] => j - 1 = k - 1
      BY <1>7, <2>1
    <2>5. j # 1 /\ k # 1 /\ j - 1 = k - 1 => j = k
      BY <2>1
    <2> QED  BY <2>1, <2>2, <2>3, <2>4, <2>5
  <1> QED  BY <1>2, <1>3, <1>4, <1>5, <1>6, <1>7 DEF q

(* What linking in front does to the nodes: the first one follows n. *)
FrontNodes(l, n) ==
    LET a == SetPrev(l.nodes, n, NoNode)
        b == SetNext(a, n, l.head)
    IN  IF l.head = NoNode THEN b ELSE SetPrev(b, l.head, n)

LEMMA LinkedFront ==
    ASSUME NEW l, NEW p, NEW u, Chained(l, p, u), l.new # NoNode
    PROVE  Placed(l, LinkFront(l), Ahead(l.new, p), u)
  <1> DEFINE n == l.new
             q == Ahead(n, p)
             a == SetPrev(l.nodes, n, NoNode)
             b == SetNext(a, n, l.head)
             w == FrontNodes(l, n)
             more == l.size + 1
             tail == IF l.head = NoNode THEN n ELSE l.tail
             m == LinkFront(l)
  <1>1. /\ l \in ListsOf /\ p \in Seq(Nat) /\ u \in Seq(Nat)
        /\ l.head = FirstOf(p) /\ l.tail = FinalOf(p) /\ l.first = FirstOf(u)
        /\ Strung(l.nodes, p) /\ Waiting(l.nodes, u) /\ Once(p, u) /\ Taken(l, p, u)
    BY DEF Chained
  <1>2. /\ l = [dynamic |-> l.dynamic, nodes |-> l.nodes, slots |-> l.slots, size |-> l.size, head |-> l.head,
                tail |-> l.tail, first |-> l.first, new |-> l.new, memory |-> l.memory]
        /\ l.dynamic \in BOOLEAN /\ l.nodes \in Memories /\ l.slots \in Nat /\ l.size \in Nat /\ l.head \in Nat
        /\ l.tail \in Nat /\ l.first \in Nat /\ l.new \in Nat /\ l.memory \in Nat
    BY <1>1, ListFields
  <1>3. n \in DOMAIN l.nodes /\ ~In(p, n) /\ ~In(u, n) /\ n # NoNode /\ n \in Nat /\ NoNode \in Nat
    BY <1>2, NewNode DEF NoNode
  <1>4. (\A k \in DOMAIN l.nodes : k # NoNode) /\ Len(p) \in Nat /\ (\A k \in 1..Len(p) : p[k] \in DOMAIN l.nodes)
    BY <1>1, ListFields DEF Strung
  <1>5. (l.head = NoNode <=> Len(p) = 0) /\ (Len(p) # 0 => 1 \in 1..Len(p) /\ l.head = p[1])
    <2>1. Len(p) # 0 => 1 \in 1..Len(p)
      BY <1>4
    <2> QED  BY <1>1, <1>4, <2>1 DEF FirstOf
  <1>6. /\ ElseSame(l.nodes, a, n) /\ a[n].prev = NoNode /\ a[n].next = l.nodes[n].next /\ a[n].item = l.nodes[n].item
    BY <1>2, <1>3, NodeSet
  <1>7. m = [l EXCEPT !.nodes = w, !.head = n, !.tail = tail, !.size = more, !.new = NoNode]
    BY DEF LinkFront, FrontNodes, SetPrev, SetNext
  <1> HIDE DEF a, m, more, tail
  <1>8. a \in Memories /\ DOMAIN a = DOMAIN l.nodes /\ \A k \in DOMAIN l.nodes : k # n => a[k] = l.nodes[k]
    BY <1>6 DEF ElseSame
  <1>9. ElseSame(a, b, n) /\ b[n].next = l.head /\ b[n].prev = a[n].prev /\ b[n].item = a[n].item
    BY <1>2, <1>3, <1>8, NodeSet
  <1>10. w = IF l.head = NoNode THEN b ELSE SetPrev(b, l.head, n)
    BY DEF FrontNodes, a
  <1> HIDE DEF b, w
  <1>11. b \in Memories /\ DOMAIN b = DOMAIN l.nodes /\ \A k \in DOMAIN l.nodes : k # n => b[k] = l.nodes[k]
    BY <1>8, <1>9 DEF ElseSame
  <1>12. /\ w \in Memories /\ DOMAIN w = DOMAIN l.nodes /\ (\A k \in DOMAIN l.nodes : w[k].item = l.nodes[k].item)
         /\ (\A k \in DOMAIN l.nodes : k # n /\ k # l.head => w[k] = l.nodes[k])
         /\ w[n].prev = NoNode /\ w[n].next = l.head
         /\ (Len(p) # 0 => w[l.head].prev = n /\ w[l.head].next = l.nodes[l.head].next)
    <2>1. CASE l.head = NoNode
      BY <1>3, <1>5, <1>6, <1>9, <1>10, <1>11, <2>1
    <2>2. CASE l.head # NoNode
      <3> DEFINE e == l.head
      <3>1. e \in DOMAIN b /\ e # n
        BY <1>3, <1>4, <1>5, <1>11, <2>2 DEF In
      <3> HIDE DEF e
      <3>2. ElseSame(b, SetPrev(b, e, n), e) /\ SetPrev(b, e, n)[e].prev = n /\ SetPrev(b, e, n)[e].next = b[e].next
            /\ SetPrev(b, e, n)[e].item = b[e].item
        BY <1>3, <1>11, <3>1, NodeSet
      <3>3. w = SetPrev(b, e, n) /\ e = l.head
        BY <1>10, <2>2 DEF e
      <3>4. w \in Memories /\ DOMAIN w = DOMAIN b /\ \A k \in DOMAIN b : k # e => w[k] = b[k]
        BY <3>2, <3>3 DEF ElseSame
      <3> QED  BY <1>3, <1>6, <1>9, <1>11, <3>1, <3>2, <3>3, <3>4
    <2> QED  BY <2>1, <2>2
  <1>13. m = [dynamic |-> l.dynamic, nodes |-> w, slots |-> l.slots, size |-> more, head |-> n,
              tail |-> tail, first |-> l.first, new |-> NoNode, memory |-> l.memory]
    BY ONLY <1>2, <1>7
  <1>14. /\ l.dynamic \in BOOLEAN /\ w \in Memories /\ l.slots \in Nat /\ more \in Nat /\ tail \in Nat
         /\ n \in Nat /\ l.first \in Nat /\ NoNode \in Nat /\ l.memory \in Nat
    BY <1>2, <1>3, <1>12 DEF more, tail
  <1> HIDE DEF n
  <1>15. /\ m \in ListsOf
         /\ m.nodes = w /\ m.new = NoNode /\ m.dynamic = l.dynamic /\ m.slots = l.slots /\ m.size = more
         /\ m.head = n /\ m.tail = tail /\ m.first = l.first
    BY ONLY <1>13, <1>14 DEF ListsOf
  <1>16. /\ q \in Seq(Nat) /\ Len(q) = Len(p) + 1 /\ q[1] = n /\ \A k \in 1..Len(p) : q[k + 1] = p[k]
         /\ FirstOf(q) = n /\ FinalOf(q) = IF Len(p) = 0 THEN n ELSE FinalOf(p)
         /\ \A k \in 1..Len(p) : Behind(q, k + 1) = Behind(p, k) /\ (k # 1 => Before(q, k + 1) = Before(p, k))
         /\ Before(q, 1) = NoNode /\ Behind(q, 1) = FirstOf(p)
         /\ Len(p) # 0 => Before(q, 2) = n
         /\ \A k : In(q, k) <=> In(p, k) \/ k = n
         /\ ~In(p, n) /\ (\A j, k \in 1..Len(p) : p[j] = p[k] => j = k)
            => \A j, k \in 1..Len(q) : q[j] = q[k] => j = k
    BY <1>1, <1>3, ChainAhead
  <1> HIDE DEF q
  <1>17. Strung(w, q)
    <2> SUFFICES ASSUME NEW k \in 1..Len(q)
                 PROVE  q[k] \in DOMAIN w /\ w[q[k]].prev = Before(q, k) /\ w[q[k]].next = Behind(q, k)
      BY DEF Strung
    <2>1. CASE k = 1
      BY <1>1, <1>3, <1>12, <1>16, <2>1
    <2>2. CASE k # 1
      <3>1. PICK j \in 1..Len(p) : k = j + 1
        <4>1. k - 1 \in 1..Len(p) /\ k = (k - 1) + 1
          BY <1>4, <1>16, <2>2
        <4> QED  BY <4>1
      <3>2. p[j] \in DOMAIN l.nodes /\ l.nodes[p[j]].prev = Before(p, j) /\ l.nodes[p[j]].next = Behind(p, j)
        BY <1>1, <3>1 DEF Strung
      <3>3. p[j] # n
        BY <1>3, <3>1 DEF In
      <3>4. CASE j = 1
        <4>1. p[j] = l.head /\ Len(p) # 0 /\ k = 2
          BY <1>4, <1>5, <3>1, <3>4
        <4> QED  BY <1>12, <1>16, <3>1, <3>2, <3>4, <4>1
      <3>5. CASE j # 1
        <4>1. p[j] # l.head
          <5>1. 1 \in 1..Len(p) /\ l.head = p[1]
            BY <1>4, <1>5, <3>1
          <5>2. p[j] = p[1] => j = 1
            BY <1>1, <3>1, <5>1 DEF Once
          <5> QED  BY <3>5, <5>1, <5>2
        <4> QED  BY <1>12, <1>16, <3>1, <3>2, <3>3, <3>5, <4>1
      <3> QED  BY <3>4, <3>5
    <2> QED  BY <2>1, <2>2
  <1>18. Waiting(w, u)
    <2> SUFFICES ASSUME NEW k \in 1..Len(u)
                 PROVE  u[k] \in DOMAIN w /\ w[u[k]].next = Behind(u, k)
      BY DEF Waiting
    <2>1. u[k] \in DOMAIN l.nodes /\ l.nodes[u[k]].next = Behind(u, k) /\ In(u, u[k])
      BY <1>1 DEF Waiting, In
    <2>2. u[k] # n /\ ~In(p, u[k]) /\ u[k] # NoNode
      BY <1>1, <1>3, <1>4, <2>1 DEF Once
    <2>3. u[k] # l.head
      <3>1. Len(p) # 0 => In(p, l.head)
        BY <1>5 DEF In
      <3>2. Len(p) = 0 => l.head = NoNode
        BY <1>1 DEF FirstOf
      <3> QED  BY <2>2, <3>1, <3>2
    <2> QED  BY <1>12, <2>1, <2>2, <2>3
  <1>19. Once(q, u) /\ Taken(m, q, u)
    <2>1. (\A j, k \in 1..Len(q) : q[j] = q[k] => j = k) /\ Len(q) = Len(p) + 1
      BY <1>1, <1>3, <1>16 DEF Once
    <2>2. \A k : In(q, k) <=> In(p, k) \/ k = l.new
      BY <1>16 DEF n
    <2>3. m.dynamic = l.dynamic /\ m.slots = l.slots /\ m.new = NoNode /\ DOMAIN m.nodes = DOMAIN l.nodes
      BY <1>12, <1>15
    <2>4. Chained(l, p, u) /\ l.new # NoNode /\ q \in Seq(Nat)
      BY <1>16
    <2> QED  BY ONLY <2>1, <2>2, <2>3, <2>4, PlacedOnce
  <1>20. m.head = FirstOf(q) /\ m.tail = FinalOf(q) /\ m.first = FirstOf(u)
    BY <1>1, <1>5, <1>15, <1>16 DEF tail
  <1>21. Chained(m, q, u)
    BY <1>1, <1>15, <1>16, <1>17, <1>18, <1>19, <1>20 DEF Chained
  <1>22. ItemsKept(l, m)
    BY <1>12, <1>15 DEF ItemsKept
  <1> QED  BY <1>15, <1>21, <1>22 DEF Placed, KinList, m, q, n, more

-----------------------------------------------------------------------------
(* Giving a node back *)

LEMMA WithoutNode ==
    ASSUME NEW w \in Memories, NEW n \in DOMAIN w
    PROVE  /\ Without(w, n) \in Memories /\ DOMAIN Without(w, n) = DOMAIN w \ {n}
           /\ \A k \in DOMAIN w : k # n => Without(w, n)[k] = w[k]
  <1> DEFINE D == DOMAIN w
             E == D \ {n}
             z == Without(w, n)
  <1>1. w \in [D -> Nodes] /\ D \subseteq Nat \ {0} /\ IsFiniteSet(D)
    BY MemoryKnown
  <1>2. z = [k \in E |-> w[k]]
    BY DEF Without
  <1>3. IsFiniteSet(E)
    BY <1>1, FS_RemoveElement
  <1>4. z \in [E -> Nodes] /\ DOMAIN z = E
    BY <1>1, <1>2
  <1>5. E \subseteq Nat \ {0}
    BY <1>1
  <1>6. \A k \in D : k # n => z[k] = w[k]
    BY <1>2
  <1>7. z \in Memories
    BY <1>3, <1>4, <1>5, MemoryKnown
  <1> QED  BY <1>4, <1>6, <1>7

FreedNodes(l, m, n) ==
    /\ m \in ListsOf /\ KinList(l, m) /\ m.size = l.size /\ m.head = l.head /\ m.tail = l.tail /\ m.new = l.new
    /\ m.memory = l.memory
    /\ DOMAIN m.nodes = (IF l.dynamic THEN DOMAIN l.nodes \ {n} ELSE DOMAIN l.nodes)
    /\ \A k \in DOMAIN m.nodes : k # n => m.nodes[k] = l.nodes[k]
    /\ m.first = IF l.dynamic THEN l.first ELSE n
    /\ ~l.dynamic => m.nodes[n].next = l.first

LEMMA FreedNode ==
    ASSUME NEW l \in ListsOf, NEW n \in DOMAIN l.nodes
    PROVE  FreedNodes(l, DeallocateNode(l, n), n)
  <1> DEFINE m == DeallocateNode(l, n)
             first == l.first
  <1>1. /\ l = [dynamic |-> l.dynamic, nodes |-> l.nodes, slots |-> l.slots, size |-> l.size, head |-> l.head,
                tail |-> l.tail, first |-> l.first, new |-> l.new, memory |-> l.memory]
        /\ l.dynamic \in BOOLEAN /\ l.nodes \in Memories /\ l.slots \in Nat /\ l.size \in Nat /\ l.head \in Nat
        /\ l.tail \in Nat /\ l.first \in Nat /\ l.new \in Nat /\ l.memory \in Nat
        /\ n \in Nat
    BY ListFields
  <1>2. CASE l.dynamic
    <2> DEFINE w == Without(l.nodes, n)
    <2>1. m = [l EXCEPT !.nodes = w]
      BY <1>2 DEF DeallocateNode
    <2>2. w \in Memories /\ DOMAIN w = DOMAIN l.nodes \ {n} /\ \A k \in DOMAIN l.nodes : k # n => w[k] = l.nodes[k]
      BY <1>1, WithoutNode
    <2> HIDE DEF w, m
    <2>3. /\ m \in ListsOf
          /\ m.nodes = w /\ m.new = l.new /\ m.dynamic = l.dynamic /\ m.slots = l.slots /\ m.size = l.size
          /\ m.head = l.head /\ m.tail = l.tail /\ m.first = l.first /\ m.memory = l.memory
      BY <2>1, <2>2, NodesReplaced
    <2> QED  BY <1>2, <2>2, <2>3 DEF FreedNodes, KinList, m
  <1>3. CASE ~l.dynamic
    <2> DEFINE w == SetNext(l.nodes, n, first)
    <2>1. m = [l EXCEPT !.nodes = w, !.first = n]
      BY <1>3 DEF DeallocateNode, SetNext
    <2>2. ElseSame(l.nodes, w, n) /\ w[n].next = first
      BY <1>1, NodeSet
    <2> HIDE DEF w, m
    <2>3. w \in Memories /\ DOMAIN w = DOMAIN l.nodes /\ \A k \in DOMAIN l.nodes : k # n => w[k] = l.nodes[k]
      BY <2>2 DEF ElseSame
    <2>4. m = [dynamic |-> l.dynamic, nodes |-> w, slots |-> l.slots, size |-> l.size, head |-> l.head,
               tail |-> l.tail, first |-> n, new |-> l.new, memory |-> l.memory]
      BY ONLY <1>1, <2>1
    <2>5. w \in Memories
      BY <2>3
    <2>6. /\ m \in ListsOf
          /\ m.nodes = w /\ m.new = l.new /\ m.dynamic = l.dynamic /\ m.slots = l.slots /\ m.size = l.size
          /\ m.head = l.head /\ m.tail = l.tail /\ m.first = n /\ m.memory = l.memory
      BY ONLY <1>1, <2>4, <2>5 DEF ListsOf
    <2> QED  BY <1>3, <2>2, <2>3, <2>6 DEF FreedNodes, KinList, m
  <1> QED  BY <1>1, <1>2, <1>3

(* The nodes that wait, once n was given back *)
Waited(l, n, u) == IF l.dynamic THEN u ELSE Ahead(n, u)

LEMMA GoneOnce ==
    ASSUME NEW l, NEW p, NEW u, Chained(l, p, u), l.new = NoNode, NEW q \in Seq(Nat), Len(p) = Len(q) + 1,
           NEW n \in Nat, \A k : In(p, k) <=> In(q, k)
             \/ k = n, ~In(q, n), \A j, k \in 1..Len(q) : q[j] = q[k] => j = k,
           NEW m, KinList(l, m), m.new = NoNode, m.first = (IF l.dynamic THEN l.first ELSE n),
           DOMAIN m.nodes = (IF l.dynamic THEN DOMAIN l.nodes \ {n} ELSE DOMAIN l.nodes),
           \A k \in DOMAIN m.nodes : In(u, k) => m.nodes[k] = l.nodes[k],
           ~l.dynamic => m.nodes[n].next = l.first
    PROVE  /\ Waited(l, n, u) \in Seq(Nat) /\ m.first = FirstOf(Waited(l, n, u)) /\ Waiting(m.nodes, Waited(l, n, u))
           /\ Once(q, Waited(l, n, u)) /\ Taken(m, q, Waited(l, n, u))
  <1>1. /\ p \in Seq(Nat) /\ u \in Seq(Nat) /\ Once(p, u) /\ Taken(l, p, u) /\ l.first = FirstOf(u) /\ l \in ListsOf
        /\ Waiting(l.nodes, u) /\ Strung(l.nodes, p)
    BY DEF Chained
  <1>2. \A k : ~IsNew(m, k) /\ ~IsNew(l, k)
    BY DEF IsNew
  <1>3. m.dynamic = l.dynamic /\ m.slots = l.slots
    BY DEF KinList
  <1>4. Len(p) \in Nat /\ Len(u) \in Nat /\ Len(q) \in Nat
    BY <1>1
  <1>5. ~In(u, n) /\ n \in DOMAIN l.nodes /\ \A k : ~(In(q, k) /\ In(u, k))
    <2>1. In(p, n)
      OBVIOUS
    <2> QED  BY <1>1, <2>1 DEF Once, Strung, In
  <1>6. \A k \in 1..Len(u) : u[k] \in DOMAIN l.nodes /\ l.nodes[u[k]].next = Behind(u, k) /\ In(u, u[k])
    BY <1>1 DEF Waiting, In
  <1>7. CASE l.dynamic
    <2>1. Waited(l, n, u) = u
      BY <1>7 DEF Waited
    <2>2. Waiting(m.nodes, u)
      BY <1>5, <1>6, <1>7 DEF Waiting
    <2>3. Once(q, u)
      BY <1>1, <1>5 DEF Once
    <2>4. Taken(m, q, u)
      BY <1>1, <1>2, <1>3, <1>7 DEF Taken
    <2> QED  BY <1>1, <1>7, <2>1, <2>2, <2>3, <2>4
  <1>8. CASE ~l.dynamic
    <2> DEFINE v == Ahead(n, u)
    <2>1. Waited(l, n, u) = v
      BY <1>8 DEF Waited
    <2>2. /\ v \in Seq(Nat) /\ Len(v) = Len(u) + 1 /\ v[1] = n /\ \A k \in 1..Len(u) : v[k + 1] = u[k]
          /\ FirstOf(v) = n
          /\ \A k \in 1..Len(u) : Behind(v, k + 1) = Behind(u, k)
          /\ Behind(v, 1) = FirstOf(u)
          /\ \A k : In(v, k) <=> In(u, k) \/ k = n
      BY ONLY <1>1, n \in Nat, ChainAhead
    <2>3. \A j, k \in 1..Len(v) : v[j] = v[k] => j = k
      <3>1. \A j, k \in 1..Len(u) : u[j] = u[k] => j = k
        BY <1>1 DEF Once
      <3> QED  BY <1>1, <1>5, <3>1, ChainAhead
    <2> HIDE DEF v
    <2>4. Waiting(m.nodes, v)
      <3> SUFFICES ASSUME NEW k \in 1..Len(v)
                   PROVE  v[k] \in DOMAIN m.nodes /\ m.nodes[v[k]].next = Behind(v, k)
        BY DEF Waiting
      <3>1. CASE k = 1
        BY <1>1, <1>5, <1>8, <2>2, <3>1
      <3>2. CASE k # 1
        <4>1. PICK j \in 1..Len(u) : k = j + 1
          <5>1. k - 1 \in 1..Len(u) /\ k = (k - 1) + 1
            BY <1>4, <2>2, <3>2
          <5> QED  BY <5>1
        <4>2. v[k] = u[j] /\ Behind(v, k) = Behind(u, j)
          BY <2>2, <4>1
        <4> QED  BY <1>6, <1>8, <4>1, <4>2
      <3> QED  BY <3>1, <3>2
    <2>5. Once(q, v)
      BY <1>5, <2>2, <2>3 DEF Once
    <2>6. Taken(m, q, v)
      <3>1. Count(m, q, v) = Count(l, p, u)
        BY <1>4, <2>2 DEF Count
      <3>2. \A k : In(q, k) \/ In(v, k) \/ IsNew(m, k) <=> In(p, k) \/ In(u, k) \/ IsNew(l, k)
        BY <1>2, <2>2
      <3> QED  BY <1>1, <1>2, <1>3, <1>8, <3>1, <3>2 DEF Taken
    <2> QED  BY <1>8, <2>1, <2>2, <2>4, <2>5, <2>6
  <1> QED  BY <1>7, <1>8

(* A chain but for its last node *)
Shorter(p) == [k \in 1 .. Len(p) - 1 |-> p[k]]

LEMMA ShorterChain ==
    ASSUME NEW p \in Seq(Nat), Len(p) > 0
    PROVE  LET q == Shorter(p) IN
           /\ q \in Seq(Nat) /\ Len(q) = Len(p) - 1 /\ \A k \in 1..Len(q) : q[k] = p[k]
           /\ FirstOf(q) = (IF Len(p) = 1 THEN NoNode ELSE FirstOf(p)) /\ FinalOf(q) = Before(p, Len(p))
           /\ \A k \in 1..Len(q) : Before(q, k) = Before(p, k) /\ (k # Len(q) => Behind(q, k) = Behind(p, k))
           /\ Len(q) # 0 => Behind(q, Len(q)) = NoNode
           /\ \A k : In(p, k) <=> In(q, k) \/ k = FinalOf(p)
           /\ (\A j, k \in 1..Len(p) : p[j] = p[k] => j = k) =>
                (\A j, k \in 1..Len(q) : q[j] = q[k] => j = k) /\ ~In(q, FinalOf(p))
  <1> DEFINE q == Shorter(p)
  <1>1. Len(p) - 1 \in Nat /\ Len(p) \in Nat /\ Len(p) # 0 /\ Len(p) \in 1..Len(p)
    OBVIOUS
  <1>2. q \in Seq(Nat) /\ Len(q) = Len(p) - 1 /\ \A k \in 1..Len(q) : q[k] = p[k]
    <2>1. \A k \in 1 .. Len(p) - 1 : p[k] \in Nat
      OBVIOUS
    <2> QED  BY <1>1, <2>1 DEF Shorter
  <1> HIDE DEF q
  <1>3. FinalOf(p) = p[Len(p)]
    BY <1>1 DEF FinalOf
  <1>4. FirstOf(q) = (IF Len(p) = 1 THEN NoNode ELSE FirstOf(p)) /\ FinalOf(q) = Before(p, Len(p))
    <2>1. (Len(q) = 0 <=> Len(p) = 1) /\ (Len(q) # 0 => 1 \in 1..Len(q) /\ Len(q) \in 1..Len(q))
      BY <1>1, <1>2
    <2> QED  BY <1>1, <1>2, <2>1 DEF FirstOf, FinalOf, Before
  <1>5. \A k \in 1..Len(q) : Before(q, k) = Before(p, k) /\ (k # Len(q) => Behind(q, k) = Behind(p, k))
    <2> TAKE k \in 1..Len(q)
    <2>1. (k # 1 => k - 1 \in 1..Len(q)) /\ (k # Len(q) => k + 1 \in 1..Len(q)) /\ k # Len(p)
      BY <1>1, <1>2
    <2> QED  BY <1>2, <2>1 DEF Before, Behind
  <1>6. Len(q) # 0 => Behind(q, Len(q)) = NoNode
    BY DEF Behind
  <1>7. \A k : In(p, k) <=> In(q, k) \/ k = FinalOf(p)
    <2> TAKE k
    <2>1. ASSUME In(p, k)
          PROVE  In(q, k) \/ k = FinalOf(p)
      <3>1. PICK j \in 1..Len(p) : p[j] = k
        BY <2>1 DEF In
      <3>2. j \in 1..Len(q) \/ j = Len(p)
        BY <1>1, <1>2, <3>1
      <3> QED  BY <1>2, <1>3, <3>1, <3>2 DEF In
    <2>2. ASSUME In(q, k)
          PROVE  In(p, k)
      <3>1. PICK j \in 1..Len(q) : q[j] = k
        BY <2>2 DEF In
      <3>2. j \in 1..Len(p) /\ p[j] = k
        BY <1>1, <1>2, <3>1
      <3> QED  BY <3>2 DEF In
    <2>3. In(p, FinalOf(p))
      BY <1>1, <1>3 DEF In
    <2> QED  BY <2>1, <2>2, <2>3
  <1>8. ASSUME \A j, k \in 1..Len(p) : p[j] = p[k] => j = k
        PROVE  (\A j, k \in 1..Len(q) : q[j] = q[k] => j = k) /\ ~In(q, FinalOf(p))
    <2>1. \A j \in 1..Len(q) : j \in 1..Len(p) /\ j # Len(p)
      BY <1>1, <1>2
    <2>2. ASSUME In(q, FinalOf(p))
          PROVE  FALSE
      <3>1. PICK j \in 1..Len(q) : q[j] = p[Len(p)]
        BY <1>3, <2>2 DEF In
      <3> QED  BY <1>1, <1>2, <1>8, <2>1, <3>1
    <2> QED  BY <1>2, <1>8, <2>1, <2>2
  <1> QED  BY <1>2, <1>4, <1>5, <1>6, <1>7, <1>8 DEF q

(* m is l without its last node n. *)
CutBack(l, m, n) ==
    LET e == l.nodes[n].prev IN
    /\ m \in ListsOf /\ KinList(l, m) /\ m.new = NoNode
    /\ DOMAIN m.nodes = (IF l.dynamic THEN DOMAIN l.nodes \ {n} ELSE DOMAIN l.nodes)
    /\ \A k \in DOMAIN m.nodes : k # n /\ k # e => m.nodes[k] = l.nodes[k]
    /\ e # NoNode => /\ m.nodes[e].prev = l.nodes[e].prev /\ m.nodes[e].next = NoNode
                     /\ m.nodes[e].item = l.nodes[e].item
    /\ m.first = (IF l.dynamic THEN l.first ELSE n)
    /\ ~l.dynamic => m.nodes[n].next = l.first
    /\ m.tail = e
    /\ m.head = IF e = NoNode THEN NoNode ELSE l.head

LEMMA ChainCutBack ==
    ASSUME NEW l, NEW p, NEW u, Chained(l, p, u), l.new = NoNode, Len(p) > 0, NEW m, CutBack(l, m, l.tail)
    PROVE  Chained(m, Shorter(p), Waited(l, l.tail, u)) /\ SameItems(l, m, Shorter(p))
  <1> DEFINE n == l.tail
             e == l.nodes[n].prev
             q == Shorter(p)
             v == Waited(l, n, u)
  <1>1. /\ l \in ListsOf /\ p \in Seq(Nat) /\ u \in Seq(Nat)
        /\ l.head = FirstOf(p) /\ l.tail = FinalOf(p) /\ l.first = FirstOf(u)
        /\ Strung(l.nodes, p) /\ Waiting(l.nodes, u) /\ Once(p, u) /\ Taken(l, p, u)
    BY DEF Chained
  <1>2. /\ q \in Seq(Nat) /\ Len(q) = Len(p) - 1 /\ \A k \in 1..Len(q) : q[k] = p[k]
        /\ FirstOf(q) = (IF Len(p) = 1 THEN NoNode ELSE FirstOf(p)) /\ FinalOf(q) = Before(p, Len(p))
        /\ \A k \in 1..Len(q) : Before(q, k) = Before(p, k) /\ (k # Len(q) => Behind(q, k) = Behind(p, k))
        /\ Len(q) # 0 => Behind(q, Len(q)) = NoNode
        /\ \A k : In(p, k) <=> In(q, k) \/ k = FinalOf(p)
        /\ (\A j, k \in 1..Len(p) : p[j] = p[k] => j = k) =>
             (\A j, k \in 1..Len(q) : q[j] = q[k] => j = k) /\ ~In(q, FinalOf(p))
    <2>1. p \in Seq(Nat) /\ Len(p) > 0
      BY <1>1
    <2> QED  BY ONLY <2>1, ShorterChain
  <1>3. Len(p) \in Nat /\ Len(p) \in 1..Len(p) /\ n = p[Len(p)] /\ n \in Nat
    <2>1. Len(p) \in Nat /\ Len(p) \in 1..Len(p)
      BY <1>1
    <2> QED  BY <1>1, <2>1 DEF FinalOf
  <1>4. e = Before(p, Len(p)) /\ n \in DOMAIN l.nodes
    BY <1>1, <1>3 DEF Strung
  <1>5. /\ m \in ListsOf /\ KinList(l, m) /\ m.new = NoNode
        /\ DOMAIN m.nodes = (IF l.dynamic THEN DOMAIN l.nodes \ {n} ELSE DOMAIN l.nodes)
        /\ \A k \in DOMAIN m.nodes : k # n /\ k # e => m.nodes[k] = l.nodes[k]
        /\ e # NoNode => /\ m.nodes[e].prev = l.nodes[e].prev /\ m.nodes[e].next = NoNode
                         /\ m.nodes[e].item = l.nodes[e].item
        /\ m.first = (IF l.dynamic THEN l.first ELSE n)
        /\ ~l.dynamic => m.nodes[n].next = l.first
        /\ m.tail = e
        /\ m.head = IF e = NoNode THEN NoNode ELSE l.head
    BY DEF CutBack
  <1>6. \A k \in 1..Len(q) : k \in 1..Len(p) /\ q[k] \in DOMAIN l.nodes /\ q[k] # n /\ q[k] # NoNode
          /\ q[k] \in DOMAIN m.nodes
    <2> TAKE k \in 1..Len(q)
    <2>1. k \in 1..Len(p) /\ k # Len(p)
      BY <1>2, <1>3
    <2>2. q[k] = p[k] /\ p[k] \in DOMAIN l.nodes
      BY <1>1, <1>2, <2>1 DEF Strung
    <2>3. q[k] # n
      BY <1>1, <1>3, <2>1, <2>2 DEF Once
    <2>4. q[k] # NoNode
      BY <1>1, <2>2, ListFields
    <2> QED  BY <1>5, <2>1, <2>2, <2>3, <2>4
  <1>7. Len(q) # 0 => Len(q) \in 1..Len(q) /\ e = q[Len(q)]
    <2>1. Len(q) # 0 => Len(p) # 1 /\ Len(p) - 1 = Len(q) /\ Len(q) \in 1..Len(q)
      BY <1>2, <1>3
    <2> QED  BY <1>2, <1>4, <2>1 DEF Before
  <1>8. (e = NoNode <=> Len(q) = 0) /\ (Len(q) = 0 <=> Len(p) = 1)
    <2>1. Len(q) = 0 <=> Len(p) = 1
      BY <1>2, <1>3
    <2> QED  BY <1>4, <1>6, <1>7, <2>1 DEF Before
  <1> HIDE DEF q, n, e
  <1>9. Strung(m.nodes, q) /\ SameItems(l, m, q)
    <2>1. ASSUME NEW k \in 1..Len(q)
          PROVE  /\ q[k] \in DOMAIN m.nodes /\ m.nodes[q[k]].prev = Before(q, k) /\ m.nodes[q[k]].next = Behind(q, k)
                 /\ m.nodes[q[k]].item = l.nodes[q[k]].item
      <3>1. /\ q[k] = p[k] /\ l.nodes[p[k]].prev = Before(p, k) /\ l.nodes[p[k]].next = Behind(p, k)
        BY <1>1, <1>2, <1>6 DEF Strung
      <3>2. CASE k = Len(q)
        <4>1. q[k] = e /\ e # NoNode
          BY <1>6, <1>7, <1>8, <3>2
        <4>2. m.nodes[e].prev = l.nodes[e].prev /\ m.nodes[e].next = NoNode /\ m.nodes[e].item = l.nodes[e].item
          BY <1>5, <4>1
        <4>3. p[k] = e /\ Before(q, k) = Before(p, k) /\ Behind(q, k) = NoNode /\ q[k] \in DOMAIN m.nodes
          <5>1. p[k] = e
            BY <3>1, <4>1
          <5>2. Before(q, k) = Before(p, k)
            BY <1>2
          <5>3. Behind(q, k) = NoNode
            BY <3>2 DEF Behind
          <5>4. q[k] \in DOMAIN m.nodes
            BY <1>6
          <5> QED  BY <5>1, <5>2, <5>3, <5>4
        <4> QED  BY ONLY <3>1, <4>1, <4>2, <4>3
      <3>3. CASE k # Len(q)
        <4>1. q[k] # e
          <5>1. Len(q) \in 1..Len(q) /\ e = q[Len(q)]
            BY <1>2, <1>3, <1>7
          <5>2. q[k] = q[Len(q)] => k = Len(q)
            BY <1>1, <1>2, <5>1 DEF Once
          <5> QED  BY <3>3, <5>1, <5>2
        <4> QED  BY <1>2, <1>5, <1>6, <3>1, <3>3, <4>1
      <3> QED  BY <3>2, <3>3
    <2> QED  BY <2>1 DEF Strung, SameItems
  <1>10. \A k \in DOMAIN m.nodes : In(u, k) => m.nodes[k] = l.nodes[k]
    <2>1. \A k : In(u, k) => k # NoNode /\ ~In(p, k)
      <3> TAKE k
      <3>1. In(u, k) => k \in DOMAIN l.nodes
        BY <1>1 DEF Waiting, In
      <3>2. \A j \in DOMAIN l.nodes : j # NoNode
        BY <1>1, ListFields
      <3> QED  BY <1>1, <3>1, <3>2 DEF Once
    <2>2. In(p, n) /\ (e # NoNode => In(p, e))
      <3>1. In(p, n)
        BY <1>3 DEF In
      <3>2. e # NoNode => In(q, e)
        BY <1>7, <1>8 DEF In
      <3> QED  BY <1>2, <3>1, <3>2
    <2> QED  BY <1>5, <2>1, <2>2
  <1>11. /\ v \in Seq(Nat) /\ m.first = FirstOf(v) /\ Waiting(m.nodes, v)
         /\ Once(q, v) /\ Taken(m, q, v)
    <2>1. Chained(l, p, u) /\ l.new = NoNode /\ q \in Seq(Nat) /\ Len(p) = Len(q) + 1 /\ n \in Nat
      BY <1>2, <1>3
    <2>2. /\ \A k : In(p, k) <=> In(q, k) \/ k = n
          /\ ~In(q, n) /\ \A j, k \in 1..Len(q) : q[j] = q[k] => j = k
      <3>1. n = FinalOf(p)
        BY <1>1 DEF n
      <3>2. \A j, k \in 1..Len(p) : p[j] = p[k] => j = k
        BY <1>1 DEF Once
      <3> QED  BY <1>2, <3>1, <3>2
    <2> QED  BY ONLY <1>5, <1>10, <2>1, <2>2, GoneOnce
  <1>12. m.head = FirstOf(q) /\ m.tail = FinalOf(q)
    BY <1>1, <1>2, <1>4, <1>5, <1>8
  <1> HIDE DEF v
  <1>13. Chained(m, q, v)
    BY <1>2, <1>5, <1>9, <1>11, <1>12 DEF Chained
  <1> QED  BY <1>9, <1>13 DEF q, v, n

(* A chain but for its first node *)
LEMMA RestOnce ==
    ASSUME NEW p \in Seq(Nat), Len(p) > 0
    PROVE  LET q == Rest(p) IN
           /\ q \in Seq(Nat) /\ Len(q) = Len(p) - 1 /\ \A k \in 1..Len(q) : q[k] = p[k + 1]
           /\ FinalOf(q) = (IF Len(p) = 1 THEN NoNode ELSE FinalOf(p)) /\ FirstOf(q) = Behind(p, 1)
           /\ \A k \in 1..Len(q) : Behind(q, k) = Behind(p, k + 1) /\ (k # 1 => Before(q, k) = Before(p, k + 1))
           /\ \A k : In(p, k) <=> In(q, k) \/ k = FirstOf(p)
           /\ (\A j, k \in 1..Len(p) : p[j] = p[k] => j = k) =>
                (\A j, k \in 1..Len(q) : q[j] = q[k] => j = k) /\ ~In(q, FirstOf(p))
  <1> DEFINE q == Rest(p)
  <1>1. Len(p) - 1 \in Nat /\ Len(p) \in Nat /\ Len(p) # 0 /\ 1 \in 1..Len(p)
    OBVIOUS
  <1>2. /\ q \in Seq(Nat) /\ Len(q) = Len(p) - 1
        /\ \A k \in 1 .. Len(p) - 1 : q[k] = p[k + 1] /\ Behind(q, k) = Behind(p, k + 1)
        /\ FirstOf(q) = Behind(p, 1)
        /\ \A n : In(p, n) <=> n = p[1] \/ In(q, n)
    BY RestOfChain
  <1> HIDE DEF q
  <1>3. FirstOf(p) = p[1] /\ \A k \in 1..Len(q) : k + 1 \in 1..Len(p) /\ k + 1 # 1
    BY <1>1, <1>2 DEF FirstOf
  <1>4. FinalOf(q) = IF Len(p) = 1 THEN NoNode ELSE FinalOf(p)
    <2>1. (Len(q) = 0 <=> Len(p) = 1) /\ (Len(q) # 0 => Len(q) \in 1 .. Len(p) - 1 /\ Len(q) + 1 = Len(p))
      BY <1>1, <1>2
    <2> QED  BY <1>1, <1>2, <2>1 DEF FinalOf
  <1>5. \A k \in 1..Len(q) : k # 1 => Before(q, k) = Before(p, k + 1)
    <2> TAKE k \in 1..Len(q)
    <2>1. k # 1 => k - 1 \in 1 .. Len(p) - 1 /\ (k - 1) + 1 = k /\ (k + 1) - 1 = k
      BY <1>1, <1>2
    <2>2. k # 1 => q[k - 1] = p[k]
      BY <1>2, <2>1
    <2> QED  BY <1>3, <2>1, <2>2 DEF Before
  <1>6. ASSUME \A j, k \in 1..Len(p) : p[j] = p[k] => j = k
        PROVE  (\A j, k \in 1..Len(q) : q[j] = q[k] => j = k) /\ ~In(q, FirstOf(p))
    <2>0. \A k \in 1..Len(q) : q[k] = p[k + 1]
      BY <1>2
    <2>1. \A j, k \in 1..Len(q) : q[j] = q[k] => j = k
      <3> TAKE j, k \in 1..Len(q)
      <3>1. q[j] = q[k] => j + 1 = k + 1
        BY <1>3, <1>6, <2>0
      <3> QED  BY <3>1
    <2>2. ASSUME In(q, FirstOf(p))
          PROVE  FALSE
      <3>1. PICK j \in 1..Len(q) : q[j] = p[1]
        BY <1>3, <2>2 DEF In
      <3>2. p[j + 1] = p[1] /\ j + 1 \in 1..Len(p) /\ j + 1 # 1
        BY <1>3, <2>0, <3>1
      <3> QED  BY <1>1, <1>6, <3>2
    <2> QED  BY <2>1, <2>2
  <1>7. \A k : In(p, k) <=> In(q, k) \/ k = FirstOf(p)
    BY <1>2, <1>3
  <1> QED  BY <1>2, <1>4, <1>5, <1>6, <1>7 DEF q

(* m is l without its first node n. *)
CutFront(l, m, n) ==
    LET e == l.nodes[n].next IN
    /\ m \in ListsOf /\ KinList(l, m) /\ m.new = NoNode
    /\ DOMAIN m.nodes = (IF l.dynamic THEN DOMAIN l.nodes \ {n} ELSE DOMAIN l.nodes)
    /\ \A k \in DOMAIN m.nodes : k # n /\ k # e => m.nodes[k] = l.nodes[k]
    /\ e # NoNode => /\ m.nodes[e].next = l.nodes[e].next /\ m.nodes[e].prev = NoNode
                     /\ m.nodes[e].item = l.nodes[e].item
    /\ m.first = (IF l.dynamic THEN l.first ELSE n)
    /\ ~l.dynamic => m.nodes[n].next = l.first
    /\ m.head = e
    /\ m.tail = IF e = NoNode THEN NoNode ELSE l.tail

LEMMA ChainCutFront ==
    ASSUME NEW l, NEW p, NEW u, Chained(l, p, u), l.new = NoNode, Len(p) > 0, NEW m, CutFront(l, m, l.head)
    PROVE  Chained(m, Rest(p), Waited(l, l.head, u)) /\ SameItems(l, m, Rest(p))
  <1> DEFINE n == l.head
             e == l.nodes[n].next
             q == Rest(p)
             v == Waited(l, n, u)
  <1>1. /\ l \in ListsOf /\ p \in Seq(Nat) /\ u \in Seq(Nat)
        /\ l.head = FirstOf(p) /\ l.tail = FinalOf(p) /\ l.first = FirstOf(u)
        /\ Strung(l.nodes, p) /\ Waiting(l.nodes, u) /\ Once(p, u) /\ Taken(l, p, u)
    BY DEF Chained
  <1>2. /\ q \in Seq(Nat) /\ Len(q) = Len(p) - 1 /\ \A k \in 1..Len(q) : q[k] = p[k + 1]
        /\ FinalOf(q) = (IF Len(p) = 1 THEN NoNode ELSE FinalOf(p)) /\ FirstOf(q) = Behind(p, 1)
        /\ \A k \in 1..Len(q) : Behind(q, k) = Behind(p, k + 1) /\ (k # 1 => Before(q, k) = Before(p, k + 1))
        /\ \A k : In(p, k) <=> In(q, k) \/ k = FirstOf(p)
        /\ (\A j, k \in 1..Len(p) : p[j] = p[k] => j = k) =>
             (\A j, k \in 1..Len(q) : q[j] = q[k] => j = k) /\ ~In(q, FirstOf(p))
    <2>1. p \in Seq(Nat) /\ Len(p) > 0
      BY <1>1
    <2> QED  BY ONLY <2>1, RestOnce
  <1>3. Len(p) \in Nat /\ 1 \in 1..Len(p) /\ n = p[1] /\ n \in Nat
    <2>1. Len(p) \in Nat /\ 1 \in 1..Len(p)
      BY <1>1
    <2> QED  BY <1>1, <2>1 DEF FirstOf
  <1>4. e = Behind(p, 1) /\ n \in DOMAIN l.nodes
    BY <1>1, <1>3 DEF Strung
  <1>5. /\ m \in ListsOf /\ KinList(l, m) /\ m.new = NoNode
        /\ DOMAIN m.nodes = (IF l.dynamic THEN DOMAIN l.nodes \ {n} ELSE DOMAIN l.nodes)
        /\ \A k \in DOMAIN m.nodes : k # n /\ k # e => m.nodes[k] = l.nodes[k]
        /\ e # NoNode => /\ m.nodes[e].next = l.nodes[e].next /\ m.nodes[e].prev = NoNode
                         /\ m.nodes[e].item = l.nodes[e].item
        /\ m.first = (IF l.dynamic THEN l.first ELSE n)
        /\ ~l.dynamic => m.nodes[n].next = l.first
        /\ m.head = e
        /\ m.tail = IF e = NoNode THEN NoNode ELSE l.tail
    BY DEF CutFront
  <1>6. \A k \in 1..Len(q) : k + 1 \in 1..Len(p) /\ q[k] \in DOMAIN l.nodes /\ q[k] # n /\ q[k] # NoNode
          /\ q[k] \in DOMAIN m.nodes
    <2> TAKE k \in 1..Len(q)
    <2>1. k + 1 \in 1..Len(p) /\ k + 1 # 1
      BY <1>2, <1>3
    <2>2. q[k] = p[k + 1] /\ p[k + 1] \in DOMAIN l.nodes
      BY <1>1, <1>2, <2>1 DEF Strung
    <2>3. q[k] # n
      BY <1>1, <1>3, <2>1, <2>2 DEF Once
    <2>4. q[k] # NoNode
      BY <1>1, <2>2, ListFields
    <2> QED  BY <1>5, <2>1, <2>2, <2>3, <2>4
  <1>7. Len(q) # 0 => 1 \in 1..Len(q) /\ e = q[1]
    <2>1. Len(q) # 0 => Len(p) # 1 /\ 1 \in 1..Len(q)
      BY <1>2, <1>3
    <2> QED  BY <1>2, <1>4, <2>1 DEF Behind
  <1>8. (e = NoNode <=> Len(q) = 0) /\ (Len(q) = 0 <=> Len(p) = 1)
    <2>1. Len(q) = 0 <=> Len(p) = 1
      BY <1>2, <1>3
    <2> QED  BY <1>4, <1>6, <1>7, <2>1 DEF Behind
  <1> HIDE DEF q, n, e
  <1>9. Strung(m.nodes, q) /\ SameItems(l, m, q)
    <2>1. ASSUME NEW k \in 1..Len(q)
          PROVE  /\ q[k] \in DOMAIN m.nodes /\ m.nodes[q[k]].prev = Before(q, k) /\ m.nodes[q[k]].next = Behind(q, k)
                 /\ m.nodes[q[k]].item = l.nodes[q[k]].item
      <3>1. /\ q[k] = p[k + 1] /\ l.nodes[p[k + 1]].prev = Before(p, k + 1)
               /\ l.nodes[p[k + 1]].next = Behind(p, k + 1)
        BY <1>1, <1>2, <1>6 DEF Strung
      <3>2. CASE k = 1
        <4>1. q[k] = e /\ e # NoNode
          BY <1>6, <1>7, <1>8, <3>2
        <4>2. m.nodes[e].next = l.nodes[e].next /\ m.nodes[e].prev = NoNode /\ m.nodes[e].item = l.nodes[e].item
          BY <1>5, <4>1
        <4>3. p[k + 1] = e /\ Behind(q, k) = Behind(p, k + 1) /\ Before(q, k) = NoNode /\ q[k] \in DOMAIN m.nodes
          <5>1. p[k + 1] = e
            BY <3>1, <4>1
          <5>2. Behind(q, k) = Behind(p, k + 1)
            BY <1>2
          <5>3. Before(q, k) = NoNode
            BY <3>2 DEF Before
          <5>4. q[k] \in DOMAIN m.nodes
            BY <1>6
          <5> QED  BY <5>1, <5>2, <5>3, <5>4
        <4> QED  BY ONLY <3>1, <4>1, <4>2, <4>3
      <3>3. CASE k # 1
        <4>1. q[k] # e
          <5>1. 1 \in 1..Len(q) /\ e = q[1]
            BY <1>2, <1>3, <1>7
          <5>2. q[k] = q[1] => k = 1
            BY <1>1, <1>2, <5>1 DEF Once
          <5> QED  BY <3>3, <5>1, <5>2
        <4> QED  BY <1>2, <1>5, <1>6, <3>1, <3>3, <4>1
      <3> QED  BY <3>2, <3>3
    <2> QED  BY <2>1 DEF Strung, SameItems
  <1>10. \A k \in DOMAIN m.nodes : In(u, k) => m.nodes[k] = l.nodes[k]
    <2>1. \A k : In(u, k) => k # NoNode /\ ~In(p, k)
      <3> TAKE k
      <3>1. In(u, k) => k \in DOMAIN l.nodes
        BY <1>1 DEF Waiting, In
      <3>2. \A j \in DOMAIN l.nodes : j # NoNode
        BY <1>1, ListFields
      <3> QED  BY <1>1, <3>1, <3>2 DEF Once
    <2>2. In(p, n) /\ (e # NoNode => In(p, e))
      <3>1. In(p, n)
        BY <1>3 DEF In
      <3>2. e # NoNode => In(q, e)
        BY <1>7, <1>8 DEF In
      <3> QED  BY <1>2, <3>1, <3>2
    <2> QED  BY <1>5, <2>1, <2>2
  <1>11. /\ v \in Seq(Nat) /\ m.first = FirstOf(v) /\ Waiting(m.nodes, v)
         /\ Once(q, v) /\ Taken(m, q, v)
    <2>1. Chained(l, p, u) /\ l.new = NoNode /\ q \in Seq(Nat) /\ Len(p) = Len(q) + 1 /\ n \in Nat
      BY <1>2, <1>3
    <2>2. /\ \A k : In(p, k) <=> In(q, k) \/ k = n
          /\ ~In(q, n) /\ \A j, k \in 1..Len(q) : q[j] = q[k] => j = k
      <3>1. n = FirstOf(p)
        BY <1>1 DEF n
      <3>2. \A j, k \in 1..Len(p) : p[j] = p[k] => j = k
        BY <1>1 DEF Once
      <3> QED  BY <1>2, <3>1, <3>2
    <2> QED  BY ONLY <1>5, <1>10, <2>1, <2>2, GoneOnce
  <1>12. m.head = FirstOf(q) /\ m.tail = FinalOf(q)
    BY <1>1, <1>2, <1>4, <1>5, <1>8
  <1> HIDE DEF v
  <1>13. Chained(m, q, v)
    BY <1>2, <1>5, <1>9, <1>11, <1>12 DEF Chained
  <1> QED  BY <1>9, <1>13 DEF q, v, n

-----------------------------------------------------------------------------
(* Popping *)

(* A list between two calls *)
Ready(l, p, u) == Chained(l, p, u) /\ l.size = Len(p) /\ l.new = NoNode

Headed(l, w, head, tail, size) == [l EXCEPT !.nodes = w, !.head = head, !.tail = tail, !.size = size]

HeadedAs(l, m, w, head, tail, size) ==
    /\ m \in ListsOf
    /\ m.nodes = w /\ m.new = l.new /\ m.dynamic = l.dynamic /\ m.slots = l.slots /\ m.size = size
    /\ m.head = head /\ m.tail = tail /\ m.first = l.first /\ m.memory = l.memory

LEMMA HeaderSet ==
    ASSUME NEW l \in ListsOf, NEW w \in Memories, NEW head \in Nat, NEW tail \in Nat, NEW size \in Nat
    PROVE  HeadedAs(l, Headed(l, w, head, tail, size), w, head, tail, size)
  <1> DEFINE m == Headed(l, w, head, tail, size)
  <1>1. /\ l = [dynamic |-> l.dynamic, nodes |-> l.nodes, slots |-> l.slots, size |-> l.size, head |-> l.head,
                tail |-> l.tail, first |-> l.first, new |-> l.new, memory |-> l.memory]
        /\ l.dynamic \in BOOLEAN /\ l.nodes \in Memories /\ l.slots \in Nat /\ l.size \in Nat /\ l.head \in Nat
        /\ l.tail \in Nat /\ l.first \in Nat /\ l.new \in Nat /\ l.memory \in Nat
    BY ListFields
  <1>10. l = [dynamic |-> l.dynamic, nodes |-> l.nodes, slots |-> l.slots, size |-> l.size, head |-> l.head,
              tail |-> l.tail, first |-> l.first, new |-> l.new, memory |-> l.memory]
    BY <1>1
  <1>2. m = [dynamic |-> l.dynamic, nodes |-> w, slots |-> l.slots, size |-> size, head |-> head,
             tail |-> tail, first |-> l.first, new |-> l.new, memory |-> l.memory]
    <2>1. m = [l EXCEPT !.nodes = w, !.head = head, !.tail = tail, !.size = size]
      BY DEF Headed
    <2> HIDE DEF m
    <2> QED  BY ONLY <1>10, <2>1
  <1>3. w \in Memories /\ head \in Nat /\ tail \in Nat /\ size \in Nat
    OBVIOUS
  <1> HIDE DEF m
  <1> QED  BY ONLY <1>1, <1>2, <1>3 DEF ListsOf, HeadedAs, m

(* c: the chain l changed at e, the neighbour of the node n that goes, before n is given back; m: after it *)
Neighbour(l, c, z, n, e) ==
    /\ l \in ListsOf /\ n \in DOMAIN l.nodes /\ e \in Nat /\ e # n
    /\ e # NoNode => e \in DOMAIN l.nodes /\ ElseSame(l.nodes, z, e)
    /\ c \in ListsOf /\ KinList(l, c) /\ c.new = l.new /\ c.first = l.first
    /\ c.nodes = IF e = NoNode THEN l.nodes ELSE z

Remains(l, c, z, m, n, e) ==
    /\ m \in ListsOf /\ KinList(l, m) /\ m.new = l.new /\ m.size = c.size /\ m.head = c.head /\ m.tail = c.tail
    /\ DOMAIN m.nodes = (IF l.dynamic THEN DOMAIN l.nodes \ {n} ELSE DOMAIN l.nodes)
    /\ \A k \in DOMAIN m.nodes : k # n /\ k # e => m.nodes[k] = l.nodes[k]
    /\ e # NoNode => m.nodes[e] = z[e]
    /\ m.first = (IF l.dynamic THEN l.first ELSE n)
    /\ ~l.dynamic => m.nodes[n].next = l.first

LEMMA NeighbourCut ==
    ASSUME NEW l, NEW c, NEW z, NEW n, NEW e, Neighbour(l, c, z, n, e), NEW m, FreedNodes(c, m, n)
    PROVE  Remains(l, c, z, m, n, e)
  <1>0. /\ l \in ListsOf /\ n \in DOMAIN l.nodes /\ e \in Nat /\ e # n
        /\ e # NoNode => e \in DOMAIN l.nodes /\ ElseSame(l.nodes, z, e)
        /\ c \in ListsOf /\ KinList(l, c) /\ c.new = l.new /\ c.first = l.first
        /\ c.nodes = IF e = NoNode THEN l.nodes ELSE z
    BY DEF Neighbour
  <1>1. c.dynamic = l.dynamic /\ c.slots = l.slots
    BY <1>0 DEF KinList
  <1>2. /\ m \in ListsOf /\ KinList(c, m) /\ m.size = c.size /\ m.head = c.head /\ m.tail = c.tail /\ m.new = c.new
        /\ DOMAIN m.nodes = (IF c.dynamic THEN DOMAIN c.nodes \ {n} ELSE DOMAIN c.nodes)
        /\ \A k \in DOMAIN m.nodes : k # n => m.nodes[k] = c.nodes[k]
        /\ m.first = (IF c.dynamic THEN c.first ELSE n)
        /\ ~c.dynamic => m.nodes[n].next = c.first
    BY DEF FreedNodes
  <1>3. DOMAIN c.nodes = DOMAIN l.nodes /\ \A k \in DOMAIN l.nodes : k # e => c.nodes[k] = l.nodes[k]
    BY <1>0 DEF ElseSame
  <1>4. e # NoNode => e \in DOMAIN m.nodes /\ m.nodes[e] = z[e]
    BY <1>0, <1>1, <1>2, <1>3
  <1>5. \A k \in DOMAIN m.nodes : k # n /\ k # e => m.nodes[k] = l.nodes[k]
    BY <1>0, <1>1, <1>2, <1>3
  <1>6. KinList(l, m)
    BY <1>1, <1>2 DEF KinList
  <1>7. DOMAIN m.nodes = IF l.dynamic THEN DOMAIN l.nodes \ {n} ELSE DOMAIN l.nodes
    BY <1>1, <1>2, <1>3
  <1>8. m.first = (IF l.dynamic THEN l.first ELSE n) /\ (~l.dynamic => m.nodes[n].next = l.first)
    BY <1>0, <1>1, <1>2
  <1> QED  BY <1>0, <1>2, <1>4, <1>5, <1>6, <1>7, <1>8 DEF Remains

(* The places of the first and the last node *)
LEMMA EndsOfChain ==
    ASSUME NEW l, NEW p, NEW u, Chained(l, p, u), Len(p) > 0
    PROVE  /\ Len(p) \in Nat /\ 1 \in 1..Len(p) /\ Len(p) \in 1..Len(p)
           /\ l.head = p[1] /\ l.head \in DOMAIN l.nodes /\ l.head # NoNode
           /\ l.tail = p[Len(p)] /\ l.tail \in DOMAIN l.nodes /\ l.tail # NoNode
           /\ (l.head = l.tail <=> Len(p) = 1)
           /\ LET e == l.nodes[l.tail].prev IN
              e \in Nat /\ e # l.tail /\ (e = NoNode <=> Len(p) = 1) /\ (e # NoNode => e \in DOMAIN l.nodes)
           /\ LET e == l.nodes[l.head].next IN
              e \in Nat /\ e # l.head /\ (e = NoNode <=> Len(p) = 1) /\ (e # NoNode => e \in DOMAIN l.nodes)
  <1>1. /\ l \in ListsOf /\ p \in Seq(Nat) /\ l.head = FirstOf(p) /\ l.tail = FinalOf(p)
           /\ Strung(l.nodes, p) /\ Once(p, u)
    BY DEF Chained
  <1>2. Len(p) \in Nat /\ 1 \in 1..Len(p) /\ Len(p) \in 1..Len(p) /\ Len(p) # 0
    BY <1>1
  <1>3. l.head = p[1] /\ l.tail = p[Len(p)]
    BY <1>1, <1>2 DEF FirstOf, FinalOf
  <1>4. \A k \in DOMAIN l.nodes : k # NoNode /\ l.nodes[k].prev \in Nat /\ l.nodes[k].next \in Nat
    BY <1>1, ListFields
  <1>5. \A k \in 1..Len(p) : /\ p[k] \in DOMAIN l.nodes /\ l.nodes[p[k]].prev = Before(p, k)
                             /\ l.nodes[p[k]].next = Behind(p, k)
    BY <1>1 DEF Strung
  <1>6. \A j, k \in 1..Len(p) : p[j] = p[k] => j = k
    BY <1>1 DEF Once
  <1>7. l.head = l.tail <=> Len(p) = 1
    BY <1>2, <1>3, <1>6
  <1>8. ASSUME Len(p) # 1
        PROVE  /\ Len(p) - 1 \in 1..Len(p) /\ p[Len(p) - 1] # p[Len(p)] /\ p[2] # p[1] /\ 2 \in 1..Len(p)
               /\ Before(p, Len(p)) = p[Len(p) - 1] /\ Behind(p, 1) = p[2]
    <2> DEFINE c == Len(p)
    <2>0. c \in Nat /\ c # 0 /\ c # 1
      BY <1>2, <1>8
    <2> HIDE DEF c
    <2>01. c - 1 \in 1..c /\ c - 1 # c /\ 2 \in 1..c
      BY ONLY <2>0
    <2>1. Len(p) - 1 \in 1..Len(p) /\ Len(p) - 1 # Len(p) /\ 2 \in 1..Len(p)
      BY <2>01 DEF c
    <2>2. p[Len(p) - 1] # p[Len(p)] /\ p[2] # p[1]
      BY <1>2, <1>6, <2>1
    <2>3. Before(p, Len(p)) = p[Len(p) - 1] /\ Behind(p, 1) = p[2]
      BY <1>8, <2>1 DEF Before, Behind
    <2> QED  BY <2>1, <2>2, <2>3
  <1>9. LET e == l.nodes[l.tail].prev IN
        e \in Nat /\ e # l.tail /\ (e = NoNode <=> Len(p) = 1) /\ (e # NoNode => e \in DOMAIN l.nodes)
    <2>1. l.nodes[l.tail].prev = Before(p, Len(p)) /\ l.tail # NoNode
      BY <1>2, <1>3, <1>4, <1>5
    <2>2. CASE Len(p) = 1
      BY <1>2, <1>3, <1>4, <1>5, <2>1, <2>2 DEF Before
    <2>3. CASE Len(p) # 1
      BY <1>2, <1>3, <1>4, <1>5, <1>8, <2>1, <2>3
    <2> QED  BY <2>2, <2>3
  <1>10. LET e == l.nodes[l.head].next IN
         e \in Nat /\ e # l.head /\ (e = NoNode <=> Len(p) = 1) /\ (e # NoNode => e \in DOMAIN l.nodes)
    <2>1. l.nodes[l.head].next = Behind(p, 1) /\ l.head # NoNode
      BY <1>2, <1>3, <1>4, <1>5
    <2>2. CASE Len(p) = 1
      BY <1>2, <1>3, <1>4, <1>5, <2>1, <2>2 DEF Behind
    <2>3. CASE Len(p) # 1
      BY <1>2, <1>3, <1>4, <1>5, <1>8, <2>1, <2>3
    <2> QED  BY <2>2, <2>3
  <1> QED  BY <1>2, <1>3, <1>4, <1>5, <1>7, <1>9, <1>10

LEMMA UnlinkedBack ==
    ASSUME NEW l, NEW p, NEW u, Chained(l, p, u), l.new = NoNode, Len(p) > 0
    PROVE  LET m == UnlinkBack(l)
               n == l.tail
               e == l.nodes[n].prev
           IN  /\ m \in ListsOf /\ KinList(l, m) /\ m.new = NoNode /\ m.size = l.size /\ m.head = l.head /\ m.tail = e
               /\ DOMAIN m.nodes = (IF l.dynamic THEN DOMAIN l.nodes \ {n} ELSE DOMAIN l.nodes)
               /\ \A k \in DOMAIN m.nodes : k # n /\ k # e => m.nodes[k] = l.nodes[k]
               /\ e # NoNode => /\ m.nodes[e].prev = l.nodes[e].prev /\ m.nodes[e].next = NoNode
                                /\ m.nodes[e].item = l.nodes[e].item
               /\ m.first = (IF l.dynamic THEN l.first ELSE n)
               /\ ~l.dynamic => m.nodes[n].next = l.first
  <1> DEFINE n == l.tail
             e == l.nodes[n].prev
             z == SetNext(l.nodes, e, NoNode)
             w == IF e = NoNode THEN l.nodes ELSE z
             head == l.head
             size == l.size
             c == [l EXCEPT !.nodes = w, !.head = head, !.tail = e, !.size = size]
             m == DeallocateNode(c, n)
  <1>1. l \in ListsOf
    BY DEF Chained
  <1>2. l.nodes \in Memories /\ head \in Nat /\ size \in Nat /\ NoNode \in Nat
    BY <1>1, ListFields DEF NoNode
  <1>3. n \in DOMAIN l.nodes /\ e \in Nat /\ e # n /\ (e # NoNode => e \in DOMAIN l.nodes)
    BY EndsOfChain
  <1>4. UnlinkBack(l) = m
    <2>1. l = [dynamic |-> l.dynamic, nodes |-> l.nodes, slots |-> l.slots, size |-> l.size, head |-> l.head,
               tail |-> l.tail, first |-> l.first, new |-> l.new, memory |-> l.memory]
      BY <1>1, ListFields
    <2> HIDE DEF w, e
    <2>2. [l EXCEPT !.tail = e, !.nodes = w] = c
      BY ONLY <2>1
    <2> USE DEF w, e
    <2> QED  BY <2>2 DEF UnlinkBack, SetNext
  <1> HIDE DEF e, c, m, head, size
  <1>5. e # NoNode => ElseSame(l.nodes, z, e) /\ z[e].next = NoNode /\ z[e].prev = l.nodes[e].prev
          /\ z[e].item = l.nodes[e].item
    BY <1>2, <1>3, NodeSet
  <1> HIDE DEF z
  <1>6. w \in Memories
    BY <1>2, <1>5 DEF ElseSame
  <1>7. /\ c \in ListsOf
        /\ c.nodes = w /\ c.new = l.new /\ c.dynamic = l.dynamic /\ c.slots = l.slots /\ c.size = size
        /\ c.head = head /\ c.tail = e /\ c.first = l.first /\ c.memory = l.memory
    <2>1. /\ l \in ListsOf /\ head \in Nat /\ e \in Nat /\ size \in Nat /\ w \in Memories
          /\ c = Headed(l, w, head, e, size)
      BY <1>1, <1>2, <1>3, <1>6 DEF c, Headed
    <2>2. HeadedAs(l, c, w, head, e, size)
      BY ONLY <2>1, HeaderSet
    <2> QED  BY <2>2 DEF HeadedAs
  <1>8. FreedNodes(c, m, n)
    <2>1. n \in DOMAIN c.nodes
      BY <1>3, <1>5, <1>7 DEF ElseSame
    <2> QED  BY <1>7, <2>1, FreedNode DEF m
  <1>9. /\ m \in ListsOf /\ KinList(l, m) /\ m.new = l.new /\ m.size = c.size /\ m.head = c.head /\ m.tail = c.tail
        /\ DOMAIN m.nodes = (IF l.dynamic THEN DOMAIN l.nodes \ {n} ELSE DOMAIN l.nodes)
        /\ \A k \in DOMAIN m.nodes : k # n /\ k # e => m.nodes[k] = l.nodes[k]
        /\ e # NoNode => m.nodes[e] = z[e]
        /\ m.first = (IF l.dynamic THEN l.first ELSE n)
        /\ ~l.dynamic => m.nodes[n].next = l.first
    <2>1. /\ l \in ListsOf /\ n \in DOMAIN l.nodes /\ e \in Nat /\ (e # NoNode => e \in DOMAIN l.nodes) /\ e # n
          /\ c \in ListsOf /\ KinList(l, c) /\ c.new = l.new /\ c.first = l.first
          /\ c.nodes = (IF e = NoNode THEN l.nodes ELSE z) /\ (e # NoNode => ElseSame(l.nodes, z, e))
      BY <1>1, <1>3, <1>5, <1>7 DEF KinList
    <2>2. Neighbour(l, c, z, n, e)
      BY <2>1 DEF Neighbour
    <2>3. Remains(l, c, z, m, n, e)
      BY ONLY <1>8, <2>2, NeighbourCut
    <2> QED  BY <2>3 DEF Remains
  <1> QED  BY <1>4, <1>5, <1>7, <1>9 DEF e, head, size

(* The last node is taken out, and the size left as it is. *)
LEMMA ShortenedList ==
    ASSUME NEW l, NEW p, NEW u, Chained(l, p, u), l.new = NoNode, Len(p) > 1
    PROVE  LET m == UnlinkBack(l) IN
           /\ Chained(m, Shorter(p), Waited(l, l.tail, u)) /\ SameItems(l, m, Shorter(p))
           /\ KinList(l, m) /\ m.new = NoNode /\ m.size = l.size
  <1> DEFINE m == UnlinkBack(l)
             n == l.tail
             e == l.nodes[n].prev
  <1>0. Len(p) > 0 /\ Len(p) # 1
    <2> DEFINE k == Len(p)
    <2>1. k \in Nat /\ k > 1
      BY DEF Chained
    <2> HIDE DEF k
    <2>2. k > 0 /\ k # 1
      BY ONLY <2>1
    <2> QED  BY <2>2 DEF k
  <1>1. /\ m \in ListsOf /\ KinList(l, m) /\ m.new = NoNode /\ m.size = l.size /\ m.head = l.head /\ m.tail = e
        /\ DOMAIN m.nodes = (IF l.dynamic THEN DOMAIN l.nodes \ {n} ELSE DOMAIN l.nodes)
        /\ \A k \in DOMAIN m.nodes : k # n /\ k # e => m.nodes[k] = l.nodes[k]
        /\ e # NoNode => /\ m.nodes[e].prev = l.nodes[e].prev /\ m.nodes[e].next = NoNode
                         /\ m.nodes[e].item = l.nodes[e].item
        /\ m.first = (IF l.dynamic THEN l.first ELSE n)
        /\ ~l.dynamic => m.nodes[n].next = l.first
    BY <1>0, UnlinkedBack
  <1>2. e # NoNode
    BY <1>0, EndsOfChain
  <1> HIDE DEF m
  <1>3. CutBack(l, m, l.tail)
    BY <1>1, <1>2 DEF CutBack
  <1>4. Chained(m, Shorter(p), Waited(l, l.tail, u)) /\ SameItems(l, m, Shorter(p))
    BY <1>0, <1>3, ChainCutBack
  <1> QED  BY <1>1, <1>4 DEF m

LEMMA NodePoppedBack ==
    ASSUME NEW l, NEW p, NEW u, Ready(l, p, u), Len(p) > 0
    PROVE  \E m : /\ ListPopBack(l) = Result("SUCCESS", m, <<l.nodes[p[Len(p)]].item>>)
                  /\ Ready(m, Shorter(p), Waited(l, l.tail, u)) /\ SameItems(l, m, Shorter(p)) /\ KinList(l, m)
  <1> DEFINE r == UnlinkBack(l)
             n == l.tail
             e == l.nodes[n].prev
             less == l.size - 1
             head == IF r.head = n THEN e ELSE r.head
             m == [r EXCEPT !.head = IF @ = n THEN e ELSE @, !.size = @ - 1]
  <1>0. Chained(l, p, u) /\ l.size = Len(p) /\ l.new = NoNode /\ l \in ListsOf
    BY DEF Ready, Chained
  <1>1. /\ r \in ListsOf /\ KinList(l, r) /\ r.new = NoNode /\ r.size = l.size /\ r.head = l.head /\ r.tail = e
        /\ DOMAIN r.nodes = (IF l.dynamic THEN DOMAIN l.nodes \ {n} ELSE DOMAIN l.nodes)
        /\ \A k \in DOMAIN r.nodes : k # n /\ k # e => r.nodes[k] = l.nodes[k]
        /\ e # NoNode => /\ r.nodes[e].prev = l.nodes[e].prev /\ r.nodes[e].next = NoNode
                         /\ r.nodes[e].item = l.nodes[e].item
        /\ r.first = (IF l.dynamic THEN l.first ELSE n)
        /\ ~l.dynamic => r.nodes[n].next = l.first
    BY <1>0, UnlinkedBack
  <1>2. /\ Len(p) \in Nat /\ l.head # NoNode /\ n = p[Len(p)] /\ n # NoNode /\ (l.head = n <=> Len(p) = 1)
        /\ e \in Nat /\ (e = NoNode <=> Len(p) = 1) /\ l.head \in Nat /\ less \in Nat
    BY <1>0, EndsOfChain, ListFields
  <1>3. ListPopBack(l) = Result("SUCCESS", m, <<l.nodes[p[Len(p)]].item>>)
    BY <1>2 DEF ListPopBack
  <1> HIDE DEF e, n, r
  <1>4. /\ m \in ListsOf
        /\ m.nodes = r.nodes /\ m.new = r.new /\ m.dynamic = r.dynamic /\ m.slots = r.slots /\ m.size = less
        /\ m.head = head /\ m.tail = r.tail /\ m.first = r.first /\ m.memory = r.memory
    <2>1. r.nodes \in Memories /\ head \in Nat /\ less \in Nat /\ r.tail \in Nat
      BY <1>1, <1>2, ListFields
    <2>2. m = Headed(r, r.nodes, head, r.tail, less)
      <3>1. r.size = l.size
        BY <1>1
      <3>2. r = [dynamic |-> r.dynamic, nodes |-> r.nodes, slots |-> r.slots, size |-> r.size, head |-> r.head,
                 tail |-> r.tail, first |-> r.first, new |-> r.new, memory |-> r.memory]
        BY <1>1, ListFields
      <3> QED  BY ONLY <3>1, <3>2 DEF Headed
    <2> HIDE DEF m, head, less
    <2>3. HeadedAs(r, m, r.nodes, head, r.tail, less)
      BY <1>1, <2>1, <2>2, HeaderSet
    <2> QED  BY <2>3 DEF HeadedAs
  <1> HIDE DEF m
  <1>5. CutBack(l, m, n)
    <2>1. KinList(l, m)
      BY <1>1, <1>4 DEF KinList
    <2>2. m.head = IF e = NoNode THEN NoNode ELSE l.head
      BY <1>1, <1>2, <1>4
    <2> QED  BY <1>1, <1>4, <2>1, <2>2 DEF CutBack, e
  <1>6. Chained(m, Shorter(p), Waited(l, n, u)) /\ SameItems(l, m, Shorter(p))
    BY <1>0, <1>5, ChainCutBack DEF n
  <1>7. m.size = Len(Shorter(p)) /\ m.new = NoNode /\ KinList(l, m)
    <2>1. p \in Seq(Nat)
      BY <1>0 DEF Chained
    <2>2. Len(Shorter(p)) = Len(p) - 1
      BY ONLY <2>1, Len(p) > 0, ShorterChain
    <2> QED  BY <1>0, <1>1, <1>4, <2>2 DEF KinList
  <1>8. Ready(m, Shorter(p), Waited(l, l.tail, u)) /\ SameItems(l, m, Shorter(p)) /\ KinList(l, m)
    BY <1>6, <1>7 DEF Ready, n
  <1> HIDE DEF less, head
  <1>9. m = m
    OBVIOUS
  <1> QED  BY ONLY <1>3, <1>8, <1>9

LEMMA NodePoppedFront ==
    ASSUME NEW l, NEW p, NEW u, Ready(l, p, u), Len(p) > 0
    PROVE  \E m : /\ ListPopFront(l) = Result("SUCCESS", m, <<l.nodes[p[1]].item>>)
                  /\ Ready(m, Rest(p), Waited(l, l.head, u)) /\ SameItems(l, m, Rest(p)) /\ KinList(l, m)
  <1> DEFINE n == l.head
             e == l.nodes[n].next
             less == l.size - 1
             tail == IF l.tail = n THEN e ELSE l.tail
             z == SetPrev(l.nodes, e, NoNode)
             w == IF e = NoNode THEN l.nodes ELSE z
             c == [l EXCEPT !.nodes = w, !.head = e, !.tail = tail, !.size = less]
             m == DeallocateNode(c, n)
  <1>0. Chained(l, p, u) /\ l.size = Len(p) /\ l.new = NoNode /\ l \in ListsOf /\ p \in Seq(Nat)
    BY DEF Ready, Chained
  <1>1. /\ Len(p) \in Nat /\ n = p[1] /\ n # NoNode /\ n \in DOMAIN l.nodes /\ (n = l.tail <=> Len(p) = 1)
        /\ e \in Nat /\ e # n /\ (e = NoNode <=> Len(p) = 1) /\ (e # NoNode => e \in DOMAIN l.nodes)
    BY <1>0, EndsOfChain
  <1>2. l.nodes \in Memories /\ less \in Nat /\ l.tail \in Nat /\ tail \in Nat /\ NoNode \in Nat
    BY <1>0, <1>1, ListFields DEF NoNode
  <1>3. ListPopFront(l) = Result("SUCCESS", m, <<l.nodes[p[1]].item>>)
    BY <1>1 DEF ListPopFront, SetPrev
  <1> HIDE DEF e, c, m, tail, less
  <1>4. e # NoNode => ElseSame(l.nodes, z, e) /\ z[e].prev = NoNode /\ z[e].next = l.nodes[e].next
          /\ z[e].item = l.nodes[e].item
    BY <1>1, <1>2, NodeSet
  <1> HIDE DEF z
  <1>5. w \in Memories
    BY <1>2, <1>4 DEF ElseSame
  <1>6. /\ c \in ListsOf
        /\ c.nodes = w /\ c.new = l.new /\ c.dynamic = l.dynamic /\ c.slots = l.slots /\ c.size = less
        /\ c.head = e /\ c.tail = tail /\ c.first = l.first /\ c.memory = l.memory
    <2>1. /\ l \in ListsOf /\ e \in Nat /\ tail \in Nat /\ less \in Nat /\ w \in Memories
          /\ c = Headed(l, w, e, tail, less)
      BY <1>0, <1>1, <1>2, <1>5 DEF c, Headed
    <2>2. HeadedAs(l, c, w, e, tail, less)
      BY ONLY <2>1, HeaderSet
    <2> QED  BY <2>2 DEF HeadedAs
  <1>7. FreedNodes(c, m, n)
    <2>1. n \in DOMAIN c.nodes
      BY <1>1, <1>4, <1>6 DEF ElseSame
    <2> QED  BY <1>6, <2>1, FreedNode DEF m
  <1>8. /\ m \in ListsOf /\ KinList(l, m) /\ m.new = l.new /\ m.size = c.size /\ m.head = c.head /\ m.tail = c.tail
        /\ DOMAIN m.nodes = (IF l.dynamic THEN DOMAIN l.nodes \ {n} ELSE DOMAIN l.nodes)
        /\ \A k \in DOMAIN m.nodes : k # n /\ k # e => m.nodes[k] = l.nodes[k]
        /\ e # NoNode => m.nodes[e] = z[e]
        /\ m.first = (IF l.dynamic THEN l.first ELSE n)
        /\ ~l.dynamic => m.nodes[n].next = l.first
    <2>1. /\ l \in ListsOf /\ n \in DOMAIN l.nodes /\ e \in Nat /\ (e # NoNode => e \in DOMAIN l.nodes) /\ e # n
          /\ c \in ListsOf /\ KinList(l, c) /\ c.new = l.new /\ c.first = l.first
          /\ c.nodes = (IF e = NoNode THEN l.nodes ELSE z) /\ (e # NoNode => ElseSame(l.nodes, z, e))
      BY <1>0, <1>1, <1>4, <1>6 DEF KinList
    <2>2. Neighbour(l, c, z, n, e)
      BY <2>1 DEF Neighbour
    <2>3. Remains(l, c, z, m, n, e)
      BY ONLY <1>7, <2>2, NeighbourCut
    <2> QED  BY <2>3 DEF Remains
  <1>9. CutFront(l, m, n)
    <2>1. m.tail = IF e = NoNode THEN NoNode ELSE l.tail
      BY <1>1, <1>6, <1>8 DEF tail
    <2> QED  BY <1>0, <1>4, <1>6, <1>8, <2>1 DEF CutFront, e
  <1>10. Chained(m, Rest(p), Waited(l, n, u)) /\ SameItems(l, m, Rest(p))
    BY <1>0, <1>9, ChainCutFront
  <1>11. m.size = Len(Rest(p)) /\ m.new = NoNode /\ KinList(l, m)
    <2>1. Len(Rest(p)) = Len(p) - 1
      BY ONLY <1>0, Len(p) > 0, RestOnce
    <2> QED  BY <1>0, <1>6, <1>8, <2>1 DEF less
  <1>12. Ready(m, Rest(p), Waited(l, l.head, u)) /\ SameItems(l, m, Rest(p)) /\ KinList(l, m)
    BY <1>10, <1>11 DEF Ready
  <1> QED  BY <1>3, <1>12

-----------------------------------------------------------------------------
(* Pushing *)

(* A new node gets its item, if there is one, and its place at the end. *)
Filling(m, new) == LinkBack(IF new = <<>> THEN m ELSE [m EXCEPT !.nodes[m.new].item = new[1]])

OneMore(l, new) == Check(AllocateNode(l), LAMBDA m : Success(Filling(m, new)))

(* w is l with one more node, at the end or in front. *)
Longer(l, p, w, q, v) ==
    Ready(w, q, v) /\ KinList(l, w) /\ SameItems(l, w, p)

NoNodes(l, r) == r = Fails("NOT_ENOUGH_MEMORY", l) /\ l.dynamic
NoSlots(l, p, r) == r = Fails("INSUFFICIENT_BUFFER_SIZE", l) /\ ~l.dynamic /\ Len(p) = l.slots

LEMMA GivenItem ==
    ASSUME NEW l, NEW p, NEW m, NEW v, Given(l, m, p, v), NEW x \in Contained
    PROVE  LET z == [m EXCEPT !.nodes[m.new].item = x] IN Given(l, z, p, v) /\ z.nodes[z.new].item = x
             /\ z.new = m.new
  <1> DEFINE n == m.new
             z == [m EXCEPT !.nodes[n].item = x]
  <1>1. /\ Chained(m, p, v) /\ n # NoNode /\ n \in DOMAIN m.nodes /\ KinList(l, m) /\ m.size = l.size
        /\ SameItems(l, m, p)
    BY DEF Given
  <1>2. /\ Chained(z, p, v) /\ KinList(m, z) /\ z.size = m.size /\ z.new = n
        /\ DOMAIN z.nodes = DOMAIN m.nodes /\ z.nodes[n].item = x
        /\ \A k \in DOMAIN m.nodes : k # n => z.nodes[k] = m.nodes[k]
    <2>1. z = ItemPut(m, n, x)
      BY DEF ItemPut
    <2> HIDE DEF n, z
    <2>2. ItemAt(m, z, p, v, n, x)
      BY <1>1, <2>1, ItemWritten
    <2> QED  BY ONLY <2>2 DEF ItemAt, n
  <1>3. \A k \in 1..Len(p) : p[k] \in DOMAIN m.nodes /\ p[k] # n
    <2>1. ~In(p, n) /\ Strung(m.nodes, p)
      BY <1>1, NewNode DEF Chained
    <2> QED  BY <2>1 DEF In, Strung
  <1> HIDE DEF z, n
  <1>4. SameItems(l, z, p)
    BY <1>1, <1>2, <1>3 DEF SameItems
  <1>5. KinList(l, z)
    BY <1>1, <1>2 DEF KinList
  <1>6. Given(l, z, p, v) /\ z.nodes[z.new].item = x /\ z.new = m.new
    BY <1>1, <1>2, <1>4, <1>5 DEF Given, n
  <1> QED  BY <1>6 DEF z, n

(* The new node is put in its place. *)
LEMMA GivenPlaced ==
    ASSUME NEW l, NEW p, NEW m, NEW v, Given(l, m, p, v), l.size = Len(p), NEW w, NEW q, Placed(m, w, q, v),
           Len(q) = Len(p) + 1
    PROVE  Longer(l, p, w, q, v) /\ w.nodes[m.new].item = m.nodes[m.new].item
  <1>1. /\ Chained(m, p, v) /\ m.new # NoNode /\ m.new \in DOMAIN m.nodes /\ KinList(l, m) /\ m.size = l.size
        /\ SameItems(l, m, p)
    BY DEF Given
  <1>2. /\ Chained(w, q, v) /\ KinList(m, w) /\ w.size = m.size + 1 /\ w.new = NoNode
        /\ \A k \in DOMAIN m.nodes : w.nodes[k].item = m.nodes[k].item
    BY DEF Placed, ItemsKept
  <1>3. \A k \in 1..Len(p) : p[k] \in DOMAIN m.nodes
    BY <1>1 DEF Chained, Strung
  <1>4. SameItems(l, w, p)
    BY <1>1, <1>2, <1>3 DEF SameItems
  <1>5. Ready(w, q, v) /\ KinList(l, w)
    BY <1>1, <1>2 DEF Ready, KinList
  <1> QED  BY <1>1, <1>2, <1>4, <1>5 DEF Longer

FilledAs(l, p, new, r) ==
    \/ \E w, n, v : /\ r = Success(w) /\ Longer(l, p, w, Append(p, n), v) /\ n \in Nat
                    /\ new # <<>> => w.nodes[n].item = new[1]
    \/ NoNodes(l, r) \/ NoSlots(l, p, r)

LEMMA NodeFilled ==
    ASSUME NEW l, NEW p, NEW u, Ready(l, p, u), NEW new, new # <<>> => new[1] \in Contained
    PROVE  FilledAs(l, p, new, OneMore(l, new))
  <1> DEFINE r == OneMore(l, new)
  <1>1. Chained(l, p, u) /\ l.new = NoNode /\ l.size = Len(p) /\ p \in Seq(Nat)
    BY DEF Ready, Chained
  <1>2. \/ \E m, v : AllocateNode(l) = Success(m) /\ Given(l, m, p, v)
        \/ AllocateNode(l) = Fails("NOT_ENOUGH_MEMORY", l) /\ l.dynamic
        \/ AllocateNode(l) = Fails("INSUFFICIENT_BUFFER_SIZE", l) /\ ~l.dynamic /\ Len(p) = l.slots
    BY <1>1, AllocatedNode
  <1>3. ASSUME NEW m, NEW v, AllocateNode(l) = Success(m), Given(l, m, p, v)
        PROVE  \E w, n, y : /\ r = Success(w) /\ Longer(l, p, w, Append(p, n), y) /\ n \in Nat
                            /\ new # <<>> => w.nodes[n].item = new[1]
    <2> DEFINE z == IF new = <<>> THEN m ELSE [m EXCEPT !.nodes[m.new].item = new[1]]
               n == m.new
               w == LinkBack(z)
    <2>1. r = Success(w)
      BY <1>3 DEF OneMore, Check, Success, Result, Filling
    <2>2. Given(l, z, p, v) /\ z.new = n /\ (new # <<>> => z.nodes[n].item = new[1])
      <3>1. CASE new = <<>>
        BY <1>3, <3>1
      <3>2. CASE new # <<>>
        BY <1>3, <3>2, GivenItem
      <3> QED  BY <3>1, <3>2
    <2> HIDE DEF z, n
    <2>3. Chained(z, p, v) /\ z.new # NoNode /\ n \in Nat
      <3>1. Chained(z, p, v) /\ z.new # NoNode /\ z \in ListsOf
        BY <2>2 DEF Given, Chained
      <3> QED  BY <2>2, <3>1, ListFields
    <2>4. Placed(z, w, Append(p, n), v)
      BY <2>2, <2>3, LinkedBack
    <2>5. Len(Append(p, n)) = Len(p) + 1
      BY <1>1, <2>3
    <2> HIDE DEF w
    <2>6. Longer(l, p, w, Append(p, n), v) /\ w.nodes[n].item = z.nodes[n].item
      BY <1>1, <2>2, <2>4, <2>5, GivenPlaced
    <2> QED  BY <2>1, <2>2, <2>3, <2>6
  <1>4. ASSUME AllocateNode(l) = Fails("NOT_ENOUGH_MEMORY", l), l.dynamic
        PROVE  NoNodes(l, r)
    BY <1>4 DEF OneMore, Check, Fails, Result, NoNodes
  <1>5. ASSUME AllocateNode(l) = Fails("INSUFFICIENT_BUFFER_SIZE", l), ~l.dynamic, Len(p) = l.slots
        PROVE  NoSlots(l, p, r)
    BY <1>5 DEF OneMore, Check, Fails, Result, NoSlots
  <1> HIDE DEF r
  <1> QED  BY <1>2, <1>3, <1>4, <1>5 DEF FilledAs, r

LEMMA NodePushedBack ==
    ASSUME NEW l, NEW p, NEW u, Ready(l, p, u), NEW x \in Contained, NEW r, r = ListPushBack(l, x)
    PROVE  \/ \E w, n, v : /\ r = Success(w) /\ Longer(l, p, w, Append(p, n), v) /\ n \in Nat
                           /\ w.nodes[n].item = x
           \/ NoNodes(l, r) \/ NoSlots(l, p, r)
  <1> DEFINE new == <<x>>
  <1>1. new # <<>> /\ new[1] = x
    OBVIOUS
  <1> HIDE DEF new
  <1>2. r = OneMore(l, new)
    BY <1>1 DEF ListPushBack, Check, Filling, OneMore
  <1>3. FilledAs(l, p, new, r)
    BY <1>1, <1>2, NodeFilled
  <1> QED  BY <1>1, <1>3 DEF FilledAs

LEMMA NodePushedFront ==
    ASSUME NEW l, NEW p, NEW u, Ready(l, p, u), NEW x \in Contained, NEW r, r = ListPushFront(l, x)
    PROVE  \/ \E w, n, v : /\ r = Success(w) /\ Longer(l, p, w, Ahead(n, p), v) /\ n \in Nat
                           /\ w.nodes[n].item = x
           \/ NoNodes(l, r) \/ NoSlots(l, p, r)
  <1>1. Chained(l, p, u) /\ l.new = NoNode /\ l.size = Len(p) /\ p \in Seq(Nat)
    BY DEF Ready, Chained
  <1>2. \/ \E m, v : AllocateNode(l) = Success(m) /\ Given(l, m, p, v)
        \/ AllocateNode(l) = Fails("NOT_ENOUGH_MEMORY", l) /\ l.dynamic
        \/ AllocateNode(l) = Fails("INSUFFICIENT_BUFFER_SIZE", l) /\ ~l.dynamic /\ Len(p) = l.slots
    BY <1>1, AllocatedNode
  <1>3. ASSUME NEW m, NEW v, AllocateNode(l) = Success(m), Given(l, m, p, v)
        PROVE  \E w, n, y : /\ r = Success(w) /\ Longer(l, p, w, Ahead(n, p), y) /\ n \in Nat
                            /\ w.nodes[n].item = x
    <2> DEFINE z == [m EXCEPT !.nodes[m.new].item = x]
               n == m.new
               w == LinkFront(z)
    <2>1. r = Success(w)
      BY <1>3 DEF ListPushFront, Check, Success, Result
    <2>2. Given(l, z, p, v) /\ z.new = n /\ z.nodes[n].item = x
      BY <1>3, GivenItem
    <2> HIDE DEF z, n
    <2>3. Chained(z, p, v) /\ z.new # NoNode /\ n \in Nat
      <3>1. Chained(z, p, v) /\ z.new # NoNode /\ z \in ListsOf
        BY <2>2 DEF Given, Chained
      <3> QED  BY <2>2, <3>1, ListFields
    <2>4. Placed(z, w, Ahead(n, p), v)
      BY <2>2, <2>3, LinkedFront
    <2>5. Len(Ahead(n, p)) = Len(p) + 1
      <3>1. p \in Seq(Nat) /\ n \in Nat
        BY <1>1, <2>3
      <3> QED  BY ONLY <3>1, ChainAhead
    <2> HIDE DEF w
    <2>6. Longer(l, p, w, Ahead(n, p), v) /\ w.nodes[n].item = z.nodes[n].item
      BY <1>1, <2>2, <2>4, <2>5, GivenPlaced
    <2> QED  BY <2>1, <2>2, <2>3, <2>6
  <1>4. CASE AllocateNode(l) = Fails("NOT_ENOUGH_MEMORY", l) /\ l.dynamic
    BY <1>4 DEF ListPushFront, Check, Fails, Result, NoNodes
  <1>5. CASE AllocateNode(l) = Fails("INSUFFICIENT_BUFFER_SIZE", l) /\ ~l.dynamic /\ Len(p) = l.slots
    BY <1>5 DEF ListPushFront, Check, Fails, Result, NoSlots
  <1> QED  BY <1>2, <1>3, <1>4, <1>5

-----------------------------------------------------------------------------
(* Calls on a list *)

(* s is what the chain p holds. *)
Seen(l, p, s) == s \in Seq(Contained) /\ Len(s) = Len(p) /\ \A k \in 1..Len(p) : s[k] = l.nodes[p[k]].item

ListLimit(l) == IF l.dynamic THEN Unlimited ELSE l.slots
ListKept(l) == \E p, u : Ready(l, p, u)
ListInv == kind = "list" => ListKept(body)

(* l is the list of the caller, with as many nodes to be had as there are for this call. *)
ListCalled(l, p, u) == kind = "list" /\ Ready(l, p, u) /\ Seen(l, p, Held) /\ Limit = ListLimit(l)

Granted(l, k) == [l EXCEPT !.memory = k]

LEMMA GrantedFields ==
    ASSUME NEW l \in ListsOf, NEW k \in Nat
    PROVE  LET m == Granted(l, k) IN
           /\ m \in ListsOf /\ m.nodes = l.nodes /\ m.new = l.new /\ KinList(l, m) /\ m.size = l.size
           /\ m.head = l.head /\ m.tail = l.tail /\ m.first = l.first
  <1> DEFINE m == Granted(l, k)
  <1>1. /\ l.dynamic \in BOOLEAN /\ l.nodes \in Memories /\ l.slots \in Nat /\ l.size \in Nat /\ l.head \in Nat
        /\ l.tail \in Nat /\ l.first \in Nat /\ l.new \in Nat
    BY ListFields
  <1>2. l = [dynamic |-> l.dynamic, nodes |-> l.nodes, slots |-> l.slots, size |-> l.size, head |-> l.head,
             tail |-> l.tail, first |-> l.first, new |-> l.new, memory |-> l.memory]
    BY ListFields
  <1>3. m = [dynamic |-> l.dynamic, nodes |-> l.nodes, slots |-> l.slots, size |-> l.size, head |-> l.head,
             tail |-> l.tail, first |-> l.first, new |-> l.new, memory |-> k]
    BY ONLY <1>2 DEF Granted
  <1>4. k \in Nat
    OBVIOUS
  <1> HIDE DEF m
  <1> QED  BY ONLY <1>1, <1>3, <1>4 DEF ListsOf, KinList, m

LEMMA GrantedList ==
    ASSUME NEW l, NEW p, NEW u, Ready(l, p, u), NEW k \in Nat
    PROVE  Ready(Granted(l, k), p, u) /\ KinList(l, Granted(l, k)) /\ Granted(l, k).nodes = l.nodes
  <1> DEFINE m == Granted(l, k)
  <1>1. /\ l \in ListsOf /\ p \in Seq(Nat) /\ u \in Seq(Nat) /\ l.size = Len(p) /\ l.new = NoNode
        /\ l.head = FirstOf(p) /\ l.tail = FinalOf(p) /\ l.first = FirstOf(u)
        /\ Strung(l.nodes, p) /\ Waiting(l.nodes, u) /\ Once(p, u) /\ Taken(l, p, u)
    BY DEF Ready, Chained
  <1>2. /\ m \in ListsOf /\ m.nodes = l.nodes /\ m.new = l.new /\ KinList(l, m) /\ m.size = l.size
        /\ m.head = l.head /\ m.tail = l.tail /\ m.first = l.first
    BY <1>1, GrantedFields
  <1> HIDE DEF m
  <1>3. m.dynamic = l.dynamic /\ m.slots = l.slots
    BY <1>2 DEF KinList
  <1>4. Taken(m, p, u)
    BY <1>1, <1>2, <1>3 DEF Taken, Count, IsNew
  <1> QED  BY <1>1, <1>2, <1>4 DEF Ready, Chained, m

LEMMA ListSeen ==
    ASSUME NEW l, NEW p, NEW u, Chained(l, p, u)
    PROVE  Seen(l, p, ItemsOf(l))
  BY ItemsOfChain DEF Seen

LEMMA ListForCall ==
    ASSUME ListInv, kind = "list", NEW k \in Nat
    PROVE  \E p, u : ListCalled(Granted(body, k), p, u)
  <1>1. PICK p, u : Ready(body, p, u)
    BY DEF ListInv, ListKept
  <1> DEFINE l == Granted(body, k)
  <1>2. Ready(l, p, u) /\ KinList(body, l) /\ l.nodes = body.nodes
    BY <1>1, GrantedList
  <1> HIDE DEF l
  <1>3. Held = ItemsOf(body)
    BY DEF Held
  <1>4. Seen(body, p, Held)
    BY <1>1, <1>3, ListSeen DEF Ready
  <1>5. Seen(l, p, Held)
    BY <1>2, <1>4 DEF Seen
  <1>6. Limit = ListLimit(l)
    BY <1>2 DEF Limit, ListLimit, KinList
  <1>7. ListCalled(l, p, u)
    BY <1>2, <1>5, <1>6 DEF ListCalled
  <1> QED  BY <1>7 DEF l

LEMMA ListHeld ==
    ASSUME NEW l, NEW p, NEW u, ListCalled(l, p, u)
    PROVE  /\ kind = "list" /\ Ready(l, p, u) /\ l \in ListsOf /\ p \in Seq(Nat)
           /\ Held \in Seq(Contained) /\ Len(Held) = Len(p) /\ Len(p) \in Nat /\ l.size = Len(p)
           /\ \A k \in 1..Len(p) : Held[k] = l.nodes[p[k]].item
           /\ l.dynamic => Limit = Unlimited
           /\ ~l.dynamic => Limit = l.slots /\ Limit # Unlimited /\ Limit \in Nat /\ Len(Held) <= Limit
  <1>1. /\ kind = "list" /\ Ready(l, p, u) /\ Seen(l, p, Held) /\ Limit = ListLimit(l)
        /\ l \in ListsOf /\ p \in Seq(Nat) /\ u \in Seq(Nat) /\ l.size = Len(p) /\ Taken(l, p, u) /\ l.new = NoNode
    BY DEF ListCalled, Ready, Chained
  <1>2. Len(p) \in Nat /\ Len(u) \in Nat /\ l.slots \in Nat /\ Unlimited \notin Nat
    BY <1>1, ListFields, ContainerAssumption
  <1>3. ~l.dynamic => Len(p) <= l.slots
    <2>1. ~l.dynamic => Len(p) + Len(u) + 0 <= l.slots
      BY <1>1 DEF Taken, Count
    <2> QED  BY <1>2, <2>1
  <1> QED  BY <1>1, <1>2, <1>3 DEF Seen, ListLimit

LEMMA ListLeaves ==
    ASSUME NEW l, NEW p, NEW u, ListCalled(l, p, u), NEW w, NEW q, NEW v, Ready(w, q, v), KinList(l, w),
           NEW op, NEW at, NEW count, NEW new, NEW st, NEW out, NEW r, r = Result(st, w, out),
           ListReturned(Operation(op, at, count, new), r)
    PROVE  Calls(op, at, count, new, st, out) /\ Steady /\ ListInv' /\ kind' = kind /\ Seen(w, q, Held')
  <1> DEFINE zero == 0
             m == Granted(w, zero)
  <1>1. [r EXCEPT !.v.memory = 0] = Result(st, m, out)
    BY DEF Result, Granted
  <1>2. zero \in Nat
    OBVIOUS
  <1> HIDE DEF zero
  <1>3. Ready(m, q, v) /\ KinList(w, m) /\ m.nodes = w.nodes
    BY <1>2, GrantedList
  <1> HIDE DEF m
  <1>4. body' = m /\ Calls(op, at, count, new, st, out) /\ kind' = kind /\ watched' = watched
    <2>1. Returned(Operation(op, at, count, new), Result(st, m, out))
      BY <1>1 DEF ListReturned
    <2> QED  BY <2>1 DEF Returned, Called, Calls, Result
  <1>5. kind = "list" /\ Limit = ListLimit(l)
    BY DEF ListCalled
  <1>6. ListInv'
    <2>1. ListKept(m)
      BY <1>3 DEF ListKept
    <2> QED  BY <1>4, <2>1 DEF ListInv
  <1>7. Limit' = ListLimit(m)
    BY <1>4, <1>5 DEF Limit, ListLimit
  <1>8. ListLimit(m) = ListLimit(l)
    BY <1>3 DEF KinList, ListLimit
  <1>9. Held' = ItemsOf(m)
    BY <1>4, <1>5 DEF Held
  <1>10. Seen(m, q, ItemsOf(m))
    BY <1>3, ListSeen DEF Ready
  <1>11. Seen(w, q, Held')
    BY <1>3, <1>9, <1>10 DEF Seen
  <1> QED  BY <1>4, <1>5, <1>6, <1>7, <1>8, <1>11 DEF Steady

LEMMA ListTurned ==
    ASSUME NEW l, NEW p, NEW u, ListCalled(l, p, u), NEW op, NEW at, NEW count, NEW new, NEW st,
           NEW r, r = Fails(st, l), ListReturned(Operation(op, at, count, new), r)
    PROVE  Turned(op, at, count, new, st) /\ ListInv' /\ kind' = kind
  <1>1. r = Result(st, l, <<>>) /\ KinList(l, l)
    BY DEF Fails, KinList
  <1>2. Ready(l, p, u) /\ Seen(l, p, Held)
    BY DEF ListCalled
  <1>3. Calls(op, at, count, new, st, <<>>) /\ Steady /\ ListInv' /\ kind' = kind /\ Seen(l, p, Held')
    BY <1>1, <1>2, ListLeaves
  <1> DEFINE t == Held'
  <1>4. t = Held
    <2>1. t \in Seq(Contained) /\ Held \in Seq(Contained) /\ Len(t) = Len(Held) /\ \A k \in 1..Len(t) : t[k] = Held[k]
      BY <1>2, <1>3 DEF Seen
    <2> HIDE DEF t
    <2> QED  BY <2>1, SameSequence
  <1> QED  BY <1>3, <1>4 DEF Turned

(* What a list holds that got one more node *)
EndsWith(p, q, n) == Len(q) = Len(p) + 1 /\ q[Len(p) + 1] = n /\ \A k \in 1..Len(p) : q[k] = p[k]

LEMMA SeenLonger ==
    ASSUME NEW l, NEW p, NEW w, NEW q, NEW v, Longer(l, p, w, q, v), NEW s, Seen(l, p, s), NEW t, Seen(w, q, t),
           p \in Seq(Nat), NEW n \in Nat
    PROVE  /\ EndsWith(p, q, n) =>
                /\ Len(t) = Len(s) + 1 /\ t[Len(s) + 1] = w.nodes[n].item
                /\ \A k \in 1..Len(s) : t[k] = s[k]
           /\ q = Ahead(n, p) =>
                /\ Len(t) = Len(s) + 1 /\ t[1] = w.nodes[n].item
                /\ \A k \in 1..Len(s) : t[k + 1] = s[k]
  <1>1. \A k \in 1..Len(p) : w.nodes[p[k]].item = l.nodes[p[k]].item
    BY DEF Longer, SameItems
  <1>2. /\ Len(s) = Len(p) /\ \A k \in 1..Len(p) : s[k] = l.nodes[p[k]].item
        /\ Len(t) = Len(q) /\ \A k \in 1..Len(q) : t[k] = w.nodes[q[k]].item
    BY DEF Seen
  <1>3. ASSUME EndsWith(p, q, n)
        PROVE  /\ Len(t) = Len(s) + 1 /\ t[Len(s) + 1] = w.nodes[n].item
               /\ \A k \in 1..Len(s) : t[k] = s[k]
    <2>1. Len(q) = Len(p) + 1 /\ q[Len(p) + 1] = n /\ \A k \in 1..Len(p) : q[k] = p[k]
      BY <1>3 DEF EndsWith
    <2>2. Len(p) \in Nat
      OBVIOUS
    <2>3. Len(p) + 1 \in 1..Len(q) /\ \A k \in 1..Len(p) : k \in 1..Len(q)
      BY <2>1, <2>2
    <2> QED  BY <1>1, <1>2, <2>1, <2>3
  <1>4. ASSUME q = Ahead(n, p)
        PROVE  /\ Len(t) = Len(s) + 1 /\ t[1] = w.nodes[n].item
               /\ \A k \in 1..Len(s) : t[k + 1] = s[k]
    <2>1. Len(q) = Len(p) + 1 /\ q[1] = n /\ \A k \in 1..Len(p) : q[k + 1] = p[k]
      BY <1>4, ChainAhead
    <2>2. Len(p) \in Nat
      OBVIOUS
    <2>3. 1 \in 1..Len(q) /\ \A k \in 1..Len(p) : k + 1 \in 1..Len(q)
      BY <2>1, <2>2
    <2> QED  BY <1>1, <1>2, <2>1, <2>3
  <1> QED  BY <1>3, <1>4

(* One item comes into a list: none of the steps of the code between is seen. *)
LEMMA ItemAdded ==
    ASSUME NEW l, NEW p, NEW u, ListCalled(l, p, u), NEW x \in Contained, NEW r, NEW i,
           \/ /\ i = Len(p)
              /\ \E w, n, v : /\ r = Success(w) /\ Longer(l, p, w, Append(p, n), v) /\ n \in Nat
                 /\ w.nodes[n].item = x
           \/ /\ i = 0
              /\ \E w, n, v : /\ r = Success(w) /\ Longer(l, p, w, Ahead(n, p), v) /\ n \in Nat /\ w.nodes[n].item = x
           \/ i \in {0, Len(p)} /\ (NoNodes(l, r) \/ NoSlots(l, p, r)),
           ListReturned(Insert(i, <<x>>), r)
    PROVE  Abstract!Answered /\ ListInv' /\ kind' = kind
  <1> DEFINE new == <<x>>
             zero == 0
             s == Held
             t == Held'
             c == Len(Held)
  <1>1. /\ kind = "list" /\ Ready(l, p, u) /\ l \in ListsOf /\ p \in Seq(Nat) /\ s \in Seq(Contained) /\ c = Len(p)
        /\ c \in Nat /\ (l.dynamic => Limit = Unlimited)
        /\ ~l.dynamic => Limit = l.slots /\ Limit # Unlimited /\ Limit \in Nat
        /\ Seen(l, p, s) /\ i \in {0, c}
    BY ListHeld DEF ListCalled
  <1>2. new \in Seq(Contained) /\ Len(new) = 1 /\ new[1] = x
    OBVIOUS
  <1>3. ListReturned(Operation("insert", i, zero, new), r)
    BY DEF Insert
  <1>4. i \in Nat /\ i <= c
    BY <1>1
  <1> HIDE DEF new, s, c
  <1>5. ASSUME NEW w, NEW q, NEW v, r = Success(w), Longer(l, p, w, q, v)
        PROVE  /\ Calls("insert", i, zero, new, "SUCCESS", <<>>) /\ Steady /\ ListInv' /\ kind' = kind
                  /\ Seen(w, q, t)
               /\ t \in Seq(Contained)
    <2>1. r = Result("SUCCESS", w, <<>>)
      BY <1>5 DEF Success
    <2>2. Ready(w, q, v) /\ KinList(l, w)
      BY <1>5 DEF Longer
    <2>3. Calls("insert", i, zero, new, "SUCCESS", <<>>) /\ Steady /\ ListInv' /\ kind' = kind /\ Seen(w, q, t)
      BY <1>3, <2>1, <2>2, ListLeaves
    <2> QED  BY <2>3 DEF Seen
  <1>6. ASSUME i = c, NEW w, NEW n \in Nat,
               NEW v, r = Success(w), Longer(l, p, w, Append(p, n), v), w.nodes[n].item = x
        PROVE  Abstract!Answered /\ ListInv' /\ kind' = kind
    <2> DEFINE q == Append(p, n)
    <2>1. /\ Calls("insert", i, zero, new, "SUCCESS", <<>>) /\ Steady /\ ListInv' /\ kind' = kind /\ Seen(w, q, t)
          /\ t \in Seq(Contained)
      BY <1>5, <1>6
    <2>2. Len(t) = c + 1 /\ t[c + 1] = x /\ \A k \in 1..c : t[k] = s[k]
      <3>00. EndsWith(p, q, n)
        BY <1>1, <1>6 DEF EndsWith
      <3>0. Longer(l, p, w, q, v) /\ EndsWith(p, q, n) /\ Seen(l, p, s) /\ Seen(w, q, t) /\ p \in Seq(Nat)
              /\ n \in Nat
        BY <1>1, <1>6, <2>1, <3>00
      <3> HIDE DEF t, q
      <3>1. Len(t) = Len(s) + 1 /\ t[Len(s) + 1] = w.nodes[n].item /\ \A k \in 1..Len(s) : t[k] = s[k]
        BY ONLY <3>0, SeenLonger
      <3> QED  BY <1>6, <3>1 DEF c, s
    <2> HIDE DEF t
    <2>3. \A k \in 1..Len(t) : t[k] = IF k <= i THEN s[k] ELSE IF k <= i + Len(new) THEN new[k - i]
            ELSE s[k - Len(new)]
      <3> TAKE k \in 1..Len(t)
      <3>1. CASE k <= i
        BY <1>1, <1>6, <2>2, <3>1
      <3>2. CASE ~(k <= i)
        <4>1. k = c + 1 /\ k - i = 1 /\ k <= i + Len(new)
          BY <1>1, <1>2, <1>6, <2>2, <3>2
        <4> QED  BY <1>2, <2>2, <3>2, <4>1
      <3> QED  BY <3>1, <3>2
    <2> USE DEF t, zero
    <2>4. Len(Held') = Len(Held) + Len(new)
      BY <1>2, <2>2 DEF c
    <2>5. Abstract!Answered
      <3>1. Held \in Seq(Contained) /\ i <= Len(Held) /\ Held' \in Seq(Contained)
        BY <1>1, <1>4, <2>1 DEF s, c
      <3>2. \A k \in 1..Len(Held') :
                Held'[k] = IF k <= i THEN Held[k] ELSE IF k <= i + Len(new) THEN new[k - i] ELSE Held[k - Len(new)]
        BY <2>3 DEF s
      <3>3. Calls("insert", i, 0, new, "SUCCESS", <<>>) /\ Steady /\ i \in Nat /\ new \in Seq(Contained)
        BY <1>2, <1>4, <2>1
      <3> QED  BY ONLY <2>4, <3>1, <3>2, <3>3, InsertStep
    <2> QED  BY <2>1, <2>5
  <1>7. ASSUME i = 0, NEW w, NEW n \in Nat,
               NEW v, r = Success(w), Longer(l, p, w, Ahead(n, p), v), w.nodes[n].item = x
        PROVE  Abstract!Answered /\ ListInv' /\ kind' = kind
    <2> DEFINE q == Ahead(n, p)
    <2>1. /\ Calls("insert", i, zero, new, "SUCCESS", <<>>) /\ Steady /\ ListInv' /\ kind' = kind /\ Seen(w, q, t)
          /\ t \in Seq(Contained)
      BY <1>5, <1>7
    <2>2. Len(t) = c + 1 /\ t[1] = x /\ \A k \in 1..c : t[k + 1] = s[k]
      <3> HIDE DEF t
      <3>1. Len(t) = Len(s) + 1 /\ t[1] = w.nodes[n].item /\ \A k \in 1..Len(s) : t[k + 1] = s[k]
        BY <1>1, <1>7, <2>1, SeenLonger
      <3> QED  BY <1>7, <3>1 DEF c, s
    <2> HIDE DEF t
    <2>3. \A k \in 1..Len(t) : t[k] = IF k <= i THEN s[k] ELSE IF k <= i + Len(new) THEN new[k - i]
            ELSE s[k - Len(new)]
      <3> TAKE k \in 1..Len(t)
      <3>1. CASE k = 1
        BY <1>2, <1>7, <2>2, <3>1
      <3>2. CASE k # 1
        <4>1. k - 1 \in 1..c /\ (k - 1) + 1 = k /\ ~(k <= i) /\ ~(k <= i + Len(new)) /\ k - Len(new) = k - 1
          BY <1>1, <1>2, <1>7, <2>2, <3>2
        <4>2. t[(k - 1) + 1] = s[k - 1]
          BY <2>2, <4>1
        <4> QED  BY <4>1, <4>2
      <3> QED  BY <3>1, <3>2
    <2> USE DEF t, zero
    <2>4. Len(Held') = Len(Held) + Len(new)
      BY <1>2, <2>2 DEF c
    <2>5. Abstract!Answered
      <3>1. Held \in Seq(Contained) /\ i <= Len(Held) /\ Held' \in Seq(Contained)
        BY <1>1, <1>4, <2>1 DEF s, c
      <3>2. \A k \in 1..Len(Held') :
                Held'[k] = IF k <= i THEN Held[k] ELSE IF k <= i + Len(new) THEN new[k - i] ELSE Held[k - Len(new)]
        BY <2>3 DEF s
      <3>3. Calls("insert", i, 0, new, "SUCCESS", <<>>) /\ Steady /\ i \in Nat /\ new \in Seq(Contained)
        BY <1>2, <1>4, <2>1
      <3> QED  BY ONLY <2>4, <3>1, <3>2, <3>3, InsertStep
    <2> QED  BY <2>1, <2>5
  <1>8. CASE NoNodes(l, r)
    <2>1. r = Fails("NOT_ENOUGH_MEMORY", l) /\ Limit = Unlimited
      BY <1>1, <1>8 DEF NoNodes
    <2>2. Turned("insert", i, zero, new, "NOT_ENOUGH_MEMORY") /\ ListInv' /\ kind' = kind
      BY <1>3, <2>1, ListTurned
    <2> QED  BY <2>1, <2>2, RefusedStep
  <1>9. CASE NoSlots(l, p, r)
    <2>1. r = Fails("INSUFFICIENT_BUFFER_SIZE", l) /\ ~l.dynamic /\ Len(p) = l.slots
      BY <1>9 DEF NoSlots
    <2>2. Turned("insert", i, zero, new, "INSUFFICIENT_BUFFER_SIZE") /\ ListInv' /\ kind' = kind
      BY <1>3, <2>1, ListTurned
    <2>3. Limit # Unlimited /\ Limit \in Nat /\ Limit < c + Len(new)
      BY <1>1, <1>2, <2>1
    <2> USE DEF s, c, zero
    <2>4. Abstract!Answered
      <3>1. Turned("insert", i, 0, new, "INSUFFICIENT_BUFFER_SIZE") /\ Limit < Len(Held) + Len(new)
        BY <2>2, <2>3
      <3>2. Held \in Seq(Contained) /\ new \in Seq(Contained) /\ i \in Nat /\ i <= Len(Held)
        BY <1>1, <1>2, <1>4
      <3> QED  BY ONLY <2>3, <3>1, <3>2, NoRoomToInsert
    <2> QED  BY <2>2, <2>4
  <1> QED  BY <1>1, <1>6, <1>7, <1>8, <1>9

LEMMA ListPushStep ==
    ASSUME NEW l, NEW p, NEW u, ListCalled(l, p, u), NEW x \in Values,
           \/ ListReturned(Insert(l.size, <<x>>), ListPushBack(l, x))
           \/ ListReturned(Insert(0, <<x>>), ListPushFront(l, x))
    PROVE  Abstract!Answered /\ ListInv' /\ kind' = kind
  <1> DEFINE back == ListPushBack(l, x)
             front == ListPushFront(l, x)
  <1>1. x \in Contained
    BY DEF Contained, Characters
  <1>2. Ready(l, p, u) /\ l.size = Len(p)
    BY DEF ListCalled, Ready
  <1>3. \/ \E w, n, v : /\ back = Success(w) /\ Longer(l, p, w, Append(p, n), v) /\ n \in Nat /\ w.nodes[n].item = x
        \/ NoNodes(l, back) \/ NoSlots(l, p, back)
    BY <1>1, <1>2, NodePushedBack
  <1>4. \/ \E w, n, v : /\ front = Success(w) /\ Longer(l, p, w, Ahead(n, p), v) /\ n \in Nat /\ w.nodes[n].item = x
        \/ NoNodes(l, front) \/ NoSlots(l, p, front)
    BY <1>1, <1>2, NodePushedFront
  <1>5. \/ ListReturned(Insert(Len(p), <<x>>), back)
        \/ ListReturned(Insert(0, <<x>>), front)
    BY <1>2
  <1> HIDE DEF back, front
  <1>6. CASE ListReturned(Insert(Len(p), <<x>>), back)
    BY <1>1, <1>3, <1>6, ItemAdded
  <1>7. CASE ListReturned(Insert(0, <<x>>), front)
    BY <1>1, <1>4, <1>7, ItemAdded
  <1> QED  BY <1>5, <1>6, <1>7

(* A chain without its node behind the first i *)
Skips(p, q, i) == Len(q) = Len(p) - 1 /\ \A k \in 1..Len(q) : q[k] = IF k <= i THEN p[k] ELSE p[k + 1]

LEMMA ItemGone ==
    ASSUME NEW l, NEW p, NEW u, ListCalled(l, p, u), NEW m, NEW q, NEW v, Ready(m, q, v), SameItems(l, m, q),
           KinList(l, m), NEW i \in Nat, i < Len(p), Skips(p, q, i),
           NEW r, r = Result("SUCCESS", m, <<l.nodes[p[i + 1]].item>>), ListReturned(Delete(i, 1), r)
    PROVE  Abstract!Answered /\ ListInv' /\ kind' = kind
  <1> DEFINE s == Held
             t == Held'
             c == Len(Held)
             one == 1
             out == <<l.nodes[p[i + 1]].item>>
  <1>1. /\ s \in Seq(Contained) /\ Len(s) = c /\ c = Len(p) /\ c \in Nat /\ \A k \in 1..c : s[k] = l.nodes[p[k]].item
    BY ListHeld
  <1>2. ListReturned(Operation("delete", i, one, <<>>), r) /\ r = Result("SUCCESS", m, out)
    BY DEF Delete
  <1> HIDE DEF s, c, out
  <1>3. Calls("delete", i, one, <<>>, "SUCCESS", out) /\ Steady /\ ListInv' /\ kind' = kind /\ Seen(m, q, t)
    BY <1>2, ListLeaves
  <1> HIDE DEF t
  <1>4. t \in Seq(Contained) /\ Len(t) = Len(q) /\ \A k \in 1..Len(q) : t[k] = l.nodes[q[k]].item
    BY <1>3 DEF Seen, SameItems
  <1>5. Len(q) = c - 1 /\ \A k \in 1..Len(q) : q[k] = IF k <= i THEN p[k] ELSE p[k + 1]
    BY <1>1 DEF Skips
  <1>6. \A k \in 1..Len(t) : t[k] = IF k <= i THEN s[k] ELSE s[k + one]
    <2> TAKE k \in 1..Len(t)
    <2>1. k \in 1..c /\ k + 1 \in 1..c
      BY <1>1, <1>4, <1>5
    <2> QED  BY <1>1, <1>4, <1>5, <2>1
  <1>7. out = SubSeq(s, i + 1, i + one)
    <2> DEFINE a == SubSeq(s, i + 1, i + one)
    <2>1. i + 1 \in 1..c /\ i + one <= c
      BY <1>1
    <2>2. a \in Seq(Contained) /\ Len(a) = 1 /\ a[1] = s[i + 1]
      BY <1>1, <2>1
    <2>3. out \in Seq(Contained) /\ Len(out) = 1 /\ out[1] = s[i + 1]
      BY <1>1, <2>1 DEF out
    <2> HIDE DEF a
    <2>4. \A k \in 1..Len(out) : out[k] = a[k]
      BY <2>2, <2>3
    <2> QED  BY <2>2, <2>3, <2>4, SameSequence DEF a
  <1>8. i + one <= c /\ Len(t) = c - one
    BY <1>1, <1>4, <1>5
  <1> HIDE DEF one
  <1>9. one \in Nat
    BY DEF one
  <1> USE DEF s, t, c
  <1>10. Abstract!Answered
    <2>1. Held \in Seq(Contained) /\ Held' \in Seq(Contained) /\ i \in Nat /\ one \in Nat /\ i + one <= Len(Held)
      BY <1>1, <1>4, <1>8, <1>9
    <2>2. Calls("delete", i, one, <<>>, "SUCCESS", SubSeq(Held, i + 1, i + one)) /\ Steady
            /\ Len(Held') = Len(Held) - one
      BY <1>3, <1>7, <1>8
    <2>3. \A k \in 1..Len(Held') : Held'[k] = IF k <= i THEN Held[k] ELSE Held[k + one]
      BY <1>6
    <2> QED  BY ONLY <2>1, <2>2, <2>3, DeleteStep
  <1> QED  BY <1>3, <1>10

LEMMA ListPopStep ==
    ASSUME NEW l, NEW p, NEW u, ListCalled(l, p, u),
           \/ ListReturned(Delete(LastOf(l.size), 1), ListPopBack(l))
           \/ ListReturned(Delete(0, 1), ListPopFront(l))
    PROVE  Abstract!Answered /\ ListInv' /\ kind' = kind
  <1> DEFINE back == ListPopBack(l)
             front == ListPopFront(l)
             c == Len(p)
  <1>1. Ready(l, p, u) /\ l.size = c /\ c \in Nat /\ p \in Seq(Nat) /\ Len(Held) = c
    BY ListHeld
  <1>2. CASE c > 0
    <2>1. PICK m : /\ back = Result("SUCCESS", m, <<l.nodes[p[c]].item>>)
                   /\ Ready(m, Shorter(p), Waited(l, l.tail, u)) /\ SameItems(l, m, Shorter(p)) /\ KinList(l, m)
      BY <1>1, <1>2, NodePoppedBack
    <2>2. PICK w : /\ front = Result("SUCCESS", w, <<l.nodes[p[1]].item>>)
                   /\ Ready(w, Rest(p), Waited(l, l.head, u)) /\ SameItems(l, w, Rest(p)) /\ KinList(l, w)
      BY <1>1, <1>2, NodePoppedFront
    <2> HIDE DEF back, front
    <2>3. Skips(p, Shorter(p), c - 1)
      <3>1. Len(Shorter(p)) = c - 1 /\ \A k \in 1..Len(Shorter(p)) : Shorter(p)[k] = p[k]
        BY <1>1, <1>2, ShorterChain
      <3> QED  BY <1>1, <3>1 DEF Skips
    <2>4. Skips(p, Rest(p), 0)
      <3>1. Len(Rest(p)) = c - 1 /\ \A k \in 1..Len(Rest(p)) : Rest(p)[k] = p[k + 1]
        BY <1>1, <1>2, RestOnce
      <3> QED  BY <1>1, <3>1 DEF Skips
    <2>5. CASE ListReturned(Delete(LastOf(l.size), 1), back)
      <3> DEFINE i == c - 1
      <3>1. i \in Nat /\ i < Len(p) /\ i + 1 = c /\ LastOf(l.size) = i
        BY <1>1, <1>2 DEF LastOf
      <3>2. Skips(p, Shorter(p), i)
        BY <2>3
      <3> HIDE DEF i
      <3>3. back = Result("SUCCESS", m, <<l.nodes[p[i + 1]].item>>) /\ ListReturned(Delete(i, 1), back)
        BY <2>1, <2>5, <3>1
      <3> QED  BY <2>1, <3>1, <3>2, <3>3, ItemGone
    <2>6. CASE ListReturned(Delete(0, 1), front)
      <3> DEFINE i == 0
      <3>1. i \in Nat /\ i < Len(p) /\ i + 1 = 1
        BY <1>1, <1>2
      <3>2. Skips(p, Rest(p), i) /\ ListReturned(Delete(i, 1), front)
        BY <2>4, <2>6
      <3> HIDE DEF i
      <3>3. front = Result("SUCCESS", w, <<l.nodes[p[i + 1]].item>>)
        BY <2>2, <3>1
      <3> QED  BY <2>2, <3>1, <3>2, <3>3, ItemGone
    <2> QED  BY <2>5, <2>6 DEF back, front
  <1>3. CASE c = 0
    <2>1. l.tail = NoNode /\ l.head = NoNode
      BY <1>3 DEF ListCalled, Ready, Chained, FirstOf, FinalOf
    <2>2. back = Fails("INVALID_OPERATION", l) /\ front = Fails("INVALID_OPERATION", l)
      BY <2>1 DEF ListPopBack, ListPopFront
    <2> HIDE DEF back, front
    <2> DEFINE zero == 0
               one == 1
    <2>3. PICK r \in {back, front} : ListReturned(Operation("delete", zero, one, <<>>), r)
      <3>1. LastOf(l.size) = 0
        BY <1>1, <1>3 DEF LastOf
      <3> QED  BY <3>1 DEF Delete, back, front
    <2>4. r = Fails("INVALID_OPERATION", l)
      BY <2>2, <2>3
    <2>5. zero \in Nat /\ one \in Nat /\ zero + one > Len(Held) /\ Len(Held) \in Nat /\ Len(<<>>) \in Nat
      BY <1>1, <1>3
    <2> HIDE DEF zero, one
    <2>6. Turned("delete", zero, one, <<>>, "INVALID_OPERATION") /\ ListInv' /\ kind' = kind
      BY <2>3, <2>4, ListTurned
    <2>7. Abstract!Answered
      BY <2>5, <2>6, OutOfRangeStep
    <2> QED  BY <2>6, <2>7
  <1> QED  BY <1>1, <1>2, <1>3

LEMMA ListSetStep ==
    ASSUME NEW l, NEW p, NEW u, ListCalled(l, p, u), NEW k \in 1..l.size, NEW x \in Values,
           ListReturned(Overwrite(k - 1, <<x>>), ListSetNodeData(l, Path(l)[k], x))
    PROVE  Abstract!Answered /\ ListInv' /\ kind' = kind
  <1> DEFINE n == p[k]
             s == Held
             t == Held'
             c == Len(Held)
             i == k - 1
             zero == 0
             new == <<x>>
             m == ItemPut(l, n, x)
             out == <<l.nodes[n].item>>
             r == Result("SUCCESS", m, out)
  <1>1. /\ Ready(l, p, u) /\ Chained(l, p, u) /\ l.size = c /\ s \in Seq(Contained) /\ Len(s) = c
           /\ c = Len(p) /\ c \in Nat
        /\ \A j \in 1..c : s[j] = l.nodes[p[j]].item
    BY ListHeld DEF Ready
  <1>2. Path(l) = p
    BY <1>1, PathOfChain
  <1>3. ListReturned(Operation("overwrite", i, zero, new), r)
    BY <1>2 DEF ListSetNodeData, ItemPut, Overwrite
  <1>4. n \in DOMAIN l.nodes /\ x \in Contained
    BY <1>1 DEF Chained, Strung, Contained, Characters
  <1>5. i \in Nat /\ i + 1 = k /\ k \in 1..c /\ new \in Seq(Contained) /\ Len(new) = 1 /\ new[1] = x
    BY <1>1, <1>4
  <1> HIDE DEF n, s, c, i, zero, new, m, out
  <1>6. ItemAt(l, m, p, u, n, x)
    BY <1>1, <1>4, ItemWritten DEF m
  <1>7. /\ Ready(m, p, u) /\ KinList(l, m) /\ m.nodes[n].item = x
        /\ \A j \in DOMAIN l.nodes : j # n => m.nodes[j] = l.nodes[j]
    BY <1>1, <1>6 DEF ItemAt, Ready
  <1>8. Calls("overwrite", i, zero, new, "SUCCESS", out) /\ Steady /\ ListInv' /\ kind' = kind /\ Seen(m, p, t)
    BY <1>3, <1>7, ListLeaves
  <1> HIDE DEF t
  <1>9. t \in Seq(Contained) /\ Len(t) = c /\ \A j \in 1..c : t[j] = m.nodes[p[j]].item
    BY <1>1, <1>8 DEF Seen
  <1>10. \A j \in 1..c : t[j] = IF i < j /\ j <= i + Len(new) THEN new[j - i] ELSE s[j]
    <2> TAKE j \in 1..c
    <2>1. j # k => p[j] # n
      BY <1>1, <1>5 DEF Chained, Once, n
    <2>2. p[j] \in DOMAIN l.nodes
      BY <1>1 DEF Chained, Strung
    <2>3. CASE j = k
      <3>1. i < j /\ j <= i + Len(new) /\ j - i = 1
        BY <1>5, <2>3
      <3>2. t[j] = x
        BY <1>7, <1>9, <2>3 DEF n
      <3> QED  BY <1>5, <3>1, <3>2
    <2>4. CASE j # k
      <3>1. ~(i < j /\ j <= i + Len(new))
        BY <1>5, <2>4
      <3>2. t[j] = s[j]
        BY <1>1, <1>7, <1>9, <2>1, <2>2, <2>4
      <3> QED  BY <3>1, <3>2
    <2> QED  BY <2>3, <2>4
  <1>11. out = SubSeq(s, i + 1, i + Len(new))
    <2> DEFINE a == SubSeq(s, i + 1, i + Len(new))
    <2>1. i + 1 \in 1..c /\ i + Len(new) <= c
      BY <1>1, <1>5
    <2>2. a \in Seq(Contained) /\ Len(a) = 1 /\ a[1] = s[i + 1]
      BY <1>1, <1>5, <2>1
    <2>3. out \in Seq(Contained) /\ Len(out) = 1 /\ out[1] = s[i + 1]
      BY <1>1, <1>5, <2>1 DEF out, n
    <2> HIDE DEF a
    <2>4. \A j \in 1..Len(out) : out[j] = a[j]
      BY <2>2, <2>3
    <2> QED  BY <2>2, <2>3, <2>4, SameSequence DEF a
  <1> USE DEF s, t, c
  <1>12. Abstract!Answered
    <2>1. Held \in Seq(Contained) /\ Held' \in Seq(Contained) /\ i \in Nat /\ new \in Seq(Contained)
            /\ i + Len(new) <= Len(Held)
      BY <1>1, <1>5, <1>9
    <2>2. /\ Calls("overwrite", i, 0, new, "SUCCESS", SubSeq(Held, i + 1, i + Len(new))) /\ Steady
          /\ Len(Held') = Len(Held)
      BY <1>8, <1>9, <1>11 DEF zero
    <2>3. \A j \in 1..Len(Held) : Held'[j] = IF i < j /\ j <= i + Len(new) THEN new[j - i] ELSE Held[j]
      BY <1>10
    <2> QED  BY ONLY <2>1, <2>2, <2>3, OverwriteStep
  <1> QED  BY <1>8, <1>12

(* Clearing a list *)
LEMMA NoMemories ==
    DOMAIN <<>> = {} /\ <<>> \in Memories
  <1> DEFINE none == <<>>
  <1>1. none \in Seq(Nodes) /\ Len(none) = 0
    OBVIOUS
  <1> HIDE DEF none
  <1>2. none \in [1..0 -> Nodes] /\ DOMAIN none = 1..0
    BY <1>1
  <1>3. 1..0 = {}
    OBVIOUS
  <1>4. IsFiniteSet({})
    BY FS_EmptySet
  <1>5. none \in Memories
    BY <1>2, <1>3, <1>4, MemoryKnown
  <1> QED  BY <1>2, <1>3, <1>5 DEF none

LEMMA SeenSame ==
    ASSUME NEW l, NEW p, NEW s, Seen(l, p, s), NEW t, Seen(l, p, t)
    PROVE  s = t
  <1>1. s \in Seq(Contained) /\ t \in Seq(Contained) /\ Len(s) = Len(t) /\ \A k \in 1..Len(s) : s[k] = t[k]
    BY DEF Seen
  <1> QED  BY <1>1, SameSequence

LEMMA ClearedList ==
    ASSUME NEW l, NEW p, NEW u, Ready(l, p, u)
    PROVE  \E m : /\ ListClear(l) = Result("SUCCESS", m, ItemsOf(l))
                  /\ Ready(m, <<>>, <<>>) /\ KinList(l, m)
  <1> DEFINE w == IF l.dynamic THEN <<>> ELSE l.nodes
             m == [l EXCEPT !.nodes = IF l.dynamic THEN <<>> ELSE @, !.size = 0, !.head = NoNode, !.tail = NoNode,
                            !.first = NoNode]
             none == <<>>
  <1>1. ListClear(l) = Result("SUCCESS", m, ItemsOf(l))
    BY DEF ListClear
  <1>2. l \in ListsOf /\ Taken(l, p, u) /\ l.new = NoNode
    BY DEF Ready, Chained
  <1>3. /\ l.dynamic \in BOOLEAN /\ l.nodes \in Memories /\ l.slots \in Nat /\ l.memory \in Nat /\ l.new \in Nat
        /\ NoNode \in Nat /\ NoNode = 0
    BY <1>2, ListFields DEF NoNode
  <1>30. l = [dynamic |-> l.dynamic, nodes |-> l.nodes, slots |-> l.slots, size |-> l.size, head |-> l.head,
              tail |-> l.tail, first |-> l.first, new |-> l.new, memory |-> l.memory]
    BY <1>2, ListFields
  <1>4. m = [dynamic |-> l.dynamic, nodes |-> w, slots |-> l.slots, size |-> 0, head |-> NoNode,
             tail |-> NoNode, first |-> NoNode, new |-> l.new, memory |-> l.memory]
    <2> DEFINE z == [l EXCEPT !.nodes = w, !.size = 0, !.head = NoNode, !.tail = NoNode, !.first = NoNode]
    <2>1. m = z
      OBVIOUS
    <2>10. z = [l EXCEPT !.nodes = w, !.size = 0, !.head = NoNode, !.tail = NoNode, !.first = NoNode]
      OBVIOUS
    <2> HIDE DEF m, w, z
    <2>2. z = [dynamic |-> l.dynamic, nodes |-> w, slots |-> l.slots, size |-> 0, head |-> NoNode,
               tail |-> NoNode, first |-> NoNode, new |-> l.new, memory |-> l.memory]
      BY ONLY <1>30, <2>10
    <2> QED  BY <2>1, <2>2
  <1>5. w \in Memories
    BY <1>3, NoMemories
  <1>50. l.dynamic => DOMAIN w = {}
    BY NoMemories
  <1>51. ~l.dynamic => DOMAIN w = 1..l.slots
    BY <1>2 DEF Taken
  <1> HIDE DEF m, w
  <1>6. /\ m \in ListsOf /\ m.dynamic = l.dynamic /\ m.nodes = w /\ m.slots = l.slots /\ m.size = 0
        /\ m.head = NoNode /\ m.tail = NoNode /\ m.first = NoNode /\ m.new = l.new
    BY ONLY <1>3, <1>4, <1>5 DEF ListsOf
  <1>7. none \in Seq(Nat) /\ Len(none) = 0
    OBVIOUS
  <1> HIDE DEF none
  <1>8. /\ \A n : ~In(none, n)
        /\ Strung(w, none) /\ Waiting(w, none) /\ Once(none, none) /\ FirstOf(none) = NoNode /\ FinalOf(none) = NoNode
    <2>1. \A k \in 1..Len(none) : FALSE
      BY <1>7
    <2> QED  BY <1>7, <2>1 DEF In, Strung, Waiting, Once, FirstOf, FinalOf
  <1>9. Taken(m, none, none)
    <2>1. \A n : ~IsNew(m, n)
      BY <1>2, <1>6 DEF IsNew
    <2>2. Count(m, none, none) = 0
      BY <1>2, <1>6, <1>7 DEF Count
    <2>3. \A n \in 1..l.slots : ~(n <= 0)
      BY <1>3
    <2> QED  BY <1>3, <1>6, <1>7, <1>8, <1>50, <1>51, <2>1, <2>2, <2>3 DEF Taken
  <1>10. Ready(m, none, none)
    BY <1>2, <1>6, <1>7, <1>8, <1>9 DEF Ready, Chained
  <1>11. KinList(l, m)
    BY <1>6 DEF KinList
  <1> QED  BY <1>1, <1>10, <1>11 DEF none

LEMMA ListClearStep ==
    ASSUME NEW l, NEW p, NEW u, ListCalled(l, p, u), NEW new, ListReturned(Fill(0, new), ListClear(l))
    PROVE  Abstract!Answered /\ ListInv' /\ kind' = kind
  <1> DEFINE t == Held'
             zero == 0
             none == <<>>
             out == ItemsOf(l)
  <1>1. PICK m : ListClear(l) = Result("SUCCESS", m, out) /\ Ready(m, none, none) /\ KinList(l, m)
    <2>1. Ready(l, p, u)
      BY DEF ListCalled
    <2> QED  BY ONLY <2>1, ClearedList
  <1>2. ListReturned(Operation("fill", zero, zero, new), Result("SUCCESS", m, out))
    BY <1>1 DEF Fill
  <1>3. out = Held /\ Held \in Seq(Contained) /\ Len(Held) \in Nat
    <2>1. Seen(l, p, out) /\ Seen(l, p, Held)
      BY ListSeen DEF ListCalled, Ready
    <2>2. out = Held
      BY ONLY <2>1, SeenSame
    <2> QED  BY <2>2, ListHeld
  <1> HIDE DEF zero, none, out
  <1>4. Calls("fill", zero, zero, new, "SUCCESS", out) /\ Steady /\ ListInv' /\ kind' = kind /\ Seen(m, none, t)
    BY <1>1, <1>2, ListLeaves
  <1> HIDE DEF t
  <1>5. t \in Seq(Contained) /\ Len(t) = 0
    BY <1>4 DEF Seen, none
  <1>6. out = SubSeq(Held, zero + 1, Len(Held))
    <2> DEFINE s == Held
               a == SubSeq(s, 1, Len(s))
    <2>1. s \in Seq(Contained)
      BY <1>3
    <2> HIDE DEF s
    <2>2. a \in Seq(Contained) /\ Len(s) = Len(a) /\ \A k \in 1..Len(s) : s[k] = a[k]
      BY <2>1
    <2> HIDE DEF a
    <2>3. s = a
      BY <2>1, <2>2, SameSequence
    <2>4. zero + 1 = 1
      BY DEF zero
    <2> QED  BY <1>3, <2>3, <2>4 DEF a, s
  <1>7. zero \in Nat /\ zero = 0 /\ \A k \in 1..zero : FALSE
    BY DEF zero
  <1> USE DEF t
  <1> HIDE DEF zero
  <1>8. Abstract!Answered
    <2>1. Held \in Seq(Contained) /\ Held' \in Seq(Contained) /\ zero \in Nat /\ "fill" \in {"resize", "fill"}
      BY <1>3, <1>5, <1>7
    <2>2. /\ Calls("fill", 0, zero, new, "SUCCESS", SubSeq(Held, zero + 1, Len(Held))) /\ Steady
          /\ Len(Held') = zero
      BY <1>4, <1>5, <1>6, <1>7
    <2>3. \A k \in 1..zero : IF k <= Len(Held) THEN Held'[k] = Held[k] ELSE new # <<>> => Held'[k] = new[1]
      BY <1>7
    <2> QED  BY ONLY <2>1, <2>2, <2>3, ResizeStep
  <1> QED  BY <1>4, <1>8

-----------------------------------------------------------------------------
(* Filling and shortening a list, node by node *)

(* The list gets a node, unless it failed to get one before. *)
MoreOf(r, new) == Check(r, LAMBDA m : OneMore(m, new))

(* The equations of Extended and Reduced as functions of their own *)
NodeByNode(growing, l, new, after, k) ==
    IF k = 0 THEN IF growing THEN Success(l) ELSE l
    ELSE IF growing THEN MoreOf(after[k - 1], new) ELSE UnlinkBack(after[k - 1])

Walks(growing, l, new, n, w) == w = [k \in 0..n |-> NodeByNode(growing, l, new, w, k)]

(* There is a function that fulfils the equation up to n. *)
LEMMA StepsExist ==
    ASSUME NEW growing, NEW l, NEW new, NEW n \in Nat
    PROVE  \E w : Walks(growing, l, new, n, w)
  <1> DEFINE Walked(m) == \E w : w = [k \in 0..m |-> NodeByNode(growing, l, new, w, k)]
             T == {m \in Nat : ~Walked(m)}
  <1>0. n \notin T => Walked(n)
    OBVIOUS
  <1> SUFFICES ASSUME T # {} PROVE FALSE
    BY <1>0 DEF Walks
  <1>1. PICK m \in T : \A y \in T : m <= y
    <2>1. T \in SUBSET Nat
      OBVIOUS
    <2> HIDE DEF T
    <2> QED  BY <2>1, LeastNumber
  <1>10. m \in Nat /\ ~Walked(m)
    BY <1>1
  <1>2. CASE m = 0
    <2> DEFINE w == [k \in 0..0 |-> IF growing THEN Success(l) ELSE l]
    <2>1. w = [k \in 0..0 |-> NodeByNode(growing, l, new, w, k)]
      BY DEF NodeByNode
    <2> HIDE DEF w
    <2>2. Walked(0)
      BY <2>1
    <2> QED  BY <1>2, <1>10, <2>2
  <1>3. CASE m # 0
    <2>1. m - 1 \in Nat /\ m - 1 \notin T
      BY <1>1, <1>3
    <2>2. PICK w : w = [k \in 0..(m - 1) |-> NodeByNode(growing, l, new, w, k)]
      BY <2>1
    <2> DEFINE v == [k \in 0..m |-> IF k = m THEN NodeByNode(growing, l, new, w, m) ELSE w[k]]
    <2>3. \A k \in 0..m : v[k] = NodeByNode(growing, l, new, v, k)
      <3> TAKE k \in 0..m
      <3>1. k \in Nat /\ (k # 0 => k - 1 \in 0..(m - 1) /\ v[k - 1] = w[k - 1])
        BY <1>10
      <3>2. NodeByNode(growing, l, new, v, k) = NodeByNode(growing, l, new, w, k)
        BY <3>1 DEF NodeByNode
      <3>3. CASE k = m
        BY <3>2, <3>3
      <3>4. CASE k # m
        <4>1. k \in 0..(m - 1)
          BY <1>10, <3>4
        <4>2. w[k] = NodeByNode(growing, l, new, w, k)
          BY <2>2, <4>1
        <4> QED  BY <3>2, <3>4, <4>2
      <3> QED  BY <3>3, <3>4
    <2>4. v = [k \in 0..m |-> NodeByNode(growing, l, new, v, k)]
      BY <2>3
    <2> HIDE DEF v
    <2>5. Walked(m)
      BY <2>4
    <2> QED  BY <1>10, <2>5
  <1> QED  BY <1>2, <1>3

LEMMA StepsTaken ==
    ASSUME NEW growing, NEW l, NEW new, NEW n \in Nat,
           NEW after, after = CHOOSE w : Walks(growing, l, new, n, w)
    PROVE  \A k \in 0..n : after[k] = NodeByNode(growing, l, new, after, k)
  <1>1. \E w : Walks(growing, l, new, n, w)
    BY StepsExist
  <1>2. Walks(growing, l, new, n, after)
    BY <1>1
  <1> QED  BY <1>2 DEF Walks

(* w is l with j more nodes at its end. *)
ListGrown(l, p, new, j, w, q, v) ==
    /\ Ready(w, q, v) /\ KinList(l, w) /\ Len(q) = Len(p) + j
    /\ \A k \in 1..Len(q) : IF k <= Len(p) THEN w.nodes[q[k]].item = l.nodes[p[k]].item
                            ELSE new # <<>> => w.nodes[q[k]].item = new[1]

(* What adding k nodes may end with: all of them, or as many as there were to be had *)
Extension(l, p, new, k, r) ==
    \/ \E w, q, v : r = Success(w) /\ ListGrown(l, p, new, k, w, q, v)
    \/ \E w, q, v : \E j \in 0 .. k - 1 :
        /\ ListGrown(l, p, new, j, w, q, v)
        /\ \/ r = Fails("NOT_ENOUGH_MEMORY", w) /\ l.dynamic
           \/ r = Fails("INSUFFICIENT_BUFFER_SIZE", w) /\ ~l.dynamic /\ Len(q) = l.slots

LEMMA GrownMore ==
    ASSUME NEW l, NEW p, p \in Seq(Nat), NEW new, NEW j \in Nat, NEW w, NEW q,
           NEW v, ListGrown(l, p, new, j, w, q, v),
           NEW z, NEW n \in Nat, NEW y, Longer(w, q, z, Append(q, n), y), new # <<>> => z.nodes[n].item = new[1]
    PROVE  ListGrown(l, p, new, j + 1, z, Append(q, n), y)
  <1> DEFINE t == Append(q, n)
  <1>1. /\ Ready(w, q, v) /\ KinList(l, w) /\ Len(q) = Len(p) + j
        /\ \A k \in 1..Len(q) : IF k <= Len(p) THEN w.nodes[q[k]].item = l.nodes[p[k]].item
                                ELSE new # <<>> => w.nodes[q[k]].item = new[1]
    BY DEF ListGrown
  <1>2. q \in Seq(Nat) /\ Len(p) \in Nat
    BY <1>1 DEF Ready, Chained
  <1>3. Ready(z, t, y) /\ KinList(w, z) /\ \A k \in 1..Len(q) : z.nodes[q[k]].item = w.nodes[q[k]].item
    BY DEF Longer, SameItems
  <1>4. Len(t) = Len(q) + 1 /\ t[Len(q) + 1] = n /\ \A k \in 1..Len(q) : t[k] = q[k]
    BY <1>2
  <1> HIDE DEF t
  <1>5. KinList(l, z)
    BY <1>1, <1>3 DEF KinList
  <1>6. Len(t) = Len(p) + (j + 1) /\ ~(Len(q) + 1 <= Len(p))
    BY <1>1, <1>2, <1>4
  <1>7. ASSUME NEW k \in 1..Len(t)
        PROVE  IF k <= Len(p) THEN z.nodes[t[k]].item = l.nodes[p[k]].item
               ELSE new # <<>> => z.nodes[t[k]].item = new[1]
    <2>1. k \in 1..Len(q) \/ k = Len(q) + 1
      <3>1. Len(q) \in Nat /\ Len(t) = Len(q) + 1 /\ k \in 1..Len(t)
        BY <1>2, <1>4
      <3> QED  BY ONLY <3>1
    <2>2. CASE k \in 1..Len(q)
      BY <1>1, <1>3, <1>4, <2>2
    <2>3. CASE k = Len(q) + 1
      BY <1>4, <1>6, <2>3
    <2> QED  BY <2>1, <2>2, <2>3
  <1>8. ListGrown(l, p, new, j + 1, z, t, y)
    BY <1>3, <1>5, <1>6, <1>7 DEF ListGrown
  <1> QED  BY <1>8 DEF t

LEMMA ExtensionStep ==
    ASSUME NEW l, NEW p, p \in Seq(Nat), NEW new, new # <<>> => new[1] \in Contained, NEW k \in Nat,
           NEW r, Extension(l, p, new, k, r), NEW s, s = MoreOf(r, new)
    PROVE  Extension(l, p, new, k + 1, s)
  <1>1. ASSUME NEW w, NEW q, NEW v, r = Success(w), ListGrown(l, p, new, k, w, q, v)
        PROVE  Extension(l, p, new, k + 1, s)
    <2>1. s = OneMore(w, new)
      BY <1>1 DEF MoreOf, Check, Success, Result
    <2>2. Ready(w, q, v) /\ w.dynamic = l.dynamic /\ w.slots = l.slots
      BY <1>1 DEF ListGrown, KinList
    <2>3. FilledAs(w, q, new, s)
      BY <2>1, <2>2, NodeFilled
    <2>4. ASSUME NEW z, NEW n \in Nat, NEW y, s = Success(z), Longer(w, q, z, Append(q, n), y),
                 new # <<>> => z.nodes[n].item = new[1]
          PROVE  Extension(l, p, new, k + 1, s)
      <3> DEFINE t == Append(q, n)
      <3>1. ListGrown(l, p, new, k + 1, z, t, y)
        BY <1>1, <2>4, GrownMore
      <3> HIDE DEF t
      <3> QED  BY <2>4, <3>1 DEF Extension
    <2>5. k \in 0 .. (k + 1) - 1
      OBVIOUS
    <2>6. CASE NoNodes(w, s)
      BY <1>1, <2>2, <2>5, <2>6 DEF NoNodes, Extension
    <2>7. CASE NoSlots(w, q, s)
      BY <1>1, <2>2, <2>5, <2>7 DEF NoSlots, Extension
    <2> QED  BY <2>3, <2>4, <2>6, <2>7 DEF FilledAs
  <1>2. ASSUME NEW w, NEW q, NEW v, NEW j \in 0 .. k - 1, ListGrown(l, p, new, j, w, q, v),
               \/ r = Fails("NOT_ENOUGH_MEMORY", w) /\ l.dynamic
               \/ r = Fails("INSUFFICIENT_BUFFER_SIZE", w) /\ ~l.dynamic /\ Len(q) = l.slots
        PROVE  Extension(l, p, new, k + 1, s)
    <2>1. s = r
      BY <1>2 DEF MoreOf, Check, Fails, Result
    <2>2. j \in 0 .. (k + 1) - 1
      OBVIOUS
    <2> QED  BY <1>2, <2>1, <2>2 DEF Extension
  <1> QED  BY <1>1, <1>2 DEF Extension

LEMMA ExtendedList ==
    ASSUME NEW l, NEW p, NEW u, Ready(l, p, u), NEW new, new # <<>> => new[1] \in Contained, NEW n \in Nat
    PROVE  Extension(l, p, new, n, Extended(l, n, new))
  <1> DEFINE after == CHOOSE w : Walks(TRUE, l, new, n, w)
             T == {k \in 0..n : ~Extension(l, p, new, k, after[k])}
  <1>1. Extended(l, n, new) = after[n]
    BY DEF Extended, Walks, NodeByNode, MoreOf, OneMore, Filling
  <1>2. \A k \in 0..n : after[k] = NodeByNode(TRUE, l, new, after, k)
    <2> DEFINE growing == TRUE
    <2>1. after = CHOOSE w : Walks(growing, l, new, n, w)
      OBVIOUS
    <2> HIDE DEF after, growing
    <2>2. \A k \in 0..n : after[k] = NodeByNode(growing, l, new, after, k)
      BY <2>1, StepsTaken
    <2> QED  BY <2>2 DEF growing
  <1> HIDE DEF after
  <1>3. p \in Seq(Nat) /\ Len(p) \in Nat
    BY DEF Ready, Chained
  <1>4. ASSUME T # {}
        PROVE  FALSE
    <2>1. PICK k \in T : \A y \in T : k <= y
      <3>1. T \in SUBSET Nat
        OBVIOUS
      <3> HIDE DEF T
      <3> QED  BY <1>4, <3>1, LeastNumber
    <2>2. k \in 0..n /\ ~Extension(l, p, new, k, after[k]) /\ after[k] = NodeByNode(TRUE, l, new, after, k)
      BY <1>2, <2>1
    <2>3. CASE k = 0
      <3>1. after[k] = Success(l)
        BY <2>2, <2>3 DEF NodeByNode
      <3>2. ListGrown(l, p, new, 0, l, p, u)
        <4>1. KinList(l, l) /\ Len(p) = Len(p) + 0
          BY <1>3 DEF KinList
        <4> QED  BY <1>3, <4>1 DEF ListGrown
      <3> QED  BY <2>2, <2>3, <3>1, <3>2 DEF Extension
    <2>4. CASE k # 0
      <3> DEFINE j == k - 1
                 s == after[k]
                 r == after[j]
      <3>1. j \in Nat /\ j \in 0..n /\ j + 1 = k /\ j \notin T
        BY <2>1, <2>2, <2>4
      <3>2. Extension(l, p, new, j, r) /\ s = MoreOf(r, new)
        BY <2>2, <2>4, <3>1 DEF NodeByNode
      <3> HIDE DEF j, s, r
      <3>3. Extension(l, p, new, j + 1, s)
        BY <1>3, <3>1, <3>2, ExtensionStep
      <3> QED  BY <2>2, <3>1, <3>3 DEF s
    <2> QED  BY <2>3, <2>4
  <1>5. n \in 0..n
    OBVIOUS
  <1> QED  BY <1>1, <1>4, <1>5

(* Filling that went as far as it could *)
LEMMA FilledStep ==
    ASSUME NEW S, Held \in Seq(S), Held' \in Seq(Contained), NEW size \in Nat, NEW new, NEW st,
           Calls("fill", 0, size, new, st, <<>>), Steady, Len(Held) <= Len(Held'), Len(Held') < size,
           \A k \in 1..Len(Held') : IF k <= Len(Held) THEN Held'[k] = Held[k] ELSE new # <<>> => Held'[k] = new[1],
           \/ st = "INSUFFICIENT_BUFFER_SIZE" /\ Limit # Unlimited /\ Limit \in Nat /\ Len(Held') = Limit
           \/ st = "NOT_ENOUGH_MEMORY" /\ Limit = Unlimited
    PROVE  Abstract!Answered
  <1> DEFINE t == Held'
             n == Len(t)
             op == "fill"
  <1>1. /\ call'.op = "fill" /\ call'.at = 0 /\ call'.count = size /\ call'.new = new /\ call'.status = st
    BY CallFields
  <1>2. t \in Abstract!Resized(n, new)
    <2>1. /\ t \in Seq(Contained) /\ Len(t) \in Nat
          /\ \A k \in 1..Len(t) : IF k <= Len(Held) THEN t[k] = Held[k] ELSE new # <<>> => t[k] = new[1]
      OBVIOUS
    <2> HIDE DEF t
    <2> QED  BY <2>1, ResizedElements DEF n
  <1>3. Len(Held) \in Nat /\ n \in Nat /\ Len(Held) <= n /\ n < size
    OBVIOUS
  <1>4. Abstract!Dropped(<<>>)
    BY DroppedStep
  <1>5. Limit' = Limit /\ watched' = watched
    BY DEF Steady
  <1>6. CASE st = "INSUFFICIENT_BUFFER_SIZE" /\ Limit # Unlimited /\ Limit \in Nat /\ n = Limit
    <2>1. Len(Held) <= Limit /\ Limit < size /\ op \in {"resize", "fill"} /\ call'.op = op
      BY <1>1, <1>3, <1>6
    <2> HIDE DEF t, n, op
    <2>2. Abstract!NoRoom(call')
      BY <1>1, <1>6, <2>1, NoRoomForSize
    <2>3. t \in Abstract!Resized(Limit, new)
      BY <1>2, <1>6
    <2>4. Abstract!Filled
      BY <1>1, <1>4, <1>5, <1>6, <2>2, <2>3 DEF Abstract!Filled, t
    <2> QED  BY <2>4 DEF Abstract!Answered
  <1>7. CASE st = "NOT_ENOUGH_MEMORY" /\ Limit = Unlimited
    <2> HIDE DEF n
    <2>1. n \in Len(Held) .. size - 1
      BY <1>3
    <2>2. Abstract!Filled
      BY <1>1, <1>2, <1>4, <1>5, <1>7, <2>1 DEF Abstract!Filled
    <2> QED  BY <2>2 DEF Abstract!Answered
  <1> QED  BY <1>6, <1>7

(* What a list holds that grew at its end *)
LEMMA SeenGrown ==
    ASSUME NEW l, NEW p, p \in Seq(Nat), NEW new, NEW j \in Nat, NEW w, NEW q,
           NEW v, ListGrown(l, p, new, j, w, q, v),
           NEW s, Seen(l, p, s), NEW t, Seen(w, q, t)
    PROVE  /\ Len(t) = Len(s) + j /\ Len(t) = Len(q)
           /\ \A k \in 1..Len(t) : IF k <= Len(s) THEN t[k] = s[k] ELSE new # <<>> => t[k] = new[1]
  <1>1. /\ Len(q) = Len(p) + j
        /\ \A k \in 1..Len(q) : IF k <= Len(p) THEN w.nodes[q[k]].item = l.nodes[p[k]].item
                                ELSE new # <<>> => w.nodes[q[k]].item = new[1]
    BY DEF ListGrown
  <1>2. /\ Len(s) = Len(p) /\ \A k \in 1..Len(p) : s[k] = l.nodes[p[k]].item
        /\ Len(t) = Len(q) /\ \A k \in 1..Len(q) : t[k] = w.nodes[q[k]].item
    BY DEF Seen
  <1>3. Len(p) \in Nat
    OBVIOUS
  <1>4. \A k \in 1..Len(q) : k <= Len(p) => k \in 1..Len(p)
    BY <1>1, <1>3
  <1> QED  BY <1>1, <1>2, <1>4

LEMMA ListFillStep ==
    ASSUME NEW l, NEW p, NEW u, ListCalled(l, p, u), NEW size \in Nat, size > l.size, NEW new,
           new # <<>> => new[1] \in Contained, ListReturned(Fill(size, new), Extended(l, size - l.size, new))
    PROVE  Abstract!Answered /\ ListInv' /\ kind' = kind
  <1> DEFINE s == Held
             t == Held'
             c == Len(Held)
             n == size - l.size
             r == Extended(l, n, new)
             zero == 0
             none == <<>>
  <1>1. /\ Ready(l, p, u) /\ p \in Seq(Nat) /\ s \in Seq(Contained) /\ Len(s) = c /\ c = Len(p) /\ c \in Nat
           /\ l.size = c
        /\ Seen(l, p, s)
        /\ l.dynamic => Limit = Unlimited
        /\ ~l.dynamic => Limit = l.slots /\ Limit # Unlimited /\ Limit \in Nat
    BY ListHeld DEF ListCalled
  <1>2. n \in Nat /\ n > 0 /\ c + n = size
    BY <1>1
  <1>3. ListReturned(Operation("fill", zero, size, new), r)
    BY DEF Fill
  <1> HIDE DEF n
  <1>4. Extension(l, p, new, n, r)
    BY <1>1, <1>2, ExtendedList
  <1> HIDE DEF r, s, c, zero, none
  <1>5. ASSUME NEW st, NEW w, NEW q, NEW v, NEW j \in Nat, r = Result(st, w, none), ListGrown(l, p, new, j, w, q, v)
        PROVE  /\ Calls("fill", zero, size, new, st, none) /\ Steady /\ ListInv' /\ kind' = kind
               /\ t \in Seq(Contained) /\ Len(t) = c + j /\ Len(t) = Len(q)
               /\ \A k \in 1..Len(t) : IF k <= Len(s) THEN t[k] = s[k] ELSE new # <<>> => t[k] = new[1]
    <2>1. Ready(w, q, v) /\ KinList(l, w)
      BY <1>5 DEF ListGrown
    <2>2. Calls("fill", zero, size, new, st, none) /\ Steady /\ ListInv' /\ kind' = kind /\ Seen(w, q, t)
      BY <1>3, <1>5, <2>1, ListLeaves
    <2> HIDE DEF t
    <2>3. /\ Len(t) = Len(s) + j /\ Len(t) = Len(q)
          /\ \A k \in 1..Len(t) : IF k <= Len(s) THEN t[k] = s[k] ELSE new # <<>> => t[k] = new[1]
      BY <1>1, <1>5, <2>2, SeenGrown
    <2>4. t \in Seq(Contained)
      BY <2>2 DEF Seen
    <2> QED  BY <1>1, <2>2, <2>3, <2>4
  <1>6. ASSUME NEW w, NEW q, NEW v, r = Success(w), ListGrown(l, p, new, n, w, q, v)
        PROVE  Abstract!Answered /\ ListInv' /\ kind' = kind
    <2>1. r = Result("SUCCESS", w, none)
      BY <1>6 DEF Success, none
    <2>2. /\ Calls("fill", zero, size, new, "SUCCESS", none) /\ Steady /\ ListInv' /\ kind' = kind
          /\ t \in Seq(Contained) /\ Len(t) = c + n /\ Len(t) = Len(q)
          /\ \A k \in 1..Len(t) : IF k <= Len(s) THEN t[k] = s[k] ELSE new # <<>> => t[k] = new[1]
      BY <1>2, <1>5, <1>6, <2>1
    <2>3. none = SubSeq(s, size + 1, c)
      <3>1. ~(size + 1 <= c) /\ size + 1 \in Int
        BY <1>1, <1>2
      <3>2. SubSeq(s, size + 1, c) \in Seq(Contained) /\ Len(SubSeq(s, size + 1, c)) = 0
        BY <1>1, <3>1
      <3> QED  BY <3>2 DEF none
    <2> USE DEF s, t, c
    <2>4. Abstract!Answered
      <3>1. Held \in Seq(Contained) /\ Held' \in Seq(Contained) /\ "fill" \in {"resize", "fill"}
        BY <1>1, <2>2
      <3>2. /\ Calls("fill", 0, size, new, "SUCCESS", SubSeq(Held, size + 1, Len(Held))) /\ Steady
            /\ Len(Held') = size
        BY <1>2, <2>2, <2>3 DEF zero
      <3>3. \A k \in 1..size : IF k <= Len(Held) THEN Held'[k] = Held[k] ELSE new # <<>> => Held'[k] = new[1]
        BY <1>2, <2>2
      <3>4. size \in Nat
        OBVIOUS
      <3> QED  BY ONLY <3>1, <3>2, <3>3, <3>4, ResizeStep
    <2> QED  BY <2>2, <2>4
  <1>7. ASSUME NEW w, NEW q, NEW v, NEW j \in 0 .. n - 1, ListGrown(l, p, new, j, w, q, v), NEW st, r = Fails(st, w),
               \/ st = "NOT_ENOUGH_MEMORY" /\ l.dynamic
               \/ st = "INSUFFICIENT_BUFFER_SIZE" /\ ~l.dynamic /\ Len(q) = l.slots
        PROVE  Abstract!Answered /\ ListInv' /\ kind' = kind
    <2>1. r = Result(st, w, none) /\ j \in Nat /\ c + j < size /\ c <= c + j
      BY <1>1, <1>2, <1>7 DEF Fails, none
    <2>2. /\ Calls("fill", zero, size, new, st, none) /\ Steady /\ ListInv' /\ kind' = kind
          /\ t \in Seq(Contained) /\ Len(t) = c + j /\ Len(t) = Len(q)
          /\ \A k \in 1..Len(t) : IF k <= Len(s) THEN t[k] = s[k] ELSE new # <<>> => t[k] = new[1]
      BY <1>5, <1>7, <2>1
    <2>3. \/ st = "INSUFFICIENT_BUFFER_SIZE" /\ Limit # Unlimited /\ Limit \in Nat /\ Len(t) = Limit
          \/ st = "NOT_ENOUGH_MEMORY" /\ Limit = Unlimited
      BY <1>1, <1>7, <2>2
    <2> USE DEF s, t, c
    <2>4. Abstract!Answered
      <3>1. /\ Held \in Seq(Contained) /\ Held' \in Seq(Contained) /\ size \in Nat
               /\ Len(Held) <= Len(Held') /\ Len(Held') < size
            /\ Calls("fill", 0, size, new, st, <<>>) /\ Steady
        BY <1>1, <2>1, <2>2 DEF zero, none
      <3>2. \A k \in 1..Len(Held') : IF k <= Len(Held) THEN Held'[k] = Held[k] ELSE new # <<>> => Held'[k] = new[1]
        BY <2>2
      <3>3. \/ st = "INSUFFICIENT_BUFFER_SIZE" /\ Limit # Unlimited /\ Limit \in Nat /\ Len(Held') = Limit
            \/ st = "NOT_ENOUGH_MEMORY" /\ Limit = Unlimited
        BY <2>3
      <3> QED  BY ONLY <3>1, <3>2, <3>3, FilledStep
    <2> QED  BY <2>2, <2>4
  <1> QED  BY <1>4, <1>6, <1>7 DEF Extension

(* m is l without its last k nodes, but for the size that still is the old one. *)
ListCut(l, p, k, m) ==
    \E q, v : /\ Chained(m, q, v) /\ m.new = NoNode /\ m.size = l.size /\ KinList(l, m) /\ Len(q) = Len(p) - k
              /\ \A i \in 1..Len(q) : q[i] = p[i] /\ m.nodes[p[i]].item = l.nodes[p[i]].item

LEMMA CutMore ==
    ASSUME NEW l, NEW p, p \in Seq(Nat), NEW k \in Nat, k + 1 < Len(p), NEW m, ListCut(l, p, k, m)
    PROVE  ListCut(l, p, k + 1, UnlinkBack(m))
  <1>1. PICK q, v : /\ Chained(m, q, v) /\ m.new = NoNode /\ m.size = l.size /\ KinList(l, m) /\ Len(q) = Len(p) - k
                    /\ \A i \in 1..Len(q) : q[i] = p[i] /\ m.nodes[p[i]].item = l.nodes[p[i]].item
    BY DEF ListCut
  <1> DEFINE w == UnlinkBack(m)
             s == Shorter(q)
             y == Waited(m, m.tail, v)
             c == Len(p)
  <1>2. q \in Seq(Nat) /\ c \in Nat
    BY <1>1 DEF Chained
  <1>3. Len(q) > 1 /\ Len(q) > 0
    <2>1. Len(q) = c - k /\ c \in Nat /\ k + 1 < c
      BY <1>1, <1>2
    <2> HIDE DEF c
    <2> QED  BY <2>1
  <1>4. Chained(w, s, y) /\ SameItems(m, w, s) /\ KinList(m, w) /\ w.new = NoNode /\ w.size = m.size
    BY <1>1, <1>3, ShortenedList
  <1>5. Len(s) = Len(q) - 1 /\ \A i \in 1..Len(s) : s[i] = q[i]
    BY <1>2, <1>3, ShorterChain
  <1> HIDE DEF w, s, y
  <1>6. KinList(l, w)
    BY <1>1, <1>4 DEF KinList
  <1>7. Len(s) = c - (k + 1) /\ \A i \in 1..Len(s) : i \in 1..Len(q)
    <2>1. Len(q) = c - k /\ c \in Nat
      BY <1>1, <1>2
    <2> HIDE DEF c
    <2> QED  BY <1>5, <2>1
  <1>8. \A i \in 1..Len(s) : s[i] = p[i] /\ w.nodes[p[i]].item = l.nodes[p[i]].item
    <2> TAKE i \in 1..Len(s)
    <2>1. w.nodes[s[i]].item = m.nodes[s[i]].item
      BY <1>4 DEF SameItems
    <2>2. i \in 1..Len(q) /\ s[i] = q[i]
      BY <1>5, <1>7
    <2>3. q[i] = p[i] /\ m.nodes[p[i]].item = l.nodes[p[i]].item
      BY <1>1, <2>2
    <2> QED  BY <2>1, <2>2, <2>3
  <1>9. ListCut(l, p, k + 1, w)
    BY <1>1, <1>4, <1>6, <1>7, <1>8 DEF ListCut
  <1> QED  BY <1>9 DEF w

LEMMA ReducedChain ==
    ASSUME NEW l, NEW p, NEW u, Ready(l, p, u), NEW n \in Nat, n < Len(p),
           NEW after, after = CHOOSE w : Walks(FALSE, l, <<>>, n, w)
    PROVE  ListCut(l, p, n, after[n])
  <1> DEFINE T == {k \in 0..n : ~ListCut(l, p, k, after[k])}
             c == Len(p)
  <1>2. \A k \in 0..n : after[k] = NodeByNode(FALSE, l, <<>>, after, k)
    <2> DEFINE growing == FALSE
               new == <<>>
    <2>1. after = CHOOSE w : Walks(growing, l, new, n, w)
      OBVIOUS
    <2> HIDE DEF growing, new
    <2>2. \A k \in 0..n : after[k] = NodeByNode(growing, l, new, after, k)
      BY <2>1, StepsTaken
    <2> QED  BY <2>2 DEF growing, new
  <1>3. p \in Seq(Nat) /\ Len(p) \in Nat /\ Chained(l, p, u) /\ l.new = NoNode
    BY DEF Ready, Chained
  <1>30. n \in Nat /\ c \in Nat /\ n < c
    BY <1>3
  <1> HIDE DEF c
  <1>4. ASSUME T # {}
        PROVE  FALSE
    <2>1. PICK k \in T : \A y \in T : k <= y
      <3>1. T \in SUBSET Nat
        BY ONLY <1>30
      <3> HIDE DEF T
      <3> QED  BY <1>4, <3>1, LeastNumber
    <2>2. k \in 0..n /\ ~ListCut(l, p, k, after[k]) /\ after[k] = NodeByNode(FALSE, l, <<>>, after, k)
      BY <1>2, <2>1
    <2>3. CASE k = 0
      <3>1. after[k] = l
        BY <2>2, <2>3 DEF NodeByNode
      <3>2. KinList(l, l) /\ Len(p) = Len(p) - 0
        BY <1>3 DEF KinList
      <3>3. ListCut(l, p, 0, l)
        BY <1>3, <3>2 DEF ListCut
      <3> QED  BY <2>2, <2>3, <3>1, <3>3
    <2>4. CASE k # 0
      <3> DEFINE j == k - 1
                 s == after[k]
                 r == after[j]
      <3>0. j \in Nat /\ j \in 0..n /\ j + 1 = k /\ j < k /\ j + 1 < c /\ k \in Nat
        BY ONLY <1>30, <2>2, <2>4
      <3>1. j \in Nat /\ j \in 0..n /\ j + 1 = k /\ j \notin T /\ j + 1 < Len(p)
        <4> HIDE DEF j, T
        <4>1. j \notin T
          BY <2>1, <3>0
        <4> QED  BY <3>0, <4>1 DEF c
      <3>2. ListCut(l, p, j, r) /\ s = UnlinkBack(r)
        BY <2>2, <2>4, <3>1 DEF NodeByNode
      <3> HIDE DEF j, s, r
      <3>3. ListCut(l, p, j + 1, s)
        BY <1>3, <3>1, <3>2, CutMore
      <3> QED  BY <2>2, <3>1, <3>3 DEF s
    <2> QED  BY <2>3, <2>4
  <1>5. n \in 0..n
    OBVIOUS
  <1> QED  BY <1>4, <1>5

Sized(l, size) == [l EXCEPT !.size = size]

LEMMA SizedList ==
    ASSUME NEW l, NEW p, NEW u, Chained(l, p, u), l.new = NoNode, NEW size, size = Len(p)
    PROVE  Ready(Sized(l, size), p, u) /\ KinList(l, Sized(l, size)) /\ Sized(l, size).nodes = l.nodes
  <1> DEFINE m == Sized(l, size)
  <1>1. /\ l \in ListsOf /\ p \in Seq(Nat) /\ u \in Seq(Nat)
        /\ l.head = FirstOf(p) /\ l.tail = FinalOf(p) /\ l.first = FirstOf(u)
        /\ Strung(l.nodes, p) /\ Waiting(l.nodes, u) /\ Once(p, u) /\ Taken(l, p, u)
    BY DEF Chained
  <1>2. l.nodes \in Memories /\ l.head \in Nat /\ l.tail \in Nat /\ size \in Nat
    BY <1>1, ListFields
  <1>3. m = Headed(l, l.nodes, l.head, l.tail, size)
    <2>1. l = [dynamic |-> l.dynamic, nodes |-> l.nodes, slots |-> l.slots, size |-> l.size, head |-> l.head,
               tail |-> l.tail, first |-> l.first, new |-> l.new, memory |-> l.memory]
      BY <1>1, ListFields
    <2> QED  BY ONLY <2>1 DEF Headed, Sized
  <1>4. /\ m \in ListsOf
        /\ m.nodes = l.nodes /\ m.new = l.new /\ m.dynamic = l.dynamic /\ m.slots = l.slots /\ m.size = size
        /\ m.head = l.head /\ m.tail = l.tail /\ m.first = l.first
    <2> DEFINE w == l.nodes
               head == l.head
               tail == l.tail
    <2>1. w \in Memories /\ head \in Nat /\ tail \in Nat /\ size \in Nat /\ l \in ListsOf
            /\ m = Headed(l, w, head, tail, size)
      BY <1>1, <1>2, <1>3
    <2> HIDE DEF m, w, head, tail
    <2>2. HeadedAs(l, m, w, head, tail, size)
      BY ONLY <2>1, HeaderSet
    <2> QED  BY <2>2 DEF HeadedAs, w, head, tail
  <1> HIDE DEF m
  <1>5. Taken(m, p, u)
    BY <1>1, <1>4 DEF Taken, Count, IsNew
  <1>6. Ready(m, p, u)
    BY <1>1, <1>4, <1>5 DEF Ready, Chained
  <1> QED  BY <1>4, <1>6 DEF KinList, m

LEMMA ListReduceStep ==
    ASSUME NEW l, NEW p, NEW u, ListCalled(l, p, u), NEW size \in Nat, 0 < size, size < l.size, NEW new,
           ListReturned(Fill(size, new), Reduced(l, size))
    PROVE  Abstract!Answered /\ ListInv' /\ kind' = kind
  <1> DEFINE s == Held
             t == Held'
             c == Len(Held)
             n == l.size - size
             zero == 0
             after == CHOOSE w : Walks(FALSE, l, <<>>, n, w)
             m == after[n]
             out == SubSeq(ItemsOf(l), size + 1, l.size)
  <1>1. /\ Ready(l, p, u) /\ p \in Seq(Nat) /\ s \in Seq(Contained) /\ Len(s) = c /\ c = Len(p) /\ c \in Nat
           /\ l.size = c
        /\ \A k \in 1..Len(p) : s[k] = l.nodes[p[k]].item
    BY ListHeld
  <1>2. n \in Nat /\ n < c /\ size = c - n
    BY <1>1
  <1>3. Reduced(l, size) = Result("SUCCESS", Sized(m, size), out)
    BY DEF Reduced, Walks, NodeByNode, Sized
  <1>4. out = SubSeq(s, size + 1, c)
    <2>1. Seen(l, p, ItemsOf(l)) /\ Seen(l, p, Held)
      BY ListSeen DEF ListCalled, Ready
    <2>2. ItemsOf(l) = s
      BY <2>1, SeenSame
    <2> HIDE DEF s
    <2> QED  BY <1>1, <2>2
  <1>5. ListReturned(Operation("fill", zero, size, new), Result("SUCCESS", Sized(m, size), out))
    BY <1>3 DEF Fill
  <1> HIDE DEF s, c, n, zero, after, m, out
  <1>6. PICK q, v : /\ Chained(m, q, v) /\ m.new = NoNode /\ m.size = l.size /\ KinList(l, m) /\ Len(q) = Len(p) - n
                    /\ \A i \in 1..Len(q) : q[i] = p[i] /\ m.nodes[p[i]].item = l.nodes[p[i]].item
    <2>1. n < Len(p)
      BY <1>1, <1>2
    <2>2. ListCut(l, p, n, m)
      BY <1>1, <1>2, <2>1, ReducedChain DEF after, m
    <2> QED  BY <2>2 DEF ListCut
  <1> DEFINE w == Sized(m, size)
  <1>7. Ready(w, q, v) /\ KinList(m, w) /\ w.nodes = m.nodes
    <2>1. size = Len(q)
      BY <1>1, <1>2, <1>6
    <2> QED  BY <1>6, <2>1, SizedList
  <1> HIDE DEF w
  <1>8. KinList(l, w)
    BY <1>6, <1>7 DEF KinList
  <1>9. Calls("fill", zero, size, new, "SUCCESS", out) /\ Steady /\ ListInv' /\ kind' = kind /\ Seen(w, q, t)
    BY <1>5, <1>7, <1>8, ListLeaves DEF w
  <1> HIDE DEF t
  <1>10. t \in Seq(Contained) /\ Len(t) = size /\ \A k \in 1..size : t[k] = s[k] /\ k <= Len(s)
    <2>1. t \in Seq(Contained) /\ Len(t) = Len(q) /\ \A k \in 1..Len(q) : t[k] = w.nodes[q[k]].item
      BY <1>9 DEF Seen
    <2>2. Len(q) = size /\ \A k \in 1..size : k \in 1..Len(p) /\ k <= Len(s)
      BY <1>1, <1>2, <1>6
    <2> QED  BY <1>1, <1>6, <1>7, <2>1, <2>2
  <1> USE DEF s, t, c
  <1>11. Abstract!Answered
    <2>1. Held \in Seq(Contained) /\ Held' \in Seq(Contained) /\ size \in Nat /\ "fill" \in {"resize", "fill"}
      BY <1>1, <1>10
    <2>2. /\ Calls("fill", 0, size, new, "SUCCESS", SubSeq(Held, size + 1, Len(Held))) /\ Steady
          /\ Len(Held') = size
      BY <1>4, <1>9, <1>10 DEF zero
    <2>3. \A k \in 1..size : IF k <= Len(Held) THEN Held'[k] = Held[k] ELSE new # <<>> => Held'[k] = new[1]
      BY <1>10
    <2> QED  BY ONLY <2>1, <2>2, <2>3, ResizeStep
  <1> QED  BY <1>9, <1>11

-----------------------------------------------------------------------------
(* The steps of a list *)

LEMMA ListSameStep ==
    ASSUME NEW l, NEW p, NEW u, ListCalled(l, p, u), NEW new, ListReturned(Fill(l.size, new), Success(l))
    PROVE  Abstract!Answered /\ ListInv' /\ kind' = kind
  <1> DEFINE s == Held
             t == Held'
             size == l.size
             zero == 0
             none == <<>>
  <1>1. /\ Ready(l, p, u) /\ s \in Seq(Contained) /\ Len(s) = size /\ size \in Nat /\ Seen(l, p, s)
    BY ListHeld DEF ListCalled
  <1>2. ListReturned(Operation("fill", zero, size, new), Result("SUCCESS", l, none)) /\ KinList(l, l)
    BY DEF Fill, Success, KinList
  <1> HIDE DEF s, size, zero, none
  <1>3. Calls("fill", zero, size, new, "SUCCESS", none) /\ Steady /\ ListInv' /\ kind' = kind /\ Seen(l, p, t)
    BY <1>1, <1>2, ListLeaves
  <1> HIDE DEF t
  <1>4. t = s
    BY <1>1, <1>3, SeenSame
  <1>5. none = SubSeq(s, size + 1, Len(s))
    <2>1. ~(size + 1 <= size) /\ size + 1 \in Int
      BY <1>1
    <2>2. SubSeq(s, size + 1, Len(s)) \in Seq(Contained) /\ Len(SubSeq(s, size + 1, Len(s))) = 0
      BY <1>1, <2>1
    <2> QED  BY <2>2 DEF none
  <1> USE DEF s, t
  <1>6. Abstract!Answered
    <2>1. Held \in Seq(Contained) /\ Held' \in Seq(Contained) /\ size \in Nat /\ "fill" \in {"resize", "fill"}
      BY <1>1, <1>4
    <2>2. /\ Calls("fill", 0, size, new, "SUCCESS", SubSeq(Held, size + 1, Len(Held))) /\ Steady
          /\ Len(Held') = size
      BY <1>1, <1>3, <1>4, <1>5 DEF zero
    <2>3. \A k \in 1..size : IF k <= Len(Held) THEN Held'[k] = Held[k] ELSE new # <<>> => Held'[k] = new[1]
      BY <1>1, <1>4
    <2> QED  BY ONLY <2>1, <2>2, <2>3, ResizeStep
  <1> QED  BY <1>3, <1>6

LEMMA ListResizeStep ==
    ASSUME NEW l, NEW p, NEW u, ListCalled(l, p, u), NEW size \in 0 .. MaxItems + 1, NEW new \in AtMostOne,
           ListReturned(Fill(size, new), ListResizeEx(l, size, new))
    PROVE  Abstract!Answered /\ ListInv' /\ kind' = kind
  <1>1. size \in Nat /\ l.size \in Nat
    BY ListHeld, ContainerAssumption
  <1>2. new # <<>> => new[1] \in Contained
    BY DEF AtMostOne, Contained, Characters
  <1>3. CASE size = l.size
    <2>1. ListReturned(Fill(l.size, new), Success(l))
      BY <1>3 DEF ListResizeEx
    <2> QED  BY <2>1, ListSameStep
  <1>4. CASE size # l.size /\ size = 0
    <2>1. ListReturned(Fill(0, new), ListClear(l))
      BY <1>4 DEF ListResizeEx
    <2> QED  BY <2>1, ListClearStep
  <1>5. CASE size # l.size /\ size # 0 /\ size > l.size
    <2>1. ListReturned(Fill(size, new), Extended(l, size - l.size, new))
      BY <1>5 DEF ListResizeEx
    <2> QED  BY <1>1, <1>2, <1>5, <2>1, ListFillStep
  <1>6. CASE size # l.size /\ size # 0 /\ ~(size > l.size)
    <2>1. ListReturned(Fill(size, new), Reduced(l, size))
      BY <1>6 DEF ListResizeEx
    <2>2. 0 < size /\ size < l.size
      BY <1>1, <1>6
    <2> QED  BY <1>1, <2>1, <2>2, ListReduceStep
  <1> QED  BY <1>3, <1>4, <1>5, <1>6

LEMMA ListCallStep ==
    ASSUME ListInv, ListCall
    PROVE  Abstract!Answered /\ ListInv' /\ kind' = kind
  <1>1. kind = "list"
    BY DEF ListCall
  <1>2. PICK nodes \in (IF body.dynamic THEN 0..2 ELSE {0}) :
            LET l == Granted(body, nodes) IN
            \/ /\ Room(l, l.size + 1)
               /\ \E x \in Values :
                    \/ ListReturned(Insert(l.size, <<x>>), ListPushBack(l, x))
                    \/ ListReturned(Insert(0, <<x>>), ListPushFront(l, x))
            \/ ListReturned(Delete(LastOf(l.size), 1), ListPopBack(l))
            \/ ListReturned(Delete(0, 1), ListPopFront(l))
            \/ \E k \in 1 .. l.size, x \in Values :
                ListReturned(Overwrite(k - 1, <<x>>), ListSetNodeData(l, Path(l)[k], x))
            \/ \E size \in 0 .. MaxItems + 1, new \in AtMostOne :
                Room(l, size) /\ ListReturned(Fill(size, new), ListResizeEx(l, size, new))
            \/ ListReturned(Fill(0, <<>>), ListClear(l))
    BY DEF ListCall, Granted
  <1>3. nodes \in Nat
    OBVIOUS
  <1> DEFINE l == Granted(body, nodes)
  <1>4. PICK p, u : ListCalled(l, p, u)
    BY <1>1, <1>3, ListForCall
  <1>5. \/ \E x \in Values :
            \/ ListReturned(Insert(l.size, <<x>>), ListPushBack(l, x))
            \/ ListReturned(Insert(0, <<x>>), ListPushFront(l, x))
        \/ ListReturned(Delete(LastOf(l.size), 1), ListPopBack(l))
        \/ ListReturned(Delete(0, 1), ListPopFront(l))
        \/ \E k \in 1 .. l.size, x \in Values :
            ListReturned(Overwrite(k - 1, <<x>>), ListSetNodeData(l, Path(l)[k], x))
        \/ \E size \in 0 .. MaxItems + 1, new \in AtMostOne :
            ListReturned(Fill(size, new), ListResizeEx(l, size, new))
        \/ ListReturned(Fill(0, <<>>), ListClear(l))
    BY <1>2
  <1> HIDE DEF l
  <1>6. ASSUME NEW x \in Values,
               \/ ListReturned(Insert(l.size, <<x>>), ListPushBack(l, x))
               \/ ListReturned(Insert(0, <<x>>), ListPushFront(l, x))
        PROVE  Abstract!Answered /\ ListInv' /\ kind' = kind
    BY <1>4, <1>6, ListPushStep
  <1>7. CASE \/ ListReturned(Delete(LastOf(l.size), 1), ListPopBack(l))
             \/ ListReturned(Delete(0, 1), ListPopFront(l))
    BY <1>4, <1>7, ListPopStep
  <1>8. ASSUME NEW k \in 1 .. l.size, NEW x \in Values,
               ListReturned(Overwrite(k - 1, <<x>>), ListSetNodeData(l, Path(l)[k], x))
        PROVE  Abstract!Answered /\ ListInv' /\ kind' = kind
    BY <1>4, <1>8, ListSetStep
  <1>9. ASSUME NEW size \in 0 .. MaxItems + 1, NEW new \in AtMostOne,
               ListReturned(Fill(size, new), ListResizeEx(l, size, new))
        PROVE  Abstract!Answered /\ ListInv' /\ kind' = kind
    BY <1>4, <1>9, ListResizeStep
  <1>10. CASE ListReturned(Fill(0, <<>>), ListClear(l))
    <2> DEFINE new == <<>>
    <2>1. ListReturned(Fill(0, new), ListClear(l))
      BY <1>10
    <2> HIDE DEF new
    <2> QED  BY <1>4, <2>1, ListClearStep
  <1> QED  BY <1>5, <1>6, <1>7, <1>8, <1>9, <1>10

LEMMA DestroyListStep ==
    ASSUME kind = "list", Destroy
    PROVE  Abstract!Answered /\ kind' = "none"
  <1>1. DestroyedItems = Held
    BY DEF DestroyedItems, Held, ListClear, Result
  <1>2. Calls("destroy", 0, 0, <<>>, "SUCCESS", Held)
    BY <1>1 DEF Destroy, Called, Calls
  <1>3. kind' = "none" /\ Held' = <<>>
    BY DEF Destroy, Held
  <1> QED  BY <1>2, <1>3, DestroyStep

(* A new list is empty. *)
LEMMA NewLists ==
    /\ Ready(ListInitEx, <<>>, <<>>)
    /\ \A slots \in Nat : Ready(ListInitCustomBuffer(slots), <<>>, <<>>)
  <1> DEFINE none == <<>>
  <1>1. none \in Seq(Nat) /\ Len(none) = 0
    OBVIOUS
  <1> HIDE DEF none
  <1>2. /\ \A n : ~In(none, n)
        /\ \A w : Strung(w, none) /\ Waiting(w, none)
        /\ Once(none, none) /\ FirstOf(none) = NoNode /\ FinalOf(none) = NoNode
    <2>1. \A k \in 1..Len(none) : FALSE
      BY <1>1
    <2> QED  BY <1>1, <2>1 DEF In, Strung, Waiting, Once, FirstOf, FinalOf
  <1>3. ASSUME NEW m \in ListsOf, m.size = 0, m.head = NoNode, m.tail = NoNode, m.first = NoNode, m.new = NoNode,
               m.dynamic => DOMAIN m.nodes = {}, ~m.dynamic => DOMAIN m.nodes = 1..m.slots
        PROVE  Ready(m, none, none)
    <2>1. \A n : ~IsNew(m, n)
      BY <1>3 DEF IsNew
    <2>2. Count(m, none, none) = 0
      BY <1>1, <1>3 DEF Count
    <2>3. m.slots \in Nat
      BY ListFields
    <2>4. \A n \in 1..m.slots : ~(n <= 0)
      BY <2>3
    <2>5. Taken(m, none, none)
      BY <1>1, <1>2, <1>3, <2>1, <2>2, <2>3, <2>4 DEF Taken
    <2> QED  BY <1>1, <1>2, <1>3, <2>5 DEF Ready, Chained
  <1>4. Ready(ListInitEx, none, none)
    <2> DEFINE m == ListInitEx
    <2>1. m = [dynamic |-> TRUE, nodes |-> <<>>, slots |-> 0, size |-> 0, head |-> NoNode, tail |-> NoNode,
               first |-> NoNode, new |-> NoNode, memory |-> 0]
      BY DEF ListInitEx
    <2> DEFINE w == <<>>
    <2>2. w \in Memories /\ DOMAIN w = {} /\ NoNode \in Nat
      BY NoMemories DEF NoNode
    <2>3. m = [dynamic |-> TRUE, nodes |-> w, slots |-> 0, size |-> 0, head |-> NoNode, tail |-> NoNode,
               first |-> NoNode, new |-> NoNode, memory |-> 0]
      BY <2>1
    <2> HIDE DEF m, w
    <2>4. /\ m \in ListsOf /\ m.size = 0 /\ m.head = NoNode /\ m.tail = NoNode /\ m.first = NoNode /\ m.new = NoNode
          /\ m.dynamic = TRUE /\ m.nodes = w
      BY ONLY <2>2, <2>3 DEF ListsOf
    <2> QED  BY <1>3, <2>2, <2>4 DEF m
  <1>5. ASSUME NEW slots \in Nat
        PROVE  Ready(ListInitCustomBuffer(slots), none, none)
    <2> DEFINE m == ListInitCustomBuffer(slots)
               w == [n \in 1..slots |-> BlankNode]
    <2>1. m = [dynamic |-> FALSE, nodes |-> w, slots |-> slots, size |-> 0, head |-> NoNode, tail |-> NoNode,
               first |-> NoNode, new |-> NoNode, memory |-> 0]
      <3> DEFINE z == ListInitEx
      <3>1. z = [dynamic |-> TRUE, nodes |-> <<>>, slots |-> 0, size |-> 0, head |-> NoNode, tail |-> NoNode,
                 first |-> NoNode, new |-> NoNode, memory |-> 0]
        BY DEF ListInitEx
      <3>2. m = [z EXCEPT !.dynamic = FALSE, !.slots = slots, !.nodes = w]
        BY DEF ListInitCustomBuffer
      <3> HIDE DEF m, w, z
      <3> QED  BY ONLY <3>1, <3>2
    <2>2. w \in Memories /\ DOMAIN w = 1..slots /\ NoNode \in Nat
      <3>1. BlankNode \in Nodes
        BY DEF BlankNode, Nodes, NoNode, Contained
      <3>2. w \in [1..slots -> Nodes] /\ DOMAIN w = 1..slots
        BY <3>1
      <3>3. 1..slots \subseteq Nat \ {0}
        OBVIOUS
      <3>4. IsFiniteSet(1..slots)
        BY FS_Interval
      <3> HIDE DEF w
      <3>5. w \in Memories
        BY <3>2, <3>3, <3>4, MemoryKnown
      <3> QED  BY <3>2, <3>5 DEF NoNode
    <2> HIDE DEF m, w
    <2>4. /\ m \in ListsOf /\ m.size = 0 /\ m.head = NoNode /\ m.tail = NoNode /\ m.first = NoNode /\ m.new = NoNode
          /\ m.dynamic = FALSE /\ m.nodes = w /\ m.slots = slots
      BY ONLY <2>1, <2>2, <1>5 DEF ListsOf
    <2> QED  BY <1>3, <2>2, <2>4 DEF m
  <1> QED  BY <1>4, <1>5 DEF none

LEMMA CreateListStep ==
    ASSUME NEW destructor \in BOOLEAN, CreateList(destructor)
    PROVE  Abstract!Answered /\ ListInv' /\ kind' = "list"
  <1> DEFINE none == <<>>
  <1>1. PICK l : Make("list", l, destructor, none) /\ Ready(l, none, none)
    <2>1. CASE Make("list", ListInitEx, destructor, <<>>)
      BY <2>1, NewLists
    <2>2. ASSUME NEW slots \in 1..MaxItems, Make("list", ListInitCustomBuffer(slots), destructor, <<>>)
          PROVE  \E l : Make("list", l, destructor, none) /\ Ready(l, none, none)
      <3>1. slots \in Nat
        BY ContainerAssumption
      <3> QED  BY <2>2, <3>1, NewLists
    <2> QED  BY <2>1, <2>2 DEF CreateList
  <1> HIDE DEF none
  <1>2. /\ kind' = "list" /\ body' = l /\ watched' = destructor
        /\ Calls("create", 0, 0, none, "SUCCESS", <<>>)
    BY <1>1, MadeStep
  <1>3. ListInv'
    BY <1>1, <1>2 DEF ListInv, ListKept
  <1>4. Held' = ItemsOf(l)
    BY <1>2 DEF Held
  <1>5. ItemsOf(l) = none
    <2>1. ItemsOf(l) \in Seq(Contained) /\ Len(ItemsOf(l)) = 0
      BY <1>1, ListSeen DEF Ready, Seen, none
    <2> QED  BY <2>1 DEF none
  <1>6. Held' = none
    BY <1>4, <1>5
  <1> QED  BY <1>2, <1>3, <1>6, CreateStep

-----------------------------------------------------------------------------
(* All four *)

Kinds == {"none", "vector", "string", "list", "bitset", "adrift"}
ContainerInv == kind \in Kinds /\ VectorInv /\ StringInv /\ ListInv /\ BitsetInv /\ AdriftInv

LEMMA ContainerBegins ==
    ASSUME ContainerInit
    PROVE  ContainerInv /\ Abstract!Init
  <1>1. kind = "none" /\ dropped = Tally(<<>>)
    BY DEF ContainerInit
  <1>2. ContainerInv
    BY <1>1 DEF ContainerInv, Kinds, VectorInv, StringInv, ListInv, BitsetInv, AdriftInv
  <1>3. Held = <<>>
    BY <1>1 DEF Held
  <1>4. Told = 0 /\ Sort = "items"
    BY <1>1, <1>3 DEF Told, Sort
  <1>5. Abstract!Init
    BY <1>1, <1>3, <1>4, SameTally DEF Abstract!Init
  <1> QED  BY <1>2, <1>5

LEMMA ContainerStutters ==
    ASSUME ContainerInv, UNCHANGED containerVars
    PROVE  ContainerInv' /\ UNCHANGED Abstract!vars
  <1>1. kind' = kind /\ body' = body /\ watched' = watched /\ call' = call /\ dropped' = dropped
    BY DEF containerVars
  <1>2. ContainerInv'
    BY <1>1 DEF ContainerInv, VectorInv, StringInv, ListInv, BitsetInv, AdriftInv
  <1>3. Held' = Held /\ Limit' = Limit /\ Sort' = Sort
    BY <1>1 DEF Held, Limit, Sort
  <1>4. Told' = Told
    BY <1>1, <1>3 DEF Told
  <1> QED  BY <1>1, <1>2, <1>3, <1>4 DEF Abstract!vars

(* What has no size of its own has as many items as it tells. *)
LEMMA ItemsCounted ==
    ASSUME kind \notin {"bitset", "adrift"}, kind' \notin {"bitset", "adrift"}, Abstract!Answered
    PROVE  Abstract!Next
  <1>1. Told' = Len(Held')
    BY DEF Told
  <1>2. Sort = "items" /\ Sort' = "items"
    BY DEF Sort
  <1>3. Abstract!Counted
    BY <1>1, <1>2 DEF Abstract!Counted
  <1> QED  BY <1>3 DEF Abstract!Next

LEMMA NothingCounted ==
    ASSUME kind' = "none", call'.op = "destroy", Abstract!Answered
    PROVE  Abstract!Next
  <1>1. Told' = Len(Held')
    BY DEF Told
  <1>2. Sort' = "items"
    BY DEF Sort
  <1>3. Abstract!Counted
    BY <1>1, <1>2 DEF Abstract!Counted, Abstract!Emptying
  <1> QED  BY <1>3 DEF Abstract!Next

(* A set whose bits are all stored has as many as it tells: one that was so *)
(* before and took every bit it was given, one that was emptied, and a new  *)
(* one.                                                                     *)
LEMMA BitsCounted ==
    ASSUME kind' = "bitset", BitsetInv', Abstract!Answered,
           \/ kind = "bitset" /\ (call'.op = "insert" => call'.status = "SUCCESS")
           \/ kind = "adrift" /\ call'.op = "resize" /\ call'.count = 0
           \/ kind = "none" /\ call'.op = "create"
    PROVE  Abstract!Next
  <1> DEFINE b == body'
  <1>1. b \in BitsetsOf /\ Stored(b.bits) /\ Covered(b)
    BY DEF BitsetInv, BitsetKept
  <1>2. Held' = Bits(b) /\ Told' = b.size
    BY DEF Held, Told
  <1> HIDE DEF b
  <1>3. Len(Bits(b)) = b.size
    <2> DEFINE n == IF b.size < Width * b.bits.size THEN b.size ELSE Width * b.bits.size
    <2>1. Len(Bits(b)) = n
      <3> HIDE DEF n
      <3>1. n = (IF b.size < Width * b.bits.size THEN b.size ELSE Width * b.bits.size)
        BY DEF n
      <3> QED  BY <1>1, <3>1, BitsOfBitset
    <2>2. b.size \in Nat /\ b.bits.size \in Nat
      BY <1>1 DEF BitsetsOf, VectorsOf, VectorOf
    <2>3. Width * b.bits.size \in Nat
      BY <2>2, Products, ContainerAssumption
    <2>4. b.size <= Width * b.bits.size
      BY <1>1 DEF Covered
    <2> DEFINE w == Width * b.bits.size
    <2>5. w \in Nat /\ b.size <= w /\ n = IF b.size < w THEN b.size ELSE w
      BY <2>3, <2>4
    <2> HIDE DEF w, n
    <2> QED  BY <2>1, <2>2, <2>5
  <1>4. /\ Sort' = "bits"
        /\ kind = "bitset" => Sort = "bits"
        /\ kind = "adrift" => Sort = "adrift"
        /\ kind = "none" => Sort = "items"
    BY DEF Sort
  <1>5. Told' = Len(Held')
    BY <1>2, <1>3
  <1>6. Abstract!Counted
    BY <1>4, <1>5 DEF Abstract!Counted, Abstract!Emptying
  <1> QED  BY <1>6 DEF Abstract!Next

LEMMA CreateContainerStep ==
    ASSUME \/ \E destructor \in BOOLEAN : CreateVector(destructor) \/ CreateList(destructor)
           \/ CreateString
           \/ CreateBitset
    PROVE  ContainerInv' /\ Abstract!Next
  <1>1. ASSUME NEW destructor \in BOOLEAN, CreateVector(destructor)
        PROVE  ContainerInv' /\ Abstract!Next
    <2>1. kind = "none"
      BY <1>1 DEF CreateVector, MakeWith, Make
    <2>2. Abstract!Answered /\ VectorInv' /\ kind' = "vector"
      BY <1>1, CreateVectorStep
    <2> QED  BY <2>1, <2>2, ItemsCounted DEF ContainerInv, Kinds, StringInv, ListInv, BitsetInv, AdriftInv
  <1>2. CASE CreateString
    <2>1. kind = "none"
      BY <1>2 DEF CreateString, MakeWith, Make
    <2>2. Abstract!Answered /\ StringInv' /\ kind' = "string"
      BY <1>2, CreateStringStep
    <2> QED  BY <2>1, <2>2, ItemsCounted DEF ContainerInv, Kinds, VectorInv, ListInv, BitsetInv, AdriftInv
  <1>3. ASSUME NEW destructor \in BOOLEAN, CreateList(destructor)
        PROVE  ContainerInv' /\ Abstract!Next
    <2>1. kind = "none"
      BY <1>3 DEF CreateList, Make
    <2>2. Abstract!Answered /\ ListInv' /\ kind' = "list"
      BY <1>3, CreateListStep
    <2> QED  BY <2>1, <2>2, ItemsCounted DEF ContainerInv, Kinds, VectorInv, StringInv, BitsetInv, AdriftInv
  <1>4. CASE CreateBitset
    <2>1. CASE BitsetAstray
      BY <2>1 DEF BitsetAstray, Abstract!Next, ContainerInv, Kinds, VectorInv, StringInv, ListInv, BitsetInv
    <2>2. CASE ~BitsetAstray
      <3>1. kind = "none" /\ Abstract!Answered /\ BitsetInv' /\ kind' = "bitset" /\ call'.op = "create"
        BY <1>4, <2>2, CreateBitsetStep
      <3>2. Abstract!Next
        BY <3>1, BitsCounted
      <3> QED  BY <3>1, <3>2 DEF ContainerInv, Kinds, VectorInv, StringInv, ListInv, AdriftInv
    <2> QED  BY <2>1, <2>2
  <1> QED  BY <1>1, <1>2, <1>3, <1>4

LEMMA ContainerStep ==
    ASSUME ContainerInv, ContainerNext
    PROVE  ContainerInv' /\ Abstract!Next
  <1>1. kind \in Kinds /\ VectorInv /\ StringInv /\ ListInv /\ BitsetInv /\ AdriftInv
    BY DEF ContainerInv
  <1>2. CASE VectorCall
    <2>1. kind = "vector"
      BY <1>2 DEF VectorCall
    <2>2. Abstract!Answered /\ VectorInv' /\ kind' = "vector"
      BY <1>1, <1>2, <2>1, VectorCallStep
    <2> QED  BY <2>1, <2>2, ItemsCounted DEF ContainerInv, Kinds, StringInv, ListInv, BitsetInv, AdriftInv
  <1>3. CASE StringCall
    <2>1. kind = "string"
      BY <1>3 DEF StringCall
    <2>2. Abstract!Answered /\ StringInv' /\ kind' = "string"
      BY <1>1, <1>3, <2>1, StringCallStep
    <2> QED  BY <2>1, <2>2, ItemsCounted DEF ContainerInv, Kinds, VectorInv, ListInv, BitsetInv, AdriftInv
  <1>4. CASE ListCall
    <2>1. kind = "list"
      BY <1>4 DEF ListCall
    <2>2. Abstract!Answered /\ ListInv' /\ kind' = "list"
      BY <1>1, <1>4, <2>1, ListCallStep
    <2> QED  BY <2>1, <2>2, ItemsCounted DEF ContainerInv, Kinds, VectorInv, StringInv, BitsetInv, AdriftInv
  <1>5. CASE BitsetCall
    <2>1. \/ BitsetDone /\ kind = "bitset"
          \/ BitsetDone /\ kind = "adrift" /\ call'.op = "resize" /\ call'.count = 0
          \/ BitsetAstray /\ kind = "bitset"
          \/ AdriftDone /\ kind = "adrift"
      BY <1>1, <1>5, BitsetCallStep
    <2>2. CASE \/ BitsetDone /\ kind = "bitset"
               \/ BitsetDone /\ kind = "adrift" /\ call'.op = "resize" /\ call'.count = 0
      <3>1. /\ Abstract!Answered /\ BitsetInv' /\ kind' = "bitset"
            /\ call'.op = "insert" => call'.status = "SUCCESS"
        BY <2>2 DEF BitsetDone
      <3>2. Abstract!Next
        BY <2>2, <3>1, BitsCounted
      <3> QED  BY <3>1, <3>2 DEF ContainerInv, Kinds, VectorInv, StringInv, ListInv, AdriftInv
    <2>3. CASE BitsetAstray
      BY <2>3 DEF BitsetAstray, Abstract!Next, ContainerInv, Kinds, VectorInv, StringInv, ListInv, BitsetInv
    <2>4. CASE AdriftDone
      BY <2>4 DEF AdriftDone, Abstract!Next, ContainerInv, Kinds, VectorInv, StringInv, ListInv, BitsetInv
    <2> QED  BY <2>1, <2>2, <2>3, <2>4
  <1>6. CASE Destroy
    <2>1. kind \in Kinds /\ kind # "none" /\ call'.op = "destroy"
      BY <1>1, <1>6 DEF Destroy, Called, Operation
    <2>2. Abstract!Answered /\ kind' = "none"
      <3>1. CASE kind = "vector"
        BY <1>6, <3>1, DestroyVectorStep
      <3>2. CASE kind = "string"
        BY <1>1, <1>6, <3>2, DestroyStringStep
      <3>3. CASE kind = "list"
        BY <1>6, <3>3, DestroyListStep
      <3>4. CASE kind \in {"bitset", "adrift"}
        BY <1>1, <1>6, <3>4, DestroyBitsetStep
      <3> QED  BY <2>1, <3>1, <3>2, <3>3, <3>4 DEF Kinds
    <2>3. Abstract!Next
      BY <2>1, <2>2, NothingCounted
    <2> QED  BY <2>2, <2>3 DEF ContainerInv, Kinds, VectorInv, StringInv, ListInv, BitsetInv, AdriftInv
  <1> QED  BY <1>2, <1>3, <1>4, <1>5, <1>6, CreateContainerStep DEF ContainerNext

(***************************************************************************)
(* The four containers do what Container says, whatever their factors of   *)
(* growth and however long they become: in every sequence of calls the     *)
(* contents move and change as the calls ask, a call that is refused       *)
(* changes nothing, and the destructor is given the items that leave and   *)
(* no other (Vector.c, String.c, List.c, Bitset.c).  Where the code does   *)
(* less, so does Container: an item emplaced in the middle by a            *)
(* constructor that fails leaves its neighbours displaced                  *)
(* (Vector.c:515-526), and a set of bits is not what it says it is from    *)
(* the moment that it is made with bits that do not fill a byte            *)
(* (Bitset.c:58-59), is refused the byte for a bit it counts (414) or is   *)
(* asked for a bit when it has none (430), until it is cleared or          *)
(* destroyed.  Nothing else goes wrong.                                    *)
(***************************************************************************)
THEOREM ContainersImplement ==
    ContainerSpec => ImplementsContainer
  <1>1. ContainerInit => ContainerInv /\ Abstract!Init
    BY ContainerBegins
  <1>2. ContainerInv /\ [ContainerNext]_containerVars => ContainerInv' /\ [Abstract!Next]_(Abstract!vars)
    <2> SUFFICES ASSUME ContainerInv, [ContainerNext]_containerVars
                 PROVE  ContainerInv' /\ [Abstract!Next]_(Abstract!vars)
      OBVIOUS
    <2>1. CASE ContainerNext
      BY <2>1, ContainerStep
    <2>2. CASE UNCHANGED containerVars
      BY <2>2, ContainerStutters
    <2> QED  BY <2>1, <2>2, Zenon
  <1> QED  BY <1>1, <1>2, PTL DEF ContainerSpec, ImplementsContainer, Abstract!Spec

-----------------------------------------------------------------------------
(* From the invariant to WellFormed *)

LEMMA ListWellFormed ==
    ASSUME NEW l, ListKept(l)
    PROVE  NodesOnce(l)
  <1>1. PICK p, u : Ready(l, p, u)
    BY DEF ListKept
  <1>2. /\ l \in ListsOf /\ p \in Seq(Nat) /\ u \in Seq(Nat) /\ l.new = NoNode /\ l.size = Len(p)
        /\ l.tail = FinalOf(p) /\ Strung(l.nodes, p) /\ Waiting(l.nodes, u) /\ Once(p, u) /\ Taken(l, p, u)
        /\ Path(l) = p /\ Unused(l) = u
    BY <1>1, PathOfChain DEF Ready, Chained
  <1> DEFINE c == Len(p)
             d == Len(u)
             s == p \o u
  <1>3. c \in Nat /\ d \in Nat
    BY <1>2
  <1>4. Len(s) = c + d /\ \A k \in 1 .. c + d : s[k] = IF k <= c THEN p[k] ELSE u[k - c]
    <2>1. Len(s) = Len(p) + Len(u) /\ \A k \in 1 .. Len(p) + Len(u) : s[k] = IF k <= Len(p) THEN p[k]
            ELSE u[k - Len(p)]
      BY <1>2, ConcatProperties
    <2> QED  BY <2>1
  <1>40. DOMAIN s = 1 .. c + d
    <2>1. s \in Seq(Nat)
      BY <1>2, ConcatProperties
    <2> HIDE DEF s
    <2> QED  BY <1>4, <2>1
  <1> HIDE DEF s
  <1>5. IsInjective(s)
    <2>1. ASSUME NEW j \in 1 .. c + d, NEW k \in 1 .. c + d, s[j] = s[k]
          PROVE  j = k
      <3>1. CASE j <= c /\ k <= c
        <4>1. j \in 1..c /\ k \in 1..c /\ p[j] = p[k]
          BY <1>3, <1>4, <2>1, <3>1
        <4> QED  BY <1>2, <4>1 DEF Once
      <3>2. CASE ~(j <= c) /\ ~(k <= c)
        <4>1. j - c \in 1..d /\ k - c \in 1..d /\ u[j - c] = u[k - c]
          BY <1>3, <1>4, <2>1, <3>2
        <4>2. j - c = k - c
          BY <1>2, <4>1 DEF Once
        <4> QED  BY <1>3, <4>2
      <3>3. CASE j <= c /\ ~(k <= c)
        <4>1. j \in 1..c /\ k - c \in 1..d /\ p[j] = u[k - c]
          BY <1>3, <1>4, <2>1, <3>3
        <4>2. In(p, p[j]) /\ In(u, p[j])
          BY <4>1 DEF In
        <4> QED  BY <1>2, <4>2 DEF Once
      <3>4. CASE ~(j <= c) /\ k <= c
        <4>1. k \in 1..c /\ j - c \in 1..d /\ p[k] = u[j - c]
          BY <1>3, <1>4, <2>1, <3>4
        <4>2. In(p, p[k]) /\ In(u, p[k])
          BY <4>1 DEF In
        <4> QED  BY <1>2, <4>2 DEF Once
      <3> QED  BY <3>1, <3>2, <3>3, <3>4
    <2> QED  BY <1>40, <2>1 DEF IsInjective
  <1>6. \A n : n \in ToSet(s) <=> In(p, n) \/ In(u, n)
    <2> TAKE n
    <2>1. ASSUME n \in ToSet(s)
          PROVE  In(p, n) \/ In(u, n)
      <3>1. PICK k \in 1 .. c + d : n = s[k]
        BY <1>40, <2>1 DEF ToSet
      <3>2. CASE k <= c
        <4>1. k \in 1..c /\ n = p[k]
          BY <1>3, <1>4, <3>1, <3>2
        <4> QED  BY <4>1 DEF In
      <3>3. CASE ~(k <= c)
        <4>1. k - c \in 1..d /\ n = u[k - c]
          BY <1>3, <1>4, <3>1, <3>3
        <4> QED  BY <4>1 DEF In
      <3> QED  BY <3>2, <3>3
    <2>2. ASSUME In(p, n)
          PROVE  n \in ToSet(s)
      <3>1. PICK k \in 1..c : n = p[k]
        BY <2>2 DEF In
      <3>2. k \in 1 .. c + d /\ s[k] = n
        BY <1>3, <1>4, <3>1
      <3> QED  BY <1>40, <3>2 DEF ToSet
    <2>3. ASSUME In(u, n)
          PROVE  n \in ToSet(s)
      <3>1. PICK k \in 1..d : n = u[k]
        BY <2>3 DEF In
      <3>2. c + k \in 1 .. c + d /\ ~(c + k <= c) /\ (c + k) - c = k
        BY <1>3, <3>1
      <3>3. s[c + k] = n
        BY <1>4, <3>1, <3>2
      <3> QED  BY <1>40, <3>2, <3>3 DEF ToSet
    <2> QED  BY <2>1, <2>2, <2>3
  <1>7. ToSet(s) = IF l.dynamic THEN DOMAIN l.nodes ELSE 1 .. c + d
    <2>1. \A n : ~IsNew(l, n)
      BY <1>2 DEF IsNew
    <2>2. CASE l.dynamic
      <3>1. d = 0 /\ \A n : n \in DOMAIN l.nodes <=> In(p, n)
        BY <1>2, <2>1, <2>2 DEF Taken
      <3>2. \A n : ~In(u, n)
        BY <3>1 DEF In
      <3>3. \A n : n \in ToSet(s) <=> n \in DOMAIN l.nodes
        BY <1>6, <3>1, <3>2
      <3> QED  BY <2>2, <3>3
    <2>3. CASE ~l.dynamic
      <3>1. Count(l, p, u) = c + d
        BY <1>2, <1>3 DEF Count
      <3>2. /\ DOMAIN l.nodes = 1..l.slots /\ c + d <= l.slots
            /\ \A n \in 1..l.slots : In(p, n) \/ In(u, n) <=> n <= c + d
        BY <1>2, <2>1, <2>3, <3>1 DEF Taken
      <3>3. \A n : In(p, n) \/ In(u, n) => n \in 1..l.slots
        BY <1>2, <3>2 DEF Strung, Waiting, In
      <3>4. l.slots \in Nat
        BY <1>2, ListFields
      <3>5. \A n : n \in ToSet(s) <=> n \in 1 .. c + d
        <4> TAKE n
        <4>1. n \in ToSet(s) => n \in 1..l.slots /\ n <= c + d
          BY <1>6, <3>2, <3>3
        <4>2. n \in 1 .. c + d => n \in 1..l.slots /\ n <= c + d
          BY <1>3, <3>2, <3>4
        <4>3. n \in 1..l.slots /\ n <= c + d => n \in 1 .. c + d
          BY <1>3, <3>4
        <4> QED  BY <1>6, <3>2, <4>1, <4>2, <4>3
      <3> QED  BY <2>3, <3>5
    <2> QED  BY <2>2, <2>3
  <1>8. \A k \in 1..c : /\ l.nodes[p[k]].prev = IF k = 1 THEN NoNode ELSE p[k - 1]
                        /\ l.nodes[p[k]].next = IF k = Len(p) THEN NoNode ELSE p[k + 1]
    BY <1>2 DEF Strung, Before, Behind
  <1>9. DOMAIN p = 1..c
    BY <1>2
  <1>10. l.tail = IF p = <<>> THEN NoNode ELSE p[Len(p)]
    <2>1. p = <<>> <=> Len(p) = 0
      BY <1>2
    <2> QED  BY <1>2, <2>1 DEF FinalOf
  <1> QED  BY <1>2, <1>5, <1>7, <1>8, <1>9, <1>10 DEF NodesOnce, s

LEMMA VectorInMemory ==
    ASSUME NEW S, NEW v, VectorKept(S, v)
    PROVE  InMemory(v)
  BY DEF VectorKept, InMemory, VectorsOf, Sound, Fit, Spent

LEMMA BytesInMemory ==
    ASSUME NEW b, BitsetKept(b)
    PROVE  InMemory(b.bits)
  BY DEF BitsetKept, BitsetsOf, InMemory, VectorsOf, Sound, Fit, Stored, Spent

LEMMA BitsetWellFormed ==
    ASSUME NEW b, BitsetKept(b), Covered(b)
    PROVE  b.bits.size = (b.size + Width - 1) \div Width
  <1> DEFINE n == b.size
             q == b.bits.size
             w == Width
             r == (n + w - 1) - w * q
  <1>1. b.bits \in VectorsOf(Bytes) /\ n \in Nat /\ q \in Nat /\ w \in Nat \ {0}
    BY ContainerAssumption DEF BitsetKept, BitsetsOf, VectorsOf, VectorOf
  <1>2. n <= w * q /\ w * q < n + w /\ w * q \in Nat
    BY <1>1, Products DEF Covered
  <1>3. r \in Nat /\ r < w /\ n + w - 1 = w * q + r
    <2> DEFINE x == w * q
    <2>1. n <= x /\ x < n + w /\ x \in Nat
      BY <1>2
    <2> HIDE DEF x, n, w
    <2>2. (n + w - 1) - x \in Nat /\ (n + w - 1) - x < w /\ n + w - 1 = x + ((n + w - 1) - x)
      BY <1>1, <2>1
    <2> QED  BY <2>2 DEF x
  <1> HIDE DEF r
  <1>4. (w * q + r) \div w = q
    BY <1>1, <1>3, Quotient
  <1> QED  BY <1>3, <1>4

(***************************************************************************)
(* Between two calls the containers are well formed: no node of a list is  *)
(* lost or in it twice, and those that wait are no part of it; a vector    *)
(* lies inside its memory, and a string ends with NUL; a bitset whose bits *)
(* were all stored, and none taken from it when it was empty, has the      *)
(* bytes its bits need, and any other lies inside its memory all the same  *)
(* (List.c:60, Vector.c:84, String.c:37, Bitset.c:407-431).                *)
(***************************************************************************)
THEOREM ContainersWellFormed ==
    ContainerSpec => []WellFormed
  <1>1. ContainerInit => ContainerInv
    BY ContainerBegins
  <1>2. ContainerInv /\ [ContainerNext]_containerVars => ContainerInv'
    <2> SUFFICES ASSUME ContainerInv, [ContainerNext]_containerVars
                 PROVE  ContainerInv'
      OBVIOUS
    <2>1. CASE ContainerNext
      BY <2>1, ContainerStep
    <2>2. CASE UNCHANGED containerVars
      BY <2>2, ContainerStutters
    <2> QED  BY <2>1, <2>2
  <1>3. ContainerInv => WellFormed
    <2> SUFFICES ASSUME ContainerInv
                 PROVE  WellFormed
      OBVIOUS
    <2>1. kind = "list" => NodesOnce(body)
      BY ListWellFormed DEF ContainerInv, ListInv
    <2>2. kind = "vector" => InMemory(body)
      BY VectorInMemory DEF ContainerInv, VectorInv
    <2>3. ASSUME kind = "string"
          PROVE  InMemory(body) /\ body.size > 0 /\ body.cells[body.size] = NUL
      <3>1. VectorKept(Characters, body) /\ Ended(body)
        BY <2>3 DEF ContainerInv, StringInv
      <3>2. body.size \in Nat
        BY <3>1 DEF VectorKept, VectorsOf, VectorOf
      <3> QED  BY <3>1, <3>2, VectorInMemory DEF Ended
    <2>4. kind \in {"bitset", "adrift"} => InMemory(body.bits)
      <3>1. kind \in {"bitset", "adrift"} => BitsetKept(body)
        BY DEF ContainerInv, BitsetInv, AdriftInv
      <3> QED  BY <3>1, BytesInMemory
    <2>5. kind = "bitset" => body.bits.size = (body.size + Width - 1) \div Width
      BY BitsetWellFormed DEF ContainerInv, BitsetInv
    <2> QED  BY <2>1, <2>2, <2>3, <2>4, <2>5 DEF WellFormed
  <1> QED  BY <1>1, <1>2, <1>3, PTL DEF ContainerSpec

(***************************************************************************)
(* In containers of any length and with any contents, a search finds the   *)
(* first occurrence, from the right the last one, that lies wholly in the  *)
(* part it is given, with and without regard to case; the binary search of *)
(* a sorted part ends at the first element that is not less; strings       *)
(* compare as equal only if they are (Vector.c:653-745,                    *)
(* String.c:566-924).                                                      *)
(***************************************************************************)
THEOREM ContainersSearch ==
    ContainerSpec => []SearchesExact
  <1>1. ContainerInit => ContainerInv
    BY ContainerBegins
  <1>2. ContainerInv /\ [ContainerNext]_containerVars => ContainerInv'
    <2> SUFFICES ASSUME ContainerInv, [ContainerNext]_containerVars
                 PROVE  ContainerInv'
      OBVIOUS
    <2>1. CASE ContainerNext
      BY <2>1, ContainerStep
    <2>2. CASE UNCHANGED containerVars
      BY <2>2, ContainerStutters
    <2> QED  BY <2>1, <2>2
  <1>3. ContainerInv => SearchesExact
    BY SearchesInArrays DEF ContainerInv
  <1> QED  BY <1>1, <1>2, <1>3, PTL DEF ContainerSpec
=============================================================================
