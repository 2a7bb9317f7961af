----------------------------- MODULE DListProofs -----------------------------
(***************************************************************************)
(* What the functions of list.h do to a list, as facts about sequences:    *)
(* lemmas about the operators of DList for every heap, every head and      *)
(* every list in it.  LinkedListProofs and SnippetProofs rest on them.     *)
(***************************************************************************)
EXTENDS DList, SequencesExt, SequenceTheorems, FiniteSetTheorems, WellFoundedInduction, TLAPS

(* The heaps over the cells C *)
HeapOf(C) == [next : [C -> C \cup {Null}], prev : [C -> C \cup {Null}]]

(* The cell at place k of the list s: its nodes have the places 1 to       *)
(* Len(s), and the head is before the first and behind the last of them.   *)
At(s, head, k) == IF k \in 1..Len(s) THEN s[k] ELSE head

(***************************************************************************)
(* The list of the head is the sequence s: no node is there twice or is    *)
(* the head, and next and prev lead from each place to the neighbours.     *)
(* Ring pointers alone would allow a second ring beside this one.          *)
(***************************************************************************)
IsList(h, head, s) ==
    /\ \A i, j \in 1..Len(s) : s[i] = s[j] => i = j
    /\ \A i \in 1..Len(s) : s[i] # head
    /\ \A k \in 0..Len(s) :
          /\ h.next[At(s, head, k)] = At(s, head, k + 1)
          /\ h.prev[At(s, head, k + 1)] = At(s, head, k)

-----------------------------------------------------------------------------
(* Sequences *)

LEMMA InsertAtElements ==
    ASSUME NEW C, NEW s \in Seq(C), NEW k \in 1..(Len(s) + 1), NEW x \in C
    PROVE  /\ InsertAt(s, k, x) \in Seq(C)
           /\ Len(InsertAt(s, k, x)) = Len(s) + 1
           /\ \A j \in 1..(k - 1) : InsertAt(s, k, x)[j] = s[j]
           /\ InsertAt(s, k, x)[k] = x
           /\ \A j \in k..Len(s) : InsertAt(s, k, x)[j + 1] = s[j]
  <1> DEFINE u == SubSeq(s, 1, k - 1)
             w == u \o <<x>>
             v == SubSeq(s, k, Len(s))
  <1>1. Len(s) \in Nat /\ s = [i \in 1..Len(s) |-> s[i]] /\ \A i \in 1..Len(s) : s[i] \in C
    OBVIOUS
  <1>2. u \in Seq(C) /\ Len(u) = k - 1 /\ \A i \in 1..(k - 1) : u[i] = s[i]
    BY <1>1
  <1>3. v \in Seq(C) /\ Len(v) = Len(s) - k + 1 /\ \A i \in 1..(Len(s) - k + 1) : v[i] = s[k + i - 1]
    BY <1>1
  <1>4. InsertAt(s, k, x) = w \o v
    BY DEF InsertAt
  <1> HIDE DEF u, v
  <1>5. w \in Seq(C) /\ Len(w) = k /\ w[k] = x /\ \A i \in 1..(k - 1) : w[i] = u[i]
    BY <1>2
  <1> HIDE DEF w
  <1> DEFINE y == w \o v
  <1>6. /\ y \in Seq(C) /\ Len(y) = Len(w) + Len(v)
        /\ \A i \in 1..(Len(w) + Len(v)) : y[i] = IF i <= Len(w) THEN w[i] ELSE v[i - Len(w)]
    BY <1>3, <1>5, ConcatProperties
  <1> HIDE DEF y
  <1>7. Len(s) \in Nat /\ Len(w) = k /\ Len(v) = Len(s) - k + 1 /\ k >= 1 /\ k <= Len(s) + 1
    BY <1>1, <1>3, <1>5
  <1>8. ASSUME NEW j \in 1..k
        PROVE  y[j] = w[j]
    <2>1. j \in 1..(Len(w) + Len(v)) /\ j <= Len(w)
      BY <1>7
    <2> QED  BY <1>6, <2>1
  <1>9. ASSUME NEW j \in k..Len(s)
        PROVE  y[j + 1] = s[j]
    <2>1. /\ j + 1 \in 1..(Len(w) + Len(v)) /\ ~(j + 1 <= Len(w))
          /\ (j + 1) - Len(w) \in 1..(Len(s) - k + 1) /\ k + ((j + 1) - Len(w)) - 1 = j
      BY <1>7
    <2>2. y[j + 1] = v[(j + 1) - Len(w)]
      BY <1>6, <2>1
    <2> QED  BY <1>3, <2>1, <2>2
  <1>10. k \in 1..k /\ (\A j \in 1..(k - 1) : j \in 1..k) /\ Len(w) + Len(v) = Len(s) + 1
    BY <1>7
  <1>11. /\ y \in Seq(C) /\ Len(y) = Len(s) + 1 /\ y[k] = x
         /\ \A j \in 1..(k - 1) : y[j] = s[j]
    BY <1>2, <1>5, <1>6, <1>8, <1>10
  <1> QED  BY <1>4, <1>9, <1>11 DEF y

LEMMA RemoveAtElements ==
    ASSUME NEW C, NEW s \in Seq(C), NEW k \in 1..Len(s)
    PROVE  /\ RemoveAt(s, k) \in Seq(C)
           /\ Len(RemoveAt(s, k)) = Len(s) - 1
           /\ \A j \in 1..(k - 1) : RemoveAt(s, k)[j] = s[j]
           /\ \A j \in k..(Len(s) - 1) : RemoveAt(s, k)[j] = s[j + 1]
  <1> DEFINE u == SubSeq(s, 1, k - 1)
             v == SubSeq(s, k + 1, Len(s))
  <1>1. Len(s) \in Nat /\ s = [i \in 1..Len(s) |-> s[i]] /\ \A i \in 1..Len(s) : s[i] \in C
    OBVIOUS
  <1>2. u \in Seq(C) /\ Len(u) = k - 1 /\ \A i \in 1..(k - 1) : u[i] = s[i]
    BY <1>1
  <1>3. v \in Seq(C) /\ Len(v) = Len(s) - k /\ \A i \in 1..(Len(s) - k) : v[i] = s[k + i]
    BY <1>1
  <1>4. RemoveAt(s, k) = u \o v
    BY DEF RemoveAt
  <1> HIDE DEF u, v
  <1> DEFINE y == u \o v
  <1>5. /\ y \in Seq(C) /\ Len(y) = Len(u) + Len(v)
        /\ \A i \in 1..(Len(u) + Len(v)) : y[i] = IF i <= Len(u) THEN u[i] ELSE v[i - Len(u)]
    BY <1>3, <1>2, ConcatProperties
  <1> HIDE DEF y
  <1>6. Len(s) \in Nat /\ Len(u) = k - 1 /\ Len(v) = Len(s) - k /\ k >= 1 /\ k <= Len(s)
    BY <1>1, <1>2, <1>3
  <1>7. ASSUME NEW j \in 1..(k - 1)
        PROVE  y[j] = s[j]
    <2>1. j \in 1..(Len(u) + Len(v)) /\ j <= Len(u)
      BY <1>6
    <2> QED  BY <1>2, <1>5, <2>1
  <1>8. ASSUME NEW j \in k..(Len(s) - 1)
        PROVE  y[j] = s[j + 1]
    <2>1. /\ j \in 1..(Len(u) + Len(v)) /\ ~(j <= Len(u))
          /\ j - Len(u) \in 1..(Len(s) - k) /\ k + (j - Len(u)) = j + 1
      BY <1>6
    <2>2. y[j] = v[j - Len(u)]
      BY <1>5, <2>1
    <2> QED  BY <1>3, <2>1, <2>2
  <1>9. Len(y) = Len(s) - 1
    BY <1>5, <1>6
  <1> QED  BY <1>4, <1>5, <1>7, <1>8, <1>9 DEF y

(* A sequence as a set of its nodes *)
LEMMA ListedNodes ==
    ASSUME NEW C, NEW s \in Seq(C)
    PROVE  /\ ToSet(s) \subseteq C
           /\ \A x : x \in ToSet(s) <=> \E i \in 1..Len(s) : s[i] = x
  BY DEF ToSet

(* What the edits do to the set of nodes *)
LEMMA InsertAtNodes ==
    ASSUME NEW C, NEW s \in Seq(C), NEW k \in 1..(Len(s) + 1), NEW x \in C
    PROVE  ToSet(InsertAt(s, k, x)) = ToSet(s) \cup {x}
  <1> DEFINE t == InsertAt(s, k, x)
  <1>1. /\ t \in Seq(C) /\ Len(t) = Len(s) + 1 /\ Len(s) \in Nat
        /\ \A j \in 1..(k - 1) : t[j] = s[j]
        /\ t[k] = x
        /\ \A j \in k..Len(s) : t[j + 1] = s[j]
    BY InsertAtElements
  <1> HIDE DEF t
  <1>2. ASSUME NEW y \in ToSet(t)
        PROVE  y \in ToSet(s) \cup {x}
    <2>1. PICK i \in 1..Len(t) : t[i] = y
      BY <1>1, ListedNodes
    <2>2. CASE i < k
      <3>1. i \in 1..(k - 1) /\ i \in 1..Len(s)
        BY <1>1, <2>2
      <3> QED  BY <1>1, <2>1, <3>1, ListedNodes
    <2>3. CASE i > k
      <3>1. i - 1 \in k..Len(s) /\ i - 1 \in 1..Len(s) /\ (i - 1) + 1 = i
        BY <1>1, <2>3
      <3>2. s[i - 1] = y
        BY <1>1, <2>1, <3>1
      <3> QED  BY <3>1, <3>2, ListedNodes
    <2> QED  BY <1>1, <2>1, <2>2, <2>3
  <1>3. x \in ToSet(t)
    BY <1>1, ListedNodes
  <1>4. ASSUME NEW y \in ToSet(s)
        PROVE  y \in ToSet(t)
    <2>1. PICK i \in 1..Len(s) : s[i] = y
      BY ListedNodes
    <2>2. CASE i < k
      <3>1. i \in 1..(k - 1) /\ i \in 1..Len(t)
        BY <1>1, <2>2
      <3> QED  BY <1>1, <2>1, <3>1, ListedNodes
    <2>3. CASE i >= k
      <3>1. i \in k..Len(s) /\ i + 1 \in 1..Len(t)
        BY <1>1, <2>3
      <3> QED  BY <1>1, <2>1, <3>1, ListedNodes
    <2> QED  BY <1>1, <2>2, <2>3
  <1> QED  BY <1>2, <1>3, <1>4 DEF t

LEMMA RemoveAtNodes ==
    ASSUME NEW C, NEW s \in Seq(C), NEW k \in 1..Len(s), \A i, j \in 1..Len(s) : s[i] = s[j] => i = j
    PROVE  ToSet(RemoveAt(s, k)) = ToSet(s) \ {s[k]}
  <1> DEFINE t == RemoveAt(s, k)
  <1>1. /\ t \in Seq(C) /\ Len(t) = Len(s) - 1 /\ Len(s) \in Nat
        /\ \A j \in 1..(k - 1) : t[j] = s[j]
        /\ \A j \in k..(Len(s) - 1) : t[j] = s[j + 1]
    BY RemoveAtElements
  <1> HIDE DEF t
  <1>2. ASSUME NEW y \in ToSet(t)
        PROVE  y \in ToSet(s) \ {s[k]}
    <2>1. PICK i \in 1..Len(t) : t[i] = y
      BY <1>1, ListedNodes
    <2>2. CASE i < k
      <3>1. i \in 1..(k - 1) /\ i \in 1..Len(s) /\ i # k
        BY <1>1, <2>2
      <3> QED  BY <1>1, <2>1, <3>1, ListedNodes
    <2>3. CASE i >= k
      <3>1. i \in k..(Len(s) - 1) /\ i + 1 \in 1..Len(s) /\ i + 1 # k
        BY <1>1, <2>3
      <3> QED  BY <1>1, <2>1, <3>1, ListedNodes
    <2> QED  BY <1>1, <2>2, <2>3
  <1>3. ASSUME NEW y \in ToSet(s) \ {s[k]}
        PROVE  y \in ToSet(t)
    <2>1. PICK i \in 1..Len(s) : s[i] = y
      BY ListedNodes
    <2>2. CASE i < k
      <3>1. i \in 1..(k - 1) /\ i \in 1..Len(t)
        BY <1>1, <2>2
      <3> QED  BY <1>1, <2>1, <3>1, ListedNodes
    <2>3. CASE i > k
      <3>1. i - 1 \in k..(Len(s) - 1) /\ i - 1 \in 1..Len(t) /\ (i - 1) + 1 = i
        BY <1>1, <2>3
      <3>2. t[i - 1] = y
        BY <1>1, <2>1, <3>1
      <3> QED  BY <1>1, <3>1, <3>2, ListedNodes
    <2> QED  BY <1>1, <1>3, <2>1, <2>2, <2>3
  <1> QED  BY <1>2, <1>3 DEF t

-----------------------------------------------------------------------------
(* Places *)

LEMMA PlaceTyped ==
    ASSUME NEW C, NEW s \in Seq(C), NEW head \in C, NEW k
    PROVE  At(s, head, k) \in C
  BY DEF At

(* Two places of a list are the same cell only when both are the head. *)
LEMMA PlacesDiffer ==
    ASSUME NEW C, NEW s \in Seq(C), NEW h, NEW head \in C, IsList(h, head, s),
           NEW i \in 0..(Len(s) + 1), NEW j \in 0..(Len(s) + 1), i # j,
           At(s, head, i) = At(s, head, j)
    PROVE  i \in {0, Len(s) + 1} /\ j \in {0, Len(s) + 1}
  BY DEF At, IsList

(* Where the pointers of a place lead *)
LEMMA Neighbours ==
    ASSUME NEW C, NEW s \in Seq(C), NEW h, NEW head \in C, IsList(h, head, s)
    PROVE  /\ \A k \in 0..Len(s) : h.next[At(s, head, k)] = At(s, head, k + 1)
           /\ \A k \in 1..(Len(s) + 1) : h.prev[At(s, head, k)] = At(s, head, k - 1)
  <1> SUFFICES ASSUME NEW k \in 1..(Len(s) + 1) PROVE h.prev[At(s, head, k)] = At(s, head, k - 1)
    BY DEF IsList
  <1>1. k - 1 \in 0..Len(s) /\ (k - 1) + 1 = k
    OBVIOUS
  <1> QED  BY <1>1 DEF IsList

-----------------------------------------------------------------------------
(* The functions of list.h *)

(***************************************************************************)
(* list_insert_before puts a node that is not in the list at the place of  *)
(* pos; before the head is behind the last.                                *)
(***************************************************************************)
LEMMA InsertBeforeIsList ==
    ASSUME NEW C, NEW h \in HeapOf(C), NEW head \in C, NEW s \in Seq(C), IsList(h, head, s),
           NEW node \in C \ {head}, node \notin ToSet(s), NEW k \in 1..(Len(s) + 1)
    PROVE  LET g == InsertBefore(h, node, At(s, head, k))
           IN  g \in HeapOf(C) /\ IsList(g, head, InsertAt(s, k, node))
  <1> DEFINE t == InsertAt(s, k, node)
             g == InsertBefore(h, node, At(s, head, k))
             n == Len(s)
  <1>1. /\ t \in Seq(C) /\ Len(t) = n + 1 /\ n \in Nat
        /\ \A j \in 1..(k - 1) : t[j] = s[j]
        /\ t[k] = node
        /\ \A j \in k..n : t[j + 1] = s[j]
    BY InsertAtElements
  <1>2. /\ At(s, head, k) \in C /\ At(s, head, k - 1) \in C
        /\ h.prev[At(s, head, k)] = At(s, head, k - 1)
    <2>1. Len(s) \in Nat /\ k - 1 \in 0..Len(s) /\ (k - 1) + 1 = k
      OBVIOUS
    <2> QED  BY <2>1, PlaceTyped DEF IsList
  <1>3. /\ g = [next |-> [h.next EXCEPT ![node] = At(s, head, k), ![At(s, head, k - 1)] = node],
                prev |-> [h.prev EXCEPT ![node] = At(s, head, k - 1), ![At(s, head, k)] = node]]
    BY <1>2 DEF InsertBefore
  <1>4. g \in HeapOf(C)
    BY <1>2, <1>3 DEF HeapOf
  <1>5. \A i \in 0..(n + 1) : At(s, head, i) # node
    BY ListedNodes DEF At
  <1>6. /\ \A j \in 0..(k - 1) : At(t, head, j) = At(s, head, j)
        /\ At(t, head, k) = node
        /\ \A j \in k..(n + 1) : At(t, head, j + 1) = At(s, head, j)
    <2> HIDE DEF t
    <2> QED  BY <1>1 DEF At
  <1>7. /\ \A i, j \in 1..Len(t) : t[i] = t[j] => i = j
        /\ \A i \in 1..Len(t) : t[i] # head
    <2>1. \A i \in 1..n : s[i] # node /\ s[i] # head
      BY ListedNodes DEF IsList
    <2>2. \A i, j \in 1..n : s[i] = s[j] => i = j
      BY DEF IsList
    <2> HIDE DEF t
    <2>3. ASSUME NEW i \in 1..(n + 1)
          PROVE  \/ i = k /\ t[i] = node
                 \/ \E p \in 1..n : t[i] = s[p] /\ ((p = i /\ i < k) \/ (p = i - 1 /\ i > k))
      <3>1. CASE i < k
        <4>1. i \in 1..(k - 1) /\ i \in 1..n
          BY <1>1, <3>1
        <4>2. t[i] = s[i]
          BY <1>1, <4>1
        <4> QED  BY <3>1, <4>1, <4>2
      <3>2. CASE i > k
        <4>1. i - 1 \in k..n /\ i - 1 \in 1..n /\ (i - 1) + 1 = i
          BY <1>1, <3>2
        <4> QED  BY <1>1, <3>2, <4>1
      <3> QED  BY <1>1, <3>1, <3>2
    <2>4. ASSUME NEW i \in 1..(n + 1), NEW j \in 1..(n + 1), t[i] = t[j]
          PROVE  i = j
      <3>1. CASE i = k \/ j = k
        BY <2>1, <2>3, <2>4, <3>1
      <3>2. CASE i # k /\ j # k
        <4>1. PICK p \in 1..n : t[i] = s[p] /\ ((p = i /\ i < k) \/ (p = i - 1 /\ i > k))
          BY <2>3, <3>2
        <4>2. PICK q \in 1..n : t[j] = s[q] /\ ((q = j /\ j < k) \/ (q = j - 1 /\ j > k))
          BY <2>3, <3>2
        <4>3. p = q
          BY <2>2, <2>4, <4>1, <4>2
        <4> QED  BY <1>1, <4>1, <4>2, <4>3
      <3> QED  BY <3>1, <3>2
    <2>5. \A i \in 1..(n + 1) : t[i] # head
      BY <2>1, <2>3
    <2> QED  BY <1>1, <2>4, <2>5
  <1>8. ASSUME NEW j \in 0..Len(t)
        PROVE  g.next[At(t, head, j)] = At(t, head, j + 1) /\ g.prev[At(t, head, j + 1)] = At(t, head, j)
    <2>1. j \in 0..(n + 1) /\ j + 1 \in 0..(n + 2)
      BY <1>1
    <2>2. CASE j < k - 1
      <3>1. j \in 0..n /\ At(t, head, j) = At(s, head, j) /\ At(t, head, j + 1) = At(s, head, j + 1)
        BY <1>1, <1>6, <2>1, <2>2
      <3>2. At(s, head, j) # At(s, head, k - 1) /\ At(s, head, j + 1) # At(s, head, k)
        BY <1>1, <2>1, <2>2, PlacesDiffer
      <3>3. /\ h.next[At(s, head, j)] = At(s, head, j + 1) /\ h.prev[At(s, head, j + 1)] = At(s, head, j)
            /\ At(s, head, j) \in C \ {node} /\ At(s, head, j + 1) \in C \ {node}
        BY <1>1, <1>5, <2>1, <2>2, PlaceTyped DEF IsList
      <3> HIDE DEF g, t
      <3> QED  BY <1>3, <3>1, <3>2, <3>3 DEF HeapOf
    <2>3. CASE j = k - 1
      <3>1. At(t, head, j) = At(s, head, k - 1) /\ At(t, head, j + 1) = node
        BY <1>1, <1>6, <2>1, <2>3
      <3>2. At(s, head, k) # node /\ At(s, head, k - 1) # node
        BY <1>5
      <3> HIDE DEF g, t
      <3> QED  BY <1>2, <1>3, <3>1, <3>2 DEF HeapOf
    <2>4. CASE j = k
      <3>1. At(t, head, j) = node /\ At(t, head, j + 1) = At(s, head, k)
        BY <1>1, <1>6, <2>1, <2>4
      <3>2. At(s, head, k) # node /\ At(s, head, k - 1) # node
        BY <1>5
      <3> HIDE DEF g, t
      <3> QED  BY <1>2, <1>3, <3>1, <3>2 DEF HeapOf
    <2>5. CASE j > k
      <3>1. j - 1 \in 0..n /\ At(t, head, j) = At(s, head, j - 1) /\ At(t, head, j + 1) = At(s, head, j)
        <4>1. j - 1 \in k..(n + 1) /\ (j - 1) + 1 = j /\ j \in k..(n + 1) /\ j - 1 \in 0..n
          BY <1>1, <2>1, <2>5
        <4> HIDE DEF t
        <4> QED  BY <1>6, <4>1
      <3>2. At(s, head, j - 1) # At(s, head, k - 1) /\ At(s, head, j) # At(s, head, k)
        <4>1. /\ j - 1 \in 0..(n + 1) /\ k - 1 \in 0..(n + 1) /\ j - 1 # k - 1 /\ j - 1 # n + 1 /\ j - 1 # 0
              /\ j \in 0..(n + 1) /\ k \in 0..(n + 1) /\ j # k /\ k # 0 /\ k # n + 1
          BY <1>1, <2>1, <2>5
        <4> QED  BY <4>1, PlacesDiffer
      <3>3. /\ h.next[At(s, head, j - 1)] = At(s, head, j) /\ h.prev[At(s, head, j)] = At(s, head, j - 1)
            /\ At(s, head, j - 1) \in C \ {node} /\ At(s, head, j) \in C \ {node}
        <4>1. j - 1 \in 0..n /\ (j - 1) + 1 = j /\ j - 1 \in 0..(n + 1) /\ j \in 0..(n + 1)
          BY <1>1, <2>1, <2>5
        <4> QED  BY <1>5, <4>1, PlaceTyped DEF IsList
      <3> HIDE DEF g, t
      <3> QED  BY <1>3, <3>1, <3>2, <3>3 DEF HeapOf
    <2> QED  BY <2>1, <2>2, <2>3, <2>4, <2>5
  <1> HIDE DEF g, t
  <1>9. IsList(g, head, t)
    BY <1>7, <1>8 DEF IsList
  <1> QED  BY <1>4, <1>9 DEF g, t

(* list_insert_after puts it behind pos; behind the head is before the     *)
(* first.                                                                  *)
LEMMA InsertAfterIsList ==
    ASSUME NEW C, NEW h \in HeapOf(C), NEW head \in C, NEW s \in Seq(C), IsList(h, head, s),
           NEW node \in C \ {head}, node \notin ToSet(s), NEW k \in 0..Len(s)
    PROVE  LET g == InsertAfter(h, node, At(s, head, k))
           IN  g \in HeapOf(C) /\ IsList(g, head, InsertAt(s, k + 1, node))
  <1>1. /\ k + 1 \in 1..(Len(s) + 1)
        /\ h.next[At(s, head, k)] = At(s, head, k + 1) /\ h.prev[At(s, head, k + 1)] = At(s, head, k)
    BY DEF IsList
  <1>2. InsertAfter(h, node, At(s, head, k)) = InsertBefore(h, node, At(s, head, k + 1))
    BY <1>1 DEF InsertAfter, InsertBefore
  <1> QED  BY <1>1, <1>2, InsertBeforeIsList

(* list_remove takes the node at a place out. *)
LEMMA RemoveNodeIsList ==
    ASSUME NEW C, NEW h \in HeapOf(C), NEW head \in C, NEW s \in Seq(C), IsList(h, head, s),
           NEW k \in 1..Len(s)
    PROVE  LET g == RemoveNode(h, s[k])
           IN  g \in HeapOf(C) /\ IsList(g, head, RemoveAt(s, k))
  <1> DEFINE t == RemoveAt(s, k)
             g == RemoveNode(h, s[k])
             n == Len(s)
  <1>1. /\ t \in Seq(C) /\ Len(t) = n - 1 /\ n \in Nat
        /\ \A j \in 1..(k - 1) : t[j] = s[j]
        /\ \A j \in k..(n - 1) : t[j] = s[j + 1]
    <2>1. n \in Nat
      OBVIOUS
    <2> QED  BY <2>1, RemoveAtElements
  <1>2. At(s, head, k) = s[k]
    BY DEF At
  <1>3. /\ At(s, head, k) \in C /\ At(s, head, k - 1) \in C /\ At(s, head, k + 1) \in C
        /\ h.prev[At(s, head, k)] = At(s, head, k - 1) /\ h.next[At(s, head, k)] = At(s, head, k + 1)
    BY <1>1, Neighbours, PlaceTyped
  <1>4. g = [next |-> [h.next EXCEPT ![At(s, head, k - 1)] = At(s, head, k + 1), ![At(s, head, k)] = Null],
             prev |-> [h.prev EXCEPT ![At(s, head, k + 1)] = At(s, head, k - 1), ![At(s, head, k)] = Null]]
    BY <1>2, <1>3 DEF RemoveNode
  <1>5. g \in HeapOf(C)
    BY <1>3, <1>4 DEF HeapOf
  <1>6. /\ \A j \in 0..(k - 1) : At(t, head, j) = At(s, head, j)
        /\ \A j \in k..n : At(t, head, j) = At(s, head, j + 1)
    <2> HIDE DEF t
    <2> QED  BY <1>1 DEF At
  <1>7. /\ \A i, j \in 1..Len(t) : t[i] = t[j] => i = j
        /\ \A i \in 1..Len(t) : t[i] # head
    <2>1. /\ \A i \in 1..n : s[i] # head
          /\ \A i, j \in 1..n : s[i] = s[j] => i = j
      BY DEF IsList
    <2> HIDE DEF t
    <2>2. ASSUME NEW i \in 1..(n - 1)
          PROVE  \E p \in 1..n : t[i] = s[p] /\ ((p = i /\ i < k) \/ (p = i + 1 /\ i >= k))
      <3>1. CASE i < k
        <4>1. i \in 1..(k - 1) /\ i \in 1..n
          BY <1>1, <3>1
        <4> QED  BY <1>1, <3>1, <4>1
      <3>2. CASE i >= k
        <4>1. i \in k..(n - 1) /\ i + 1 \in 1..n
          BY <1>1, <3>2
        <4> QED  BY <1>1, <3>2, <4>1
      <3> QED  BY <1>1, <3>1, <3>2
    <2>3. ASSUME NEW i \in 1..(n - 1), NEW j \in 1..(n - 1), t[i] = t[j]
          PROVE  i = j
      <3>1. PICK p \in 1..n : t[i] = s[p] /\ ((p = i /\ i < k) \/ (p = i + 1 /\ i >= k))
        BY <2>2
      <3>2. PICK q \in 1..n : t[j] = s[q] /\ ((q = j /\ j < k) \/ (q = j + 1 /\ j >= k))
        BY <2>2
      <3>3. p = q
        BY <2>1, <2>3, <3>1, <3>2
      <3> QED  BY <1>1, <3>1, <3>2, <3>3
    <2>4. \A i \in 1..(n - 1) : t[i] # head
      BY <2>1, <2>2
    <2> QED  BY <1>1, <2>3, <2>4
  <1>8. ASSUME NEW j \in 0..Len(t)
        PROVE  g.next[At(t, head, j)] = At(t, head, j + 1) /\ g.prev[At(t, head, j + 1)] = At(t, head, j)
    <2>1. j \in 0..(n - 1) /\ At(s, head, k) # At(s, head, k - 1) /\ At(s, head, k) # At(s, head, k + 1)
      <3>1. k \in 0..(n + 1) /\ k - 1 \in 0..(n + 1) /\ k + 1 \in 0..(n + 1) /\ k # 0 /\ k # n + 1
        BY <1>1
      <3> QED  BY <1>1, <3>1, PlacesDiffer
    <2>2. CASE j < k - 1
      <3>1. /\ j \in 0..(k - 1) /\ j + 1 \in 0..(k - 1) /\ j \in 0..n
            /\ j \in 0..(n + 1) /\ j + 1 \in 0..(n + 1) /\ k \in 0..(n + 1)
            /\ k - 1 \in 0..(n + 1) /\ k + 1 \in 0..(n + 1)
            /\ k # 0 /\ k # n + 1 /\ j # k - 1 /\ k - 1 # 0 /\ k - 1 # n + 1
            /\ j + 1 # k + 1 /\ j + 1 # 0 /\ j + 1 # n + 1 /\ j # k /\ j + 1 # k
        BY <1>1, <2>1, <2>2
      <3>2. At(t, head, j) = At(s, head, j) /\ At(t, head, j + 1) = At(s, head, j + 1)
        BY <1>6, <3>1
      <3>3. /\ At(s, head, j) # At(s, head, k - 1) /\ At(s, head, j + 1) # At(s, head, k + 1)
            /\ At(s, head, j) # At(s, head, k) /\ At(s, head, j + 1) # At(s, head, k)
        BY <3>1, PlacesDiffer
      <3>4. h.next[At(s, head, j)] = At(s, head, j + 1) /\ h.prev[At(s, head, j + 1)] = At(s, head, j)
        BY <3>1 DEF IsList
      <3>5. At(s, head, j) \in C /\ At(s, head, j + 1) \in C
        BY PlaceTyped
      <3> HIDE DEF g, t
      <3> QED  BY <1>4, <3>2, <3>3, <3>4, <3>5 DEF HeapOf
    <2>3. CASE j = k - 1
      <3>1. At(t, head, j) = At(s, head, k - 1) /\ At(t, head, j + 1) = At(s, head, k + 1)
        <4>1. j \in 0..(k - 1) /\ j + 1 = k /\ k \in k..n
          BY <1>1, <2>3
        <4> HIDE DEF t
        <4> QED  BY <1>6, <2>3, <4>1
      <3> HIDE DEF g, t
      <3> QED  BY <1>3, <1>4, <2>1, <3>1 DEF HeapOf
    <2>4. CASE j > k - 1
      <3>1. /\ j \in k..n /\ j + 1 \in k..n /\ (j + 1) + 1 = j + 2 /\ j + 1 \in 0..n
            /\ j + 1 \in 0..(n + 1) /\ j + 2 \in 0..(n + 1) /\ k \in 0..(n + 1)
            /\ k - 1 \in 0..(n + 1) /\ k + 1 \in 0..(n + 1)
            /\ k # 0 /\ k # n + 1 /\ j + 1 # k - 1 /\ j + 1 # 0 /\ j + 1 # n + 1
            /\ j + 2 # k + 1 /\ k + 1 # 0 /\ k + 1 # n + 1 /\ j + 1 # k /\ j + 2 # k
        BY <1>1, <2>1, <2>4
      <3>2. At(t, head, j) = At(s, head, j + 1) /\ At(t, head, j + 1) = At(s, head, j + 2)
        BY <1>6, <3>1
      <3>3. /\ At(s, head, j + 1) # At(s, head, k - 1) /\ At(s, head, j + 2) # At(s, head, k + 1)
            /\ At(s, head, j + 1) # At(s, head, k) /\ At(s, head, j + 2) # At(s, head, k)
        BY <3>1, PlacesDiffer
      <3>4. h.next[At(s, head, j + 1)] = At(s, head, j + 2) /\ h.prev[At(s, head, j + 2)] = At(s, head, j + 1)
        BY <3>1 DEF IsList
      <3>5. At(s, head, j + 1) \in C /\ At(s, head, j + 2) \in C
        BY PlaceTyped
      <3> HIDE DEF g, t
      <3> QED  BY <1>4, <3>2, <3>3, <3>4, <3>5 DEF HeapOf
    <2> QED  BY <2>1, <2>2, <2>3, <2>4
  <1> HIDE DEF g, t
  <1>9. IsList(g, head, t)
    BY <1>7, <1>8 DEF IsList
  <1> QED  BY <1>5, <1>9 DEF g, t

(* list_replace gives the place of the old node to a new one. *)
LEMMA ReplaceNodeIsList ==
    ASSUME NEW C, NEW h \in HeapOf(C), NEW head \in C, NEW s \in Seq(C), IsList(h, head, s),
           NEW k \in 1..Len(s), NEW new \in C \ {head}, new \notin ToSet(s)
    PROVE  LET g == ReplaceNode(h, s[k], new)
           IN  g \in HeapOf(C) /\ IsList(g, head, [s EXCEPT ![k] = new])
  <1> DEFINE t == [s EXCEPT ![k] = new]
             g == ReplaceNode(h, s[k], new)
             n == Len(s)
  <1>1. /\ t \in Seq(C) /\ Len(t) = n /\ n \in Nat /\ t[k] = new
        /\ \A j \in 1..n : j # k => t[j] = s[j]
    OBVIOUS
  <1>2. At(s, head, k) = s[k]
    BY DEF At
  <1>3. /\ At(s, head, k - 1) \in C /\ At(s, head, k + 1) \in C
        /\ h.prev[At(s, head, k)] = At(s, head, k - 1) /\ h.next[At(s, head, k)] = At(s, head, k + 1)
    BY <1>1, Neighbours, PlaceTyped
  <1>4. g = [next |-> [h.next EXCEPT ![new] = At(s, head, k + 1), ![At(s, head, k - 1)] = new],
             prev |-> [h.prev EXCEPT ![new] = At(s, head, k - 1), ![At(s, head, k + 1)] = new]]
    BY <1>2, <1>3 DEF ReplaceNode
  <1>5. g \in HeapOf(C)
    BY <1>3, <1>4 DEF HeapOf
  <1>6. /\ \A j \in 0..(n + 1) : j # k => At(t, head, j) = At(s, head, j)
        /\ At(t, head, k) = new
        /\ \A j \in 0..(n + 1) : At(s, head, j) # new
    <2>1. \A i \in 1..n : s[i] # new
      BY ListedNodes
    <2> HIDE DEF t
    <2> QED  BY <1>1, <2>1 DEF At
  <1>7. /\ \A i, j \in 1..Len(t) : t[i] = t[j] => i = j
        /\ \A i \in 1..Len(t) : t[i] # head
    <2>1. /\ \A i \in 1..n : s[i] # head /\ s[i] # new
          /\ \A i, j \in 1..n : s[i] = s[j] => i = j
      BY ListedNodes DEF IsList
    <2> HIDE DEF t
    <2> QED  BY <1>1, <2>1
  <1>8. ASSUME NEW j \in 0..Len(t)
        PROVE  g.next[At(t, head, j)] = At(t, head, j + 1) /\ g.prev[At(t, head, j + 1)] = At(t, head, j)
    <2>1. CASE j = k - 1
      <3>1. At(t, head, j) = At(s, head, k - 1) /\ At(t, head, j + 1) = new
        <4>1. j \in 0..(n + 1) /\ j # k /\ j + 1 = k
          BY <1>1, <2>1
        <4> HIDE DEF t
        <4> QED  BY <1>6, <2>1, <4>1
      <3>2. At(s, head, k + 1) # new
        <4>1. k + 1 \in 0..(n + 1)
          BY <1>1
        <4> QED  BY <1>6, <4>1
      <3> HIDE DEF g, t
      <3> QED  BY <1>3, <1>4, <3>1, <3>2 DEF HeapOf
    <2>2. CASE j = k
      <3>1. At(t, head, j) = new /\ At(t, head, j + 1) = At(s, head, k + 1)
        <4>1. k + 1 \in 0..(n + 1) /\ k + 1 # k
          BY <1>1
        <4> HIDE DEF t
        <4> QED  BY <1>6, <2>2, <4>1
      <3>2. At(s, head, k - 1) # new
        <4>1. k - 1 \in 0..(n + 1)
          BY <1>1
        <4> QED  BY <1>6, <4>1
      <3> HIDE DEF g, t
      <3> QED  BY <1>3, <1>4, <3>1, <3>2 DEF HeapOf
    <2>3. CASE j # k - 1 /\ j # k
      <3>1. /\ j \in 0..n /\ j \in 0..(n + 1) /\ j + 1 \in 0..(n + 1) /\ j + 1 # k
            /\ k - 1 \in 0..(n + 1) /\ k + 1 \in 0..(n + 1)
        BY <1>1, <2>3
      <3>2. At(t, head, j) = At(s, head, j) /\ At(t, head, j + 1) = At(s, head, j + 1)
        BY <1>6, <2>3, <3>1
      <3>3. At(s, head, j) # At(s, head, k - 1) /\ At(s, head, j + 1) # At(s, head, k + 1)
        <4>1. /\ k - 1 # n + 1 /\ j # n + 1 /\ (j = 0 => k - 1 # 0)
              /\ j + 1 # 0 /\ k + 1 # 0 /\ j + 1 # k + 1 /\ (j + 1 = n + 1 => k + 1 # n + 1)
          BY <1>1, <2>3, <3>1
        <4> QED  BY <2>3, <3>1, <4>1, PlacesDiffer
      <3>4. h.next[At(s, head, j)] = At(s, head, j + 1) /\ h.prev[At(s, head, j + 1)] = At(s, head, j)
        BY <3>1 DEF IsList
      <3>5. At(s, head, j) \in C \ {new} /\ At(s, head, j + 1) \in C \ {new}
        BY <1>6, <3>1, PlaceTyped
      <3> HIDE DEF g, t
      <3> QED  BY <1>4, <3>2, <3>3, <3>4, <3>5 DEF HeapOf
    <2> QED  BY <2>1, <2>2, <2>3
  <1> HIDE DEF g, t
  <1>9. IsList(g, head, t)
    BY <1>7, <1>8 DEF IsList
  <1> QED  BY <1>5, <1>9 DEF g, t

(* u is s with x put in at place k. *)
Inserted(u, s, k, x) ==
    /\ Len(u) = Len(s) + 1
    /\ \A j \in 1..(k - 1) : u[j] = s[j]
    /\ u[k] = x
    /\ \A j \in k..Len(s) : u[j + 1] = s[j]

LEMMA InsertAtInserts ==
    ASSUME NEW C, NEW s \in Seq(C), NEW k \in 1..(Len(s) + 1), NEW x \in C
    PROVE  InsertAt(s, k, x) \in Seq(C) /\ Inserted(InsertAt(s, k, x), s, k, x)
  BY InsertAtElements DEF Inserted

(* s without its j-th element, which has replaced the i-th one *)
Overwritten(s, i, j) == [RemoveAt(s, j) EXCEPT ![IF i < j THEN i ELSE i - 1] = s[j]]

Exchanged(s, i, j) == [s EXCEPT ![i] = s[j], ![j] = s[i]]

(* Out of its place, into the other one, and the other back into the first:*)
(* two nodes are exchanged.                                                *)
LEMMA SwappedElements ==
    ASSUME NEW C, NEW s \in Seq(C), NEW i \in 1..Len(s), NEW j \in 1..Len(s), i # j
    PROVE  InsertAt(Overwritten(s, i, j), j, s[i]) = Exchanged(s, i, j)
  <1> DEFINE n == Len(s)
             p == IF i < j THEN i ELSE i - 1
             r == Exchanged(s, i, j)
             t1 == RemoveAt(s, j)
             t2 == Overwritten(s, i, j)
             t == InsertAt(t2, j, s[i])
  <1>1. n \in Nat /\ p \in 1..(n - 1) /\ (i < j => p = i) /\ (i > j => p = i - 1) /\ s[i] \in C /\ s[j] \in C
    OBVIOUS
  <1>2. /\ t1 \in Seq(C) /\ Len(t1) = n - 1
        /\ \A k \in 1..(j - 1) : t1[k] = s[k]
        /\ \A k \in j..(n - 1) : t1[k] = s[k + 1]
    BY RemoveAtElements
  <1> HIDE DEF t1
  <1>3. /\ t2 \in Seq(C) /\ Len(t2) = n - 1 /\ t2[p] = s[j]
        /\ \A k \in 1..(n - 1) : k # p => t2[k] = t1[k]
    BY <1>1, <1>2 DEF Overwritten, t1
  <1> HIDE DEF t2
  <1>4. /\ r \in Seq(C) /\ Len(r) = n /\ r[i] = s[j] /\ r[j] = s[i]
        /\ \A k \in 1..n : k # i /\ k # j => r[k] = s[k]
    BY <1>1 DEF Exchanged
  <1> HIDE DEF r, p
  <1>5. j \in 1..(Len(t2) + 1)
    BY <1>1, <1>3
  <1>6. t \in Seq(C) /\ Inserted(t, t2, j, s[i])
    BY <1>1, <1>3, <1>5, InsertAtInserts
  <1> HIDE DEF t
  <1>7. ASSUME NEW k \in 1..n
        PROVE  t[k] = r[k]
    <2>1. CASE k = j
      BY <1>4, <1>6, <2>1 DEF Inserted
    <2>2. CASE k < j
      <3>1. k \in 1..(j - 1) /\ k \in 1..(n - 1) /\ k # j
        BY <1>1, <2>2
      <3>t. t[k] = t2[k]
        BY <1>6, <3>1 DEF Inserted
      <3>2. CASE k = p
        <4>1. k = i
          BY <1>1, <2>2, <3>2
        <4> QED  BY <1>3, <1>4, <3>1, <3>2, <3>t, <4>1
      <3>3. CASE k # p
        <4>1. k # i
          BY <1>1, <2>2, <3>3
        <4>2. t[k] = t1[k]
          BY <1>3, <3>1, <3>3, <3>t
        <4>3. t1[k] = s[k]
          BY <1>2, <3>1
        <4> QED  BY <1>4, <3>1, <4>1, <4>2, <4>3
      <3> QED  BY <3>2, <3>3
    <2>3. CASE k > j
      <3>1. k - 1 \in j..(n - 1) /\ k - 1 \in j..Len(t2) /\ k - 1 \in 1..(n - 1) /\ (k - 1) + 1 = k /\ k # j
        BY <1>1, <1>3, <2>3
      <3>t. t[k] = t2[k - 1]
        BY <1>6, <3>1 DEF Inserted
      <3>2. CASE k - 1 = p
        <4>1. k = i
          BY <1>1, <2>3, <3>2
        <4> QED  BY <1>3, <1>4, <3>1, <3>2, <3>t, <4>1
      <3>3. CASE k - 1 # p
        <4>1. k # i
          BY <1>1, <2>3, <3>3
        <4>2. t[k] = t1[k - 1]
          BY <1>3, <3>1, <3>3, <3>t
        <4>3. t1[k - 1] = s[k]
          BY <1>2, <3>1
        <4> QED  BY <1>4, <3>1, <4>1, <4>2, <4>3
      <3> QED  BY <3>2, <3>3
    <2> QED  BY <1>1, <2>1, <2>2, <2>3
  <1>8. Len(t) = n
    BY <1>1, <1>3, <1>6 DEF Inserted
  <1>9. t = r
    BY <1>4, <1>6, <1>7, <1>8, SeqEqual
  <1> QED  BY <1>9 DEF r, t, t2

(***************************************************************************)
(* list_swap exchanges the nodes at two places and moves no other, also    *)
(* when they are neighbours, in either order.                              *)
(***************************************************************************)
LEMMA SwapNodesIsList ==
    ASSUME NEW C, NEW h \in HeapOf(C), NEW head \in C, NEW s \in Seq(C), IsList(h, head, s),
           NEW i \in 1..Len(s), NEW j \in 1..Len(s), i # j
    PROVE  LET g == SwapNodes(h, s[i], s[j])
           IN  g \in HeapOf(C) /\ IsList(g, head, [s EXCEPT ![i] = s[j], ![j] = s[i]])
  <1> DEFINE n  == Len(s)
             p  == IF i < j THEN i ELSE i - 1
             t1 == RemoveAt(s, j)
             t2 == [t1 EXCEPT ![p] = s[j]]
             t3 == InsertAt(t2, j, s[i])
             h1 == RemoveNode(h, s[j])
             h2 == ReplaceNode(h1, s[i], s[j])
             pos == IF h.prev[s[j]] = s[i] THEN s[j] ELSE h.prev[s[j]]
  <1>1. /\ n \in Nat /\ p \in 1..(n - 1) /\ (i < j => p = i) /\ (i > j => p = i - 1 /\ p >= j)
        /\ s[i] \in C \ {head} /\ s[j] \in C \ {head} /\ s[i] # s[j]
    BY DEF IsList
  <1>2. /\ t1 \in Seq(C) /\ Len(t1) = n - 1
        /\ \A k \in 1..(j - 1) : t1[k] = s[k]
        /\ \A k \in j..(n - 1) : t1[k] = s[k + 1]
        /\ ToSet(t1) = ToSet(s) \ {s[j]}
    <2>1. ToSet(t1) = ToSet(s) \ {s[j]}
      BY RemoveAtNodes DEF IsList
    <2> QED  BY <2>1, RemoveAtElements
  <1>3. h1 \in HeapOf(C) /\ IsList(h1, head, t1)
    BY RemoveNodeIsList
  <1>4. t1[p] = s[i]
    <2>1. CASE i < j
      <3>1. p \in 1..(j - 1)
        BY <1>1, <2>1
      <3> QED  BY <1>1, <1>2, <2>1, <3>1
    <2>2. CASE i > j
      <3>1. p \in j..(n - 1) /\ p + 1 = i
        BY <1>1, <2>2
      <3> QED  BY <1>2, <3>1
    <2> QED  BY <2>1, <2>2
  <1> HIDE DEF p, t1, h1
  <1>5. h2 \in HeapOf(C) /\ IsList(h2, head, t2)
    <2>1. p \in 1..Len(t1) /\ s[j] \notin ToSet(t1)
      BY <1>1, <1>2
    <2> QED  BY <1>1, <1>2, <1>3, <1>4, <2>1, ReplaceNodeIsList
  <1>6. /\ t2 \in Seq(C) /\ Len(t2) = n - 1 /\ t2[p] = s[j]
        /\ \A k \in 1..(n - 1) : k # p => t2[k] = t1[k]
    BY <1>1, <1>2
  <1> HIDE DEF t2, h2
  <1>7. s[i] \notin ToSet(t2)
    <2>1. ASSUME NEW k \in 1..(n - 1), k # p
          PROVE  t1[k] # t1[p]
      BY <1>1, <1>2, <1>3, <2>1 DEF IsList
    <2>2. \A k \in 1..(n - 1) : t2[k] # s[i]
      BY <1>1, <1>4, <1>6, <2>1
    <2> QED  BY <1>6, <2>2, ListedNodes
  <1>8. j - 1 \in 0..Len(t2) /\ (j - 1) + 1 = j /\ pos = At(t2, head, j - 1)
    <2>1. j - 1 \in 0..Len(t2) /\ (j - 1) + 1 = j
      BY <1>1, <1>6
    <2>2. h.prev[s[j]] = At(s, head, j - 1)
      <3>1. At(s, head, j) = s[j] /\ j \in 1..(n + 1)
        BY <1>1 DEF At
      <3> QED  BY <3>1, Neighbours
    <2>3. CASE j = 1
      <3>1. At(s, head, j - 1) = head /\ At(t2, head, j - 1) = head
        BY <2>3 DEF At
      <3> QED  BY <1>1, <2>1, <2>2, <3>1
    <2>4. CASE j # 1
      <3>1. j - 1 \in 1..n /\ j - 1 \in 1..(n - 1) /\ j - 1 \in 1..(j - 1) /\ j - 1 \in 1..Len(t2)
        BY <1>1, <1>6, <2>4
      <3>2. h.prev[s[j]] = s[j - 1] /\ At(t2, head, j - 1) = t2[j - 1]
        BY <2>2, <3>1 DEF At
      <3>3. CASE i = j - 1
        BY <1>1, <1>6, <2>1, <3>2, <3>3
      <3>4. CASE i # j - 1
        <4>1. s[j - 1] # s[i] /\ j - 1 # p
          BY <1>1, <3>1, <3>4 DEF IsList
        <4> QED  BY <1>2, <1>6, <2>1, <3>1, <3>2, <4>1
      <3> QED  BY <3>3, <3>4
    <2> QED  BY <2>3, <2>4
  <1> HIDE DEF pos
  <1>9. InsertAfter(h2, s[i], pos) \in HeapOf(C) /\ IsList(InsertAfter(h2, s[i], pos), head, t3)
    BY <1>1, <1>5, <1>6, <1>7, <1>8, InsertAfterIsList
  <1>10. SwapNodes(h, s[i], s[j]) = InsertAfter(h2, s[i], pos)
    BY DEF SwapNodes, h1, h2, pos
  <1>11. t3 = [s EXCEPT ![i] = s[j], ![j] = s[i]]
    <2>1. t2 = Overwritten(s, i, j)
      BY DEF t1, t2, p, Overwritten
    <2>2. InsertAt(Overwritten(s, i, j), j, s[i]) = Exchanged(s, i, j)
      BY SwappedElements
    <2> QED  BY <2>1, <2>2 DEF Exchanged
  <1> QED  BY <1>9, <1>10, <1>11

-----------------------------------------------------------------------------
(* Heaps *)

(* list_init makes an empty list, whatever the head pointed to. *)
LEMMA ListInitIsList ==
    ASSUME NEW C, NEW h \in HeapOf(C), NEW head \in C
    PROVE  ListInit(h, head) \in HeapOf(C) /\ IsList(ListInit(h, head), head, << >>)
  BY DEF HeapOf, ListInit, IsList, At

LEMMA EmptyHeapTyped ==
    ASSUME NEW C
    PROVE  EmptyHeap(C) \in HeapOf(C)
  BY DEF EmptyHeap, HeapOf

(* A list is in its own cells: what happens to others leaves it alone. *)
LEMMA OtherCells ==
    ASSUME NEW C, NEW s \in Seq(C), NEW head \in C, NEW h, NEW g, IsList(h, head, s),
           \A c \in ToSet(s) \cup {head} : g.next[c] = h.next[c] /\ g.prev[c] = h.prev[c]
    PROVE  IsList(g, head, s)
  <1>1. \A k : At(s, head, k) \in ToSet(s) \cup {head}
    BY ListedNodes DEF At
  <1> QED  BY <1>1 DEF IsList

-----------------------------------------------------------------------------
(* Traversals *)

(* The equation of Steps as a function of its own *)
StepFrom(h, head, walk, k) ==
    IF k = 0 THEN head ELSE IF walk[k - 1] = Null THEN Null ELSE h.next[walk[k - 1]]

LEMMA LeastNumber ==
    ASSUME NEW T \in SUBSET Nat, T # {}
    PROVE  \E x \in T : \A y \in T : x <= y
  <1>1. PICK x \in T : \A y \in T : ~(<<y, x>> \in OpToRel(<, Nat))
    BY NatLessThanWellFounded, WFMin
  <1>2. \A y \in T : ~(y < x)
    BY <1>1 DEF OpToRel
  <1> QED  BY <1>2

(* There is a function that fulfils the equation up to n. *)
LEMMA StepsExist ==
    ASSUME NEW h, NEW head, NEW n \in Nat
    PROVE  \E w : w = [k \in 0..n |-> StepFrom(h, head, w, k)]
  <1> DEFINE Walked(m) == \E w : w = [k \in 0..m |-> StepFrom(h, head, w, k)]
             T == {m \in Nat : ~Walked(m)}
  <1> SUFFICES ASSUME T # {} PROVE FALSE
    OBVIOUS
  <1>1. PICK m \in T : \A y \in T : m <= y
    BY LeastNumber
  <1>2. CASE m = 0
    <2> DEFINE w == [k \in 0..0 |-> head]
    <2>1. w = [k \in 0..0 |-> StepFrom(h, head, w, k)]
      BY DEF StepFrom
    <2> QED  BY <1>2, <2>1
  <1>3. CASE m # 0
    <2>1. m - 1 \in Nat /\ m - 1 \notin T
      BY <1>1, <1>3
    <2>2. PICK w : w = [k \in 0..(m - 1) |-> StepFrom(h, head, w, k)]
      BY <2>1
    <2> DEFINE v == [k \in 0..m |-> IF k = m THEN StepFrom(h, head, w, m) ELSE w[k]]
    <2>3. \A k \in 0..m : v[k] = StepFrom(h, head, v, k)
      <3> TAKE k \in 0..m
      <3>1. k \in Nat /\ (k # 0 => k - 1 \in 0..(m - 1) /\ v[k - 1] = w[k - 1])
        BY <1>1
      <3>2. StepFrom(h, head, v, k) = StepFrom(h, head, w, k)
        BY <3>1 DEF StepFrom
      <3>3. CASE k = m
        BY <3>2, <3>3
      <3>4. CASE k # m
        <4>1. k \in 0..(m - 1)
          BY <3>4, <1>1
        <4>2. w[k] = StepFrom(h, head, w, k)
          BY <2>2, <4>1
        <4> QED  BY <3>2, <3>4, <4>2
      <3> QED  BY <3>3, <3>4
    <2>4. v = [k \in 0..m |-> StepFrom(h, head, v, k)]
      BY <2>3
    <2> QED  BY <2>4, <1>1
  <1> QED  BY <1>2, <1>3

LEMMA StepsEquation ==
    ASSUME NEW h, NEW head, Cardinality(DOMAIN h.next) \in Nat
    PROVE  \A k \in 0..Cardinality(DOMAIN h.next) : Steps(h, head)[k] = StepFrom(h, head, Steps(h, head), k)
  <1> DEFINE F(w) == w = [k \in 0..Cardinality(DOMAIN h.next) |-> StepFrom(h, head, w, k)]
  <1>1. \E w : F(w)
    BY StepsExist
  <1>2. Steps(h, head) = CHOOSE w : F(w)
    BY DEF Steps, StepFrom
  <1>3. F(Steps(h, head))
    BY <1>1, <1>2
  <1> QED  BY <1>3

(* A list has fewer nodes than there are cells. *)
LEMMA ListFits ==
    ASSUME NEW C, IsFiniteSet(C), NEW s \in Seq(C), NEW h, NEW head \in C, IsList(h, head, s)
    PROVE  Cardinality(C) \in Nat /\ Len(s) + 1 <= Cardinality(C)
  <1> DEFINE S == 0..Len(s)
             f == [k \in S |-> At(s, head, k)]
  <1>1. Len(s) \in Nat
    OBVIOUS
  <1>2. f \in [S -> C]
    BY PlaceTyped
  <1>3. ASSUME NEW i \in S, NEW j \in S, f[i] = f[j]
        PROVE  i = j
    <2>1. i \in 0..(Len(s) + 1) /\ j \in 0..(Len(s) + 1) /\ i # Len(s) + 1 /\ j # Len(s) + 1
      BY <1>1
    <2> QED  BY <1>3, <2>1, PlacesDiffer
  <1>4. f \in Injection(S, C)
    BY <1>2, <1>3, Zenon DEF Injection, IsInjective
  <1>5. Cardinality(S) <= Cardinality(C)
    BY <1>4, FS_Injection
  <1>6. Cardinality(S) = Len(s) + 1
    BY <1>1, FS_Interval
  <1> QED  BY <1>5, <1>6, FS_CardinalityType

(* The k-th step of a traversal is at place k. *)
LEMMA StepsOfList ==
    ASSUME NEW C, IsFiniteSet(C), Null \notin C, NEW h \in HeapOf(C), NEW head \in C,
           NEW s \in Seq(C), IsList(h, head, s)
    PROVE  \A k \in 0..(Len(s) + 1) : Steps(h, head)[k] = At(s, head, k)
  <1> DEFINE w == Steps(h, head)
             N == Cardinality(C)
             T == {k \in 0..(Len(s) + 1) : w[k] # At(s, head, k)}
  <1> SUFFICES ASSUME T # {} PROVE FALSE
    OBVIOUS
  <1>1. N \in Nat /\ Len(s) + 1 <= N /\ Len(s) \in Nat /\ DOMAIN h.next = C
    BY ListFits DEF HeapOf
  <1> HIDE DEF N
  <1>2. \A k \in 0..N : w[k] = StepFrom(h, head, w, k)
    BY <1>1, StepsEquation DEF N
  <1> HIDE DEF w
  <1>3. PICK m \in T : \A y \in T : m <= y
    <2>1. T \in SUBSET Nat
      BY <1>1
    <2> HIDE DEF T
    <2> QED  BY <2>1, LeastNumber
  <1>4. CASE m = 0
    <2>1. w[0] = head /\ At(s, head, 0) = head
      BY <1>1, <1>2 DEF StepFrom, At
    <2> QED  BY <1>4, <2>1
  <1>5. CASE m # 0
    <2>1. m - 1 \in 0..Len(s) /\ m - 1 \in 0..(Len(s) + 1) /\ m \in 0..N /\ (m - 1) + 1 = m
      BY <1>1, <1>5
    <2>2. w[m - 1] = At(s, head, m - 1)
      BY <1>1, <1>3, <2>1
    <2>3. w[m - 1] # Null
      BY <2>2, PlaceTyped
    <2>4. w[m] = h.next[w[m - 1]]
      BY <1>2, <1>5, <2>1, <2>3 DEF StepFrom
    <2>5. h.next[At(s, head, m - 1)] = At(s, head, m)
      BY <2>1 DEF IsList
    <2> QED  BY <2>2, <2>4, <2>5
  <1> QED  BY <1>4, <1>5

(***************************************************************************)
(* list_for_each_safe visits the nodes of the list in their order and      *)
(* comes back to the head.                                                 *)
(***************************************************************************)
LEMMA ElementsOfList ==
    ASSUME NEW C, IsFiniteSet(C), Null \notin C, NEW h \in HeapOf(C), NEW head \in C,
           NEW s \in Seq(C), IsList(h, head, s)
    PROVE  Closed(h, head) /\ Elements(h, head) = s
  <1> DEFINE w == Steps(h, head)
             N == Cardinality(C)
             First(k) == w[k] = head /\ \A j \in 1..(k - 1) : w[j] # head
             n == CHOOSE k \in 1..N : First(k)
  <1>1. N \in Nat /\ Len(s) + 1 \in 1..N /\ Len(s) \in Nat /\ DOMAIN h.next = C
    BY ListFits DEF HeapOf
  <1>2. w[Len(s) + 1] = head /\ \A k \in 1..Len(s) : w[k] = s[k] /\ s[k] # head
    <2>1. \A k \in 1..Len(s) : At(s, head, k) = s[k] /\ s[k] # head /\ k \in 0..(Len(s) + 1)
      BY DEF At, IsList
    <2>2. At(s, head, Len(s) + 1) = head /\ Len(s) + 1 \in 0..(Len(s) + 1)
      BY <1>1 DEF At
    <2> QED  BY <2>1, <2>2, StepsOfList
  <1> HIDE DEF w
  <1>3. First(Len(s) + 1)
    BY <1>1, <1>2
  <1>4. \A k \in 1..N : First(k) => k = Len(s) + 1
    <2> SUFFICES ASSUME NEW k \in 1..N, First(k), k # Len(s) + 1 PROVE FALSE
      OBVIOUS
    <2>1. CASE k < Len(s) + 1
      <3>1. k \in 1..Len(s)
        BY <1>1, <2>1
      <3> QED  BY <1>2, <3>1
    <2>2. CASE k > Len(s) + 1
      <3>1. Len(s) + 1 \in 1..(k - 1)
        BY <1>1, <2>2
      <3> QED  BY <1>2, <3>1
    <2> QED  BY <1>1, <2>1, <2>2
  <1>5. n = Len(s) + 1
    <2> HIDE DEF First
    <2> QED  BY <1>1, <1>3, <1>4
  <1>6. Elements(h, head) = [k \in 1..(n - 1) |-> w[k]]
    BY <1>1 DEF Elements, w
  <1>7. Elements(h, head) = s
    <2> HIDE DEF n
    <2>1. Elements(h, head) = [k \in 1..Len(s) |-> w[k]]
      BY <1>1, <1>5, <1>6
    <2>2. s = [k \in 1..Len(s) |-> s[k]]
      OBVIOUS
    <2> QED  BY <1>2, <2>1, <2>2
  <1>8. Closed(h, head)
    BY <1>1, <1>2 DEF Closed, w
  <1> QED  BY <1>7, <1>8

(* list_get finds the node at an index, and NULL behind the last. *)
LEMMA ListGetOfList ==
    ASSUME NEW C, IsFiniteSet(C), Null \notin C, NEW h \in HeapOf(C), NEW head \in C,
           NEW s \in Seq(C), IsList(h, head, s), NEW idx
    PROVE  ListGet(h, head, idx) = IF idx < Len(s) THEN s[idx + 1] ELSE Null
  <1>1. Elements(h, head) = s
    BY ElementsOfList
  <1> QED  BY <1>1 DEF ListGet
=============================================================================
