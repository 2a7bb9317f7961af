-------------------------- MODULE LinkedListProofs --------------------------
(***************************************************************************)
(* Proofs about LinkedList: for any number of nodes and any sequence of    *)
(* calls the pointers of the list are one two-way ring through the head,   *)
(* and a traversal sees the sequence that SeqList describes.               *)
(***************************************************************************)
EXTENDS LinkedList, DListProofs

(***************************************************************************)
(* Ring alone is not inductive: it allows a second cycle beside the one    *)
(* through the head, and list_replace of a node that is a cycle by itself  *)
(* breaks it.  What the list functions maintain is that the list is a      *)
(* sequence: its nodes can be numbered from the head onwards along next    *)
(* without a gap, a repetition or a node left over.                        *)
(***************************************************************************)
OneRing == \E s \in Seq(Node) : IsList(heap, ListHead, s) /\ ToSet(s) = linked

(* The inductive invariant: the pointers are typed and the list is one ring. *)
IInv == TypeOK /\ OneRing

(* The edits of a sequence that the calls make *)
Edited(s, t) ==
    \/ \E k \in 1..(Len(s) + 1), n \in Node \ ToSet(s) : t = InsertAt(s, k, n)
    \/ \E k \in 1..Len(s) : t = RemoveAt(s, k)
    \/ \E k \in 1..Len(s), n \in Node \ ToSet(s) : t = [s EXCEPT ![k] = n]
    \/ \E i, j \in 1..Len(s) : i # j /\ t = [s EXCEPT ![i] = s[j], ![j] = s[i]]
    \/ t = s

(* A node or the head of a list has a place in it. *)
LEMMA PlaceOf ==
    ASSUME NEW s \in Seq(Node), NEW pos \in ToSet(s) \cup {ListHead}
    PROVE  /\ \E k \in 0..Len(s) : At(s, ListHead, k) = pos
           /\ \E k \in 1..(Len(s) + 1) : At(s, ListHead, k) = pos
  <1>1. CASE pos = ListHead
    <2>1. At(s, ListHead, 0) = pos /\ At(s, ListHead, Len(s) + 1) = pos
      BY <1>1 DEF At
    <2> QED  BY <2>1
  <1>2. CASE pos \in ToSet(s)
    <2>1. PICK k \in 1..Len(s) : s[k] = pos
      BY <1>2, ListedNodes
    <2>2. At(s, ListHead, k) = pos /\ k \in 0..Len(s) /\ k \in 1..(Len(s) + 1)
      BY <2>1 DEF At
    <2> QED  BY <2>2
  <1> QED  BY <1>1, <1>2

(* Every call edits the sequence that the list is. *)
LEMMA CallsEdit ==
    ASSUME IInv, [Next]_vars, NEW s \in Seq(Node), IsList(heap, ListHead, s), ToSet(s) = linked
    PROVE  /\ heap' \in HeapOf(Cell) /\ linked' \subseteq Node
           /\ \E t \in Seq(Node) : IsList(heap', ListHead, t) /\ ToSet(t) = linked' /\ Edited(s, t)
  <1> DEFINE Kept == /\ heap' \in HeapOf(Cell) /\ linked' \subseteq Node
                     /\ \E t \in Seq(Node) : /\ IsList(heap', ListHead, t)
                                             /\ ToSet(t) = linked' /\ Edited(s, t)
  <1>1. /\ heap \in HeapOf(Cell) /\ linked \subseteq Node
        /\ s \in Seq(Cell) /\ ListHead \in Cell /\ \A n \in Node : n \in Cell \ {ListHead}
    BY CellAssumption DEF IInv, TypeOK, HeapOf, Cell
  <1>2. ASSUME NEW node \in Node, NEW pos \in Cell, ListInsertBefore(node, pos)
        PROVE  Kept
    <2>1. PICK k \in 1..(Len(s) + 1) : At(s, ListHead, k) = pos
      BY <1>2, PlaceOf DEF ListInsertBefore
    <2> DEFINE t == InsertAt(s, k, node)
    <2>2. node \notin ToSet(s) /\ heap' = InsertBefore(heap, node, pos) /\ linked' = linked \cup {node}
      BY <1>2 DEF ListInsertBefore
    <2>3. heap' \in HeapOf(Cell) /\ IsList(heap', ListHead, t)
      BY <1>1, <2>1, <2>2, InsertBeforeIsList
    <2>4. t \in Seq(Node) /\ ToSet(t) = linked'
      BY <2>2, InsertAtElements, InsertAtNodes
    <2>5. Edited(s, t)
      BY <2>2 DEF Edited
    <2> QED  BY <1>1, <2>2, <2>3, <2>4, <2>5
  <1>3. ASSUME NEW node \in Node, NEW pos \in Cell, ListInsertAfter(node, pos)
        PROVE  Kept
    <2>1. PICK k \in 0..Len(s) : At(s, ListHead, k) = pos
      BY <1>3, PlaceOf DEF ListInsertAfter
    <2> DEFINE t == InsertAt(s, k + 1, node)
    <2>2. node \notin ToSet(s) /\ heap' = InsertAfter(heap, node, pos) /\ linked' = linked \cup {node}
      BY <1>3 DEF ListInsertAfter
    <2>3. heap' \in HeapOf(Cell) /\ IsList(heap', ListHead, t)
      BY <1>1, <2>1, <2>2, InsertAfterIsList
    <2>4. k + 1 \in 1..(Len(s) + 1)
      OBVIOUS
    <2>5. t \in Seq(Node) /\ ToSet(t) = linked'
      BY <2>2, <2>4, InsertAtElements, InsertAtNodes
    <2>6. Edited(s, t)
      BY <2>2, <2>4 DEF Edited
    <2> QED  BY <1>1, <2>2, <2>3, <2>5, <2>6
  <1>4. ASSUME NEW node \in Node, ListRemove(node)
        PROVE  Kept
    <2>1. PICK k \in 1..Len(s) : s[k] = node
      BY <1>4, ListedNodes DEF ListRemove
    <2> DEFINE t == RemoveAt(s, k)
    <2>2. heap' = RemoveNode(heap, s[k]) /\ linked' = linked \ {s[k]}
      BY <1>4, <2>1 DEF ListRemove
    <2>3. heap' \in HeapOf(Cell) /\ IsList(heap', ListHead, t)
      BY <1>1, <2>2, RemoveNodeIsList
    <2>4. t \in Seq(Node) /\ ToSet(t) = linked'
      BY <2>2, RemoveAtElements, RemoveAtNodes DEF IsList
    <2>5. Edited(s, t)
      BY DEF Edited
    <2> QED  BY <1>1, <2>2, <2>3, <2>4, <2>5
  <1>5. ASSUME NEW old \in Node, NEW new \in Node, ListReplace(old, new)
        PROVE  Kept
    <2>1. PICK k \in 1..Len(s) : s[k] = old
      BY <1>5, ListedNodes DEF ListReplace
    <2> DEFINE t == [s EXCEPT ![k] = new]
    <2>2. /\ new \notin ToSet(s) /\ heap' = ReplaceNode(heap, s[k], new)
          /\ linked' = (linked \ {s[k]}) \cup {new}
      BY <1>5, <2>1 DEF ListReplace
    <2>3. heap' \in HeapOf(Cell) /\ IsList(heap', ListHead, t)
      BY <1>1, <2>2, ReplaceNodeIsList
    <2>4. /\ t \in Seq(Node) /\ Len(t) = Len(s) /\ t[k] = new
          /\ \A i \in 1..Len(s) : i # k => t[i] = s[i] /\ s[i] # s[k]
      BY DEF IsList
    <2> HIDE DEF t
    <2>5. ToSet(t) = linked'
      <3>1. \A x : x \in ToSet(t) <=> \E i \in 1..Len(s) : t[i] = x
        BY <2>4, ListedNodes
      <3>2. \A x : x \in linked <=> \E i \in 1..Len(s) : s[i] = x
        BY ListedNodes
      <3> QED  BY <2>2, <2>4, <3>1, <3>2
    <2>6. Edited(s, t)
      BY <2>2 DEF Edited, t
    <2> QED  BY <1>1, <2>2, <2>3, <2>4, <2>5, <2>6 DEF t
  <1>6. ASSUME NEW node1 \in Node, NEW node2 \in Node, ListSwap(node1, node2)
        PROVE  Kept
    <2>1. PICK i \in 1..Len(s) : s[i] = node1
      BY <1>6, ListedNodes DEF ListSwap
    <2>2. PICK j \in 1..Len(s) : s[j] = node2
      BY <1>6, ListedNodes DEF ListSwap
    <2> DEFINE t == [s EXCEPT ![i] = s[j], ![j] = s[i]]
    <2>3. i # j /\ heap' = SwapNodes(heap, s[i], s[j]) /\ linked' = linked
      BY <1>6, <2>1, <2>2 DEF ListSwap
    <2>4. heap' \in HeapOf(Cell) /\ IsList(heap', ListHead, t)
      BY <1>1, <2>3, SwapNodesIsList
    <2>5. /\ t \in Seq(Node) /\ Len(t) = Len(s) /\ t[i] = s[j] /\ t[j] = s[i]
          /\ \A k \in 1..Len(s) : k # i /\ k # j => t[k] = s[k]
      BY <2>3
    <2> HIDE DEF t
    <2>6. ToSet(t) = linked'
      <3>1. \A x : x \in ToSet(t) <=> \E k \in 1..Len(s) : t[k] = x
        BY <2>5, ListedNodes
      <3>2. \A x : x \in linked <=> \E k \in 1..Len(s) : s[k] = x
        BY ListedNodes
      <3> QED  BY <2>3, <2>5, <3>1, <3>2
    <2>7. Edited(s, t)
      BY <2>3 DEF Edited, t
    <2> QED  BY <1>1, <2>3, <2>4, <2>5, <2>6, <2>7 DEF t
  <1>7. ASSUME UNCHANGED vars
        PROVE  Kept
    BY <1>1, <1>7 DEF vars, Edited
  <1>8. Kept
    <2> HIDE DEF Kept
    <2> QED  BY <1>2, <1>3, <1>4, <1>5, <1>6, <1>7 DEF Next
  <1> QED  BY <1>8

LEMMA InitIInv == Init => IInv
  <1> SUFFICES ASSUME Init PROVE IInv
    OBVIOUS
  <1>1. ListHead \in Cell /\ EmptyHeap(Cell) \in HeapOf(Cell)
    BY EmptyHeapTyped DEF Cell
  <1>2. heap \in HeapOf(Cell) /\ IsList(heap, ListHead, << >>)
    BY <1>1, ListInitIsList DEF Init
  <1>3. << >> \in Seq(Node) /\ ToSet(<< >>) = {} /\ linked = {}
    BY DEF Init, ToSet
  <1> QED  BY <1>2, <1>3 DEF IInv, TypeOK, OneRing, HeapOf

LEMMA NextIInv == IInv /\ [Next]_vars => IInv'
  <1> SUFFICES ASSUME IInv, [Next]_vars PROVE IInv'
    OBVIOUS
  <1>1. PICK s \in Seq(Node) : IsList(heap, ListHead, s) /\ ToSet(s) = linked
    BY DEF IInv, OneRing
  <1>2. /\ heap' \in HeapOf(Cell) /\ linked' \subseteq Node
        /\ \E t \in Seq(Node) : IsList(heap', ListHead, t) /\ ToSet(t) = linked'
    BY <1>1, CallsEdit
  <1> QED  BY <1>2 DEF IInv, TypeOK, OneRing, HeapOf

LEMMA InvariantHolds == Spec => []IInv
  BY InitIInv, NextIInv, PTL DEF Spec

(* A traversal sees the sequence. *)
LEMMA Seen ==
    ASSUME NEW h \in HeapOf(Cell), NEW s \in Seq(Node), IsList(h, ListHead, s)
    PROVE  Closed(h, ListHead) /\ Elements(h, ListHead) = s
  <1>1. IsFiniteSet(Cell)
    BY NodeAssumption, FS_AddElement DEF Cell
  <1>2. Null \notin Cell /\ ListHead \in Cell /\ s \in Seq(Cell)
    BY CellAssumption DEF Cell
  <1> QED  BY <1>1, <1>2, ElementsOfList

(***************************************************************************)
(* list.h never writes a pointer that is neither a cell nor NULL.          *)
(***************************************************************************)
THEOREM TypeCorrect == Spec => []TypeOK
  <1>1. IInv => TypeOK
    BY DEF IInv
  <1> QED  BY InvariantHolds, <1>1, PTL

(***************************************************************************)
(* No sequence of calls splits the list: every node that was put in and    *)
(* not taken out lies on the one ring through the head, which is where the *)
(* traversals of the snippet, the arena and the pipeline start.            *)
(***************************************************************************)
THEOREM ListIsOneRing == Spec => []OneRing
  <1>1. IInv => OneRing
    BY DEF IInv
  <1> QED  BY InvariantHolds, <1>1, PTL

(***************************************************************************)
(* The list of list.h stays a ring in both directions, for every set of    *)
(* nodes and every sequence of calls that keeps the header's contract.     *)
(***************************************************************************)
THEOREM ListStaysRing == Spec => []Ring
  <1>1. ASSUME IInv, NEW c \in linked \cup {ListHead}
        PROVE  /\ heap.next[c] \in linked \cup {ListHead}
               /\ heap.prev[c] \in linked \cup {ListHead}
               /\ heap.prev[heap.next[c]] = c
               /\ heap.next[heap.prev[c]] = c
    <2>1. PICK s \in Seq(Node) : IsList(heap, ListHead, s) /\ ToSet(s) = linked
      BY <1>1 DEF IInv, OneRing
    <2>2. \A k : At(s, ListHead, k) \in linked \cup {ListHead}
      BY <2>1, ListedNodes DEF At
    <2>3. PICK i \in 0..Len(s) : At(s, ListHead, i) = c
      BY <2>1, PlaceOf
    <2>4. heap.next[c] = At(s, ListHead, i + 1) /\ heap.prev[At(s, ListHead, i + 1)] = c
      BY <2>1, <2>3 DEF IsList
    <2>5. PICK j \in 1..(Len(s) + 1) : At(s, ListHead, j) = c
      BY <2>1, PlaceOf
    <2>6. j - 1 \in 0..Len(s) /\ (j - 1) + 1 = j
      OBVIOUS
    <2>7. heap.prev[c] = At(s, ListHead, j - 1) /\ heap.next[At(s, ListHead, j - 1)] = c
      BY <2>1, <2>5, <2>6 DEF IsList
    <2> QED  BY <2>2, <2>4, <2>7
  <1>2. IInv => Ring
    BY <1>1 DEF Ring
  <1> QED  BY InvariantHolds, <1>2, PTL

(***************************************************************************)
(* The walk from the head passes every node of the list exactly once and   *)
(* comes back, for any number of nodes: list_swap of neighbours leaves no  *)
(* second cycle behind.                                                    *)
(***************************************************************************)
THEOREM ListIsOneCycle == Spec => []OneCycle
  <1>1. ASSUME IInv
        PROVE  OneCycle
    <2>1. PICK s \in Seq(Node) : IsList(heap, ListHead, s) /\ ToSet(s) = linked
      BY <1>1 DEF IInv, OneRing
    <2>2. Closed(heap, ListHead) /\ Elements(heap, ListHead) = s
      BY <1>1, <2>1, Seen DEF IInv, TypeOK, HeapOf
    <2>3. {s[i] : i \in DOMAIN s} = linked
      BY <2>1 DEF ToSet
    <2>4. Cardinality(linked) = Len(s)
      <3>1. s \in Bijection(1..Len(s), linked)
        <4>1. s \in [1..Len(s) -> linked] /\ \A n \in linked : \E i \in 1..Len(s) : s[i] = n
          BY <2>1, ListedNodes
        <4>2. \A i, j \in 1..Len(s) : s[i] = s[j] => i = j
          BY <2>1 DEF IsList
        <4> QED  BY <4>1, <4>2 DEF Bijection, Injection, Surjection, IsInjective
      <3>2. Cardinality(1..Len(s)) = Len(s) /\ IsFiniteSet(1..Len(s))
        <4>1. Len(s) \in Nat
          OBVIOUS
        <4> QED  BY <4>1, FS_Interval
      <3> QED  BY <3>1, <3>2, FS_Bijection DEF ExistsBijection
    <2> QED  BY <2>2, <2>3, <2>4 DEF OneCycle
  <1> QED  BY InvariantHolds, <1>1, PTL

-----------------------------------------------------------------------------
(* The refinement of SeqList *)

(* In a sequence without repetitions a node has one index. *)
LEMMA IndexIsPlace ==
    ASSUME NEW s \in Seq(Node), \A i, j \in 1..Len(s) : s[i] = s[j] => i = j, NEW k \in 1..Len(s)
    PROVE  (CHOOSE i \in 1..Len(s) : s[i] = s[k]) = k
  OBVIOUS

(* An edit of what a traversal sees is one of the edits of SeqList. *)
LEMMA EditsAreSteps ==
    ASSUME NEW s \in Seq(Node), NEW t, IsList(heap, ListHead, s), Edited(s, t),
           Elements(heap, ListHead) = s, Elements(heap, ListHead)' = t
    PROVE  [Sequence!Next]_(Elements(heap, ListHead))
  <1> DEFINE Index(n) == CHOOSE i \in 1..Len(s) : s[i] = n
  <1>1. /\ \A i, j \in 1..Len(s) : s[i] = s[j] => i = j
        /\ \A i \in 1..Len(s) : s[i] # ListHead /\ s[i] \in Node /\ s[i] \in ToSet(s)
    BY ListedNodes DEF IsList
  <1>2. /\ \A k \in 1..Len(s) : Index(s[k]) = k
        /\ Sequence!Listed = ToSet(s)
    BY <1>1, IndexIsPlace DEF Sequence!Listed, Sequence!ToSet, ToSet
  <1>3. \A n : Sequence!IndexOf(n) = Index(n)
    BY DEF Sequence!IndexOf
  <1> HIDE DEF Index
  <1>4. ASSUME NEW k \in 1..(Len(s) + 1), NEW n \in Node \ ToSet(s), t = InsertAt(s, k, n)
        PROVE  Sequence!Edit
    <2> DEFINE pos == At(s, ListHead, k)
    <2>1. pos \in ToSet(s) \cup {ListHead} /\ pos \in Node \cup {ListHead}
      BY <1>1 DEF At
    <2>2. k = IF pos = ListHead THEN Len(s) + 1 ELSE Index(pos)
      BY <1>1, <1>2 DEF At
    <2> HIDE DEF pos
    <2>3. Sequence!InsertBefore(n, pos)
      BY <1>2, <1>3, <1>4, <2>1, <2>2 DEF Sequence!InsertBefore, Sequence!InsertAt, InsertAt
    <2> QED  BY <2>1, <2>3 DEF Sequence!Edit
  <1>5. ASSUME NEW k \in 1..Len(s), t = RemoveAt(s, k)
        PROVE  Sequence!Edit
    <2>1. Sequence!TakeOut(s[k])
      BY <1>1, <1>2, <1>3, <1>5 DEF Sequence!TakeOut, Sequence!RemoveAt, RemoveAt
    <2> QED  BY <1>1, <2>1 DEF Sequence!Edit
  <1>6. ASSUME NEW k \in 1..Len(s), NEW n \in Node \ ToSet(s), t = [s EXCEPT ![k] = n]
        PROVE  Sequence!Edit
    <2>1. Sequence!Substitute(s[k], n)
      BY <1>1, <1>2, <1>3, <1>6 DEF Sequence!Substitute
    <2> QED  BY <1>1, <2>1 DEF Sequence!Edit
  <1>7. ASSUME NEW i \in 1..Len(s), NEW j \in 1..Len(s), t = [s EXCEPT ![i] = s[j], ![j] = s[i]]
        PROVE  Sequence!Edit
    <2>1. Sequence!Exchange(s[i], s[j])
      BY <1>1, <1>2, <1>3, <1>7 DEF Sequence!Exchange
    <2> QED  BY <1>1, <2>1 DEF Sequence!Edit
  <1>8. Sequence!Edit \/ t = s
    BY <1>4, <1>5, <1>6, <1>7 DEF Edited
  <1> QED  BY <1>8 DEF Sequence!Next

(***************************************************************************)
(* The pointer list implements the sequence of SeqList: every call of      *)
(* list.h edits what a traversal sees at the place of the node it was      *)
(* given, and changes no other place.                                      *)
(***************************************************************************)
THEOREM ListImplementsSequence == Spec => ImplementsSequence
  <1>1. Init => Sequence!Init
    <2> SUFFICES ASSUME Init PROVE Sequence!Init
      OBVIOUS
    <2>1. ListHead \in Cell /\ EmptyHeap(Cell) \in HeapOf(Cell)
      BY EmptyHeapTyped DEF Cell
    <2>2. heap \in HeapOf(Cell) /\ IsList(heap, ListHead, << >>)
      BY <2>1, ListInitIsList DEF Init
    <2>3. << >> \in Seq(Node)
      OBVIOUS
    <2> QED  BY <2>2, <2>3, Seen DEF Sequence!Init
  <1>2. ASSUME IInv, [Next]_vars
        PROVE  [Sequence!Next]_(Elements(heap, ListHead))
    <2>1. PICK s \in Seq(Node) : IsList(heap, ListHead, s) /\ ToSet(s) = linked
      BY <1>2 DEF IInv, OneRing
    <2>2. PICK t \in Seq(Node) : heap' \in HeapOf(Cell) /\ IsList(heap', ListHead, t) /\ Edited(s, t)
      BY <1>2, <2>1, CallsEdit
    <2>3. Elements(heap, ListHead) = s
      BY <1>2, <2>1, Seen DEF IInv, TypeOK, HeapOf
    <2>4. Elements(heap, ListHead)' = t
      BY <2>2, Seen
    <2> QED  BY <2>1, <2>2, <2>3, <2>4, EditsAreSteps
  <1> QED  BY InvariantHolds, <1>1, <1>2, PTL DEF Spec, ImplementsSequence, Sequence!Spec
=============================================================================
