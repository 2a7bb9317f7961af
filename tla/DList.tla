------------------------------- MODULE DList -------------------------------
(***************************************************************************)
(* The intrusive doubly linked list of include/libsnippet/list.h.  A heap  *)
(* h is a record of two functions over the list cells of the program,      *)
(* h.next and h.prev; a list is named by its head cell, which is a cell    *)
(* like any other.  Every operator takes the heap the C function finds and *)
(* returns the heap it leaves, for arguments that pass its NULL checks.    *)
(* A pointer that no list function has written, or that list_remove has    *)
(* cleared, is Null.                                                       *)
(***************************************************************************)
EXTENDS Naturals, FiniteSets, Sequences

CONSTANT Null   \* the NULL pointer; not a cell

\* Memory before any list function touched it: cells are allocated zeroed.
EmptyHeap(Cells) ==
    [next |-> [c \in Cells |-> Null], prev |-> [c \in Cells |-> Null]]

\* list_init: an empty list is a head that points to itself.
ListInit(h, head) ==
    [next |-> [h.next EXCEPT ![head] = head],
     prev |-> [h.prev EXCEPT ![head] = head]]

\* list_insert_before, for node # pos
InsertBefore(h, node, pos) ==
    LET before == h.prev[pos]
    IN  [next |-> [h.next EXCEPT ![node] = pos, ![before] = node],
         prev |-> [h.prev EXCEPT ![node] = before, ![pos] = node]]

\* A list_insert_after that inserts in front of pos.
InsertAfter_InFront(h, node, pos) == InsertBefore(h, node, pos)

\* list_insert_after, for node # pos
InsertAfter(h, node, pos) ==
    LET after == h.next[pos]
    IN  [next |-> [h.next EXCEPT ![node] = after, ![pos] = node],
         prev |-> [h.prev EXCEPT ![node] = pos, ![after] = node]]

\* A list_remove that closes the gap in the forward direction only.
RemoveNode_OneWay(h, node) ==
    [next |-> [h.next EXCEPT ![h.prev[node]] = h.next[node], ![node] = Null],
     prev |-> [h.prev EXCEPT ![node] = Null]]

\* list_remove: closes the gap and clears the pointers of the node taken out.
RemoveNode(h, node) ==
    LET before == h.prev[node]
        after  == h.next[node]
    IN  [next |-> [h.next EXCEPT ![before] = after, ![node] = Null],
         prev |-> [h.prev EXCEPT ![after] = before, ![node] = Null]]

\* list_replace: new takes the place of old, whose own pointers stay as they are.
ReplaceNode(h, old, new) ==
    LET before == h.prev[old]
        after  == h.next[old]
    IN  [next |-> [h.next EXCEPT ![new] = after, ![before] = new],
         prev |-> [h.prev EXCEPT ![new] = before, ![after] = new]]

\* A list_swap without the test for nodes that are neighbours.
SwapNodes_NotAdjacent(h, node1, node2) ==
    InsertAfter(ReplaceNode(RemoveNode(h, node2), node1, node2), node1, h.prev[node2])

\* list_swap, for node1 # node2: node2 moves into the place of node1, then
\* node1 goes behind the cell that node2 used to follow.
SwapNodes(h, node1, node2) ==
    LET pos == h.prev[node2]
    IN  InsertAfter(ReplaceNode(RemoveNode(h, node2), node1, node2), node1,
                    IF pos = node1 THEN node2 ELSE pos)

-----------------------------------------------------------------------------
(***************************************************************************)
(* Traversal.  Steps(h, head)[k] is the cell that k steps along next reach *)
(* (list_for_each_safe and list_get both walk this way until they meet the *)
(* head again).                                                            *)
(***************************************************************************)
Steps(h, head) ==
    LET walk[k \in 0..Cardinality(DOMAIN h.next)] ==
            IF k = 0 THEN head
            ELSE IF walk[k-1] = Null THEN Null ELSE h.next[walk[k-1]]
    IN  walk

\* The traversal comes back to the head without meeting a NULL pointer.
Closed(h, head) ==
    LET s == Steps(h, head)
    IN  \E k \in 1..Cardinality(DOMAIN h.next) : s[k] = head

\* The nodes of a closed list, in the order of list_for_each_safe.
Elements(h, head) ==
    LET s == Steps(h, head)
        n == CHOOSE k \in 1..Cardinality(DOMAIN h.next) :
                s[k] = head /\ \A j \in 1..(k-1) : s[j] # head
    IN  [k \in 1..(n-1) |-> s[k]]

\* list_get: the idx-th node counted from 0, or Null past the end.
ListGet(h, head, idx) ==
    LET s == Elements(h, head)
    IN  IF idx < Len(s) THEN s[idx + 1] ELSE Null
=============================================================================
