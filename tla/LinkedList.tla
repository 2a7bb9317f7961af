----------------------------- MODULE LinkedList -----------------------------
(***************************************************************************)
(* One list of list.h under an arbitrary sequence of the calls its users   *)
(* (arena, snippet, pipeline) make.  The users keep to the contract that   *)
(* the header leaves unchecked: a node is inserted only while it is in no  *)
(* list, and a place, a removed or a swapped node is in this list.         *)
(***************************************************************************)
EXTENDS DList

CONSTANTS
    Node,   \* the cells that may enter the list
    ListHead    \* the head cell

ASSUME CellAssumption == ListHead \notin Node /\ Null \notin Node \cup {ListHead}
ASSUME NodeAssumption == IsFiniteSet(Node)

Cell == Node \cup {ListHead}

VARIABLES
    heap,   \* next and prev of every cell
    linked  \* the nodes the callers have put in and not taken out

vars == <<heap, linked>>

TypeOK ==
    /\ heap \in [next : [Cell -> Cell \cup {Null}], prev : [Cell -> Cell \cup {Null}]]
    /\ linked \subseteq Node

Init ==
    /\ heap = ListInit(EmptyHeap(Cell), ListHead)
    /\ linked = {}

\* list_insert_before(node, pos)
ListInsertBefore(node, pos) ==
    /\ node \notin linked
    /\ pos \in linked \cup {ListHead}
    /\ heap' = InsertBefore(heap, node, pos)
    /\ linked' = linked \cup {node}

\* list_insert_after(node, pos)
ListInsertAfter(node, pos) ==
    /\ node \notin linked
    /\ pos \in linked \cup {ListHead}
    /\ heap' = InsertAfter(heap, node, pos)
    /\ linked' = linked \cup {node}

\* list_remove(node)
ListRemove(node) ==
    /\ node \in linked
    /\ heap' = RemoveNode(heap, node)
    /\ linked' = linked \ {node}

\* list_replace(old, new)
ListReplace(old, new) ==
    /\ old \in linked
    /\ new \in Node \ linked
    /\ heap' = ReplaceNode(heap, old, new)
    /\ linked' = (linked \ {old}) \cup {new}

\* list_swap(node1, node2); equal nodes are left alone
ListSwap(node1, node2) ==
    /\ node1 \in linked
    /\ node2 \in linked \ {node1}
    /\ heap' = SwapNodes(heap, node1, node2)
    /\ UNCHANGED linked

Next ==
    \/ \E node \in Node, pos \in Cell : ListInsertBefore(node, pos)
    \/ \E node \in Node, pos \in Cell : ListInsertAfter(node, pos)
    \/ \E node \in Node : ListRemove(node)
    \/ \E old, new \in Node : ListReplace(old, new)
    \/ \E node1, node2 \in Node : ListSwap(node1, node2)

Spec == Init /\ [][Next]_vars

-----------------------------------------------------------------------------
(***************************************************************************)
(* Ring: next and prev are inverse on the cells of the list and never lead *)
(* out of it, so a traversal in either direction (list_for_each_safe,      *)
(* list_for_each_prev_safe) dereferences neither NULL nor a cell that has  *)
(* been taken out, whatever stale pointers those cells hold.               *)
(***************************************************************************)
Ring ==
    \A c \in linked \cup {ListHead} :
        /\ heap.next[c] \in linked \cup {ListHead}
        /\ heap.prev[c] \in linked \cup {ListHead}
        /\ heap.prev[heap.next[c]] = c
        /\ heap.next[heap.prev[c]] = c

(***************************************************************************)
(* OneCycle: the walk from the head passes every node of the list exactly  *)
(* once before it meets the head again.  Ring alone would allow a second   *)
(* cycle that no traversal from the head ever reaches, which is what a     *)
(* list_swap of neighbours could leave behind.                             *)
(***************************************************************************)
OneCycle ==
    /\ Closed(heap, ListHead)
    /\ {Elements(heap, ListHead)[i] : i \in DOMAIN Elements(heap, ListHead)} = linked
    /\ Len(Elements(heap, ListHead)) = Cardinality(linked)

(***************************************************************************)
(* Refinement: the sequence a traversal sees is edited as SeqList says:    *)
(* insert_before the head appends, insert_after the head prepends, swap    *)
(* exchanges two nodes and moves no other, also when they are neighbours   *)
(* in either order.                                                        *)
(***************************************************************************)
Sequence == INSTANCE SeqList WITH items <- Elements(heap, ListHead)

ImplementsSequence == Sequence!Spec
=============================================================================
