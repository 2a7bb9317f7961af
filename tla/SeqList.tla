------------------------------ MODULE SeqList ------------------------------
(***************************************************************************)
(* What a list promises its callers, with no pointers: a sequence of       *)
(* distinct nodes that is edited at the place of a given node, or at the   *)
(* two ends when the place is the head.  It is the specification that the  *)
(* pointer list of LinkedList implements.                                  *)
(***************************************************************************)
EXTENDS Naturals, Sequences, SequencesExt

CONSTANTS
    Node,   \* the list cells embedded in instructions, blocks and passes
    ListHead    \* the list head

VARIABLE items  \* the nodes of the list in order

IndexOf(n) == CHOOSE i \in 1..Len(items) : items[i] = n

Listed == ToSet(items)

Init == items = << >>

InsertBefore(n, pos) ==
    /\ n \notin Listed
    /\ pos \in Listed \cup {ListHead}
    /\ items' = InsertAt(items, IF pos = ListHead THEN Len(items) + 1 ELSE IndexOf(pos), n)

InsertAfter(n, pos) ==
    /\ n \notin Listed
    /\ pos \in Listed \cup {ListHead}
    /\ items' = InsertAt(items, IF pos = ListHead THEN 1 ELSE IndexOf(pos) + 1, n)

TakeOut(n) ==
    /\ n \in Listed
    /\ items' = RemoveAt(items, IndexOf(n))

Substitute(old, new) ==
    /\ old \in Listed
    /\ new \notin Listed
    /\ items' = [items EXCEPT ![IndexOf(old)] = new]

Exchange(n, m) ==
    /\ n \in Listed
    /\ m \in Listed
    /\ items' = [items EXCEPT ![IndexOf(n)] = m, ![IndexOf(m)] = n]

Edit ==
    \/ \E n \in Node, pos \in Node \cup {ListHead} : InsertBefore(n, pos) \/ InsertAfter(n, pos)
    \/ \E n \in Node : TakeOut(n)
    \/ \E n, m \in Node : Substitute(n, m) \/ Exchange(n, m)

Next == items' # items /\ Edit

Spec == Init /\ [][Next]_items
=============================================================================
