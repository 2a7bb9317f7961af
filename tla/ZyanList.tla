----------------------------- MODULE ZyanList -----------------------------
(***************************************************************************)
(* Zycore's doubly linked list.  Its nodes come one by one from the        *)
(* allocator, or from a buffer of the caller: there a node that was taken  *)
(* out is used again before the next one is cut from the buffer, behind    *)
(* as many nodes as the list is long.                                      *)
(***************************************************************************)
EXTENDS ZyanStatus

CONSTANT Blank      \* what is in a node that nothing was written to

NoNode == 0           \* nodes are numbers from 1

BlankNode == [prev |-> NoNode, next |-> NoNode, item |-> Blank]

(* first: the first unused node.  new: a node between its allocation and its *)
(* place.  memory: how many nodes the allocator can give to the next call.   *)
ListInitEx ==
    [dynamic |-> TRUE, nodes |-> <<>>, slots |-> 0, size |-> 0, head |-> NoNode, tail |-> NoNode,
     first |-> NoNode, new |-> NoNode, memory |-> 0]
ListInitCustomBuffer(slots) ==
    [ListInitEx EXCEPT !.dynamic = FALSE, !.slots = slots, !.nodes = [n \in 1..slots |-> BlankNode]]

Without(nodes, n) == [k \in DOMAIN nodes \ {n} |-> nodes[k]]
With(nodes, n) == [k \in DOMAIN nodes \cup {n} |-> IF k = n THEN BlankNode ELSE nodes[k]]
Fresh(nodes) == CHOOSE n \in 1 .. Cardinality(DOMAIN nodes) + 1 : n \notin DOMAIN nodes

AllocateNode(l) ==
    IF l.dynamic
    THEN IF l.memory = 0 THEN Fails("NOT_ENOUGH_MEMORY", l)
         ELSE Success([l EXCEPT !.nodes = With(@, Fresh(l.nodes)), !.new = Fresh(l.nodes), !.memory = @ - 1])
    ELSE IF l.first # NoNode THEN Success([l EXCEPT !.new = l.first, !.first = l.nodes[l.first].next])
    ELSE IF l.size + 1 > l.slots THEN Fails("INSUFFICIENT_BUFFER_SIZE", l)
    ELSE Success([l EXCEPT !.new = l.size + 1])

(* A node given back without the ones that were given back before it. *)
X_DeallocateNode(l, n) == IF l.dynamic THEN [l EXCEPT !.nodes = Without(@, n)] ELSE [l EXCEPT !.first = n]

DeallocateNode(l, n) ==
    IF l.dynamic THEN [l EXCEPT !.nodes = Without(@, n)]
    ELSE [l EXCEPT !.nodes[n].next = l.first, !.first = n]

(* The new node in place, behind the last one or in front of the first. *)
LinkBack(l) ==
    LET n == [l.nodes EXCEPT ![l.new].prev = l.tail, ![l.new].next = NoNode] IN
    [l EXCEPT !.nodes = IF l.head = NoNode THEN n ELSE [n EXCEPT ![l.tail].next = l.new],
              !.head = IF @ = NoNode THEN l.new ELSE @,
              !.tail = l.new, !.size = @ + 1, !.new = NoNode]
LinkFront(l) ==
    LET n == [l.nodes EXCEPT ![l.new].prev = NoNode, ![l.new].next = l.head] IN
    [l EXCEPT !.nodes = IF l.head = NoNode THEN n ELSE [n EXCEPT ![l.head].prev = l.new],
              !.head = l.new,
              !.tail = IF l.head = NoNode THEN l.new ELSE @, !.size = @ + 1, !.new = NoNode]

(* Emplacing differs only in who writes the item: a constructor, whose status is not looked at. *)
ListPushBack(l, x) == Check(AllocateNode(l), LAMBDA m : Success(LinkBack([m EXCEPT !.nodes[m.new].item = x])))
ListPushFront(l, x) == Check(AllocateNode(l), LAMBDA m : Success(LinkFront([m EXCEPT !.nodes[m.new].item = x])))

UnlinkBack(l) ==
    LET n == l.nodes[l.tail].prev IN
    DeallocateNode([l EXCEPT !.tail = n, !.nodes = IF n = NoNode THEN @ ELSE [@ EXCEPT ![n].next = NoNode]], l.tail)

ListPopBack(l) ==
    IF l.tail = NoNode THEN Fails("INVALID_OPERATION", l)
    ELSE Result("SUCCESS",
            [UnlinkBack(l) EXCEPT !.head = IF @ = l.tail THEN l.nodes[l.tail].prev ELSE @, !.size = @ - 1],
            <<l.nodes[l.tail].item>>)

ListPopFront(l) ==
    IF l.head = NoNode THEN Fails("INVALID_OPERATION", l)
    ELSE LET n == l.nodes[l.head].next
             m == [l EXCEPT !.head = n, !.nodes = IF n = NoNode THEN @ ELSE [@ EXCEPT ![n].prev = NoNode],
                            !.tail = IF @ = l.head THEN n ELSE @, !.size = @ - 1]
         IN  Result("SUCCESS", DeallocateNode(m, l.head), <<l.nodes[l.head].item>>)

ListSetNodeData(l, n, x) == Result("SUCCESS", [l EXCEPT !.nodes[n].item = x], <<l.nodes[n].item>>)

(* The nodes from n on, as far as there is a next one. *)
Onward(l, n) ==
    LET all == Cardinality(DOMAIN l.nodes)
        at[k \in 0..all] ==
            IF k = 0 THEN n ELSE IF at[k - 1] = NoNode THEN NoNode ELSE l.nodes[at[k - 1]].next
        length == CHOOSE m \in 0..all : (m = all \/ at[m] = NoNode) /\ \A k \in 0 .. m - 1 : at[k] # NoNode
    IN  [k \in 1..length |-> at[k - 1]]

Path(l) == Onward(l, l.head)
Unused(l) == Onward(l, l.first)     \* the nodes that wait to be used again
ItemsOf(l) == [k \in DOMAIN Path(l) |-> l.nodes[Path(l)[k]].item]

(* Every node is given back; a buffer is begun anew. *)
ListClear(l) ==
    Result("SUCCESS",
        [l EXCEPT !.nodes = IF l.dynamic THEN <<>> ELSE @, !.size = 0, !.head = NoNode, !.tail = NoNode, !.first = NoNode],
        ItemsOf(l))

(* One node after the other is added until there is none to be had. *)
Extended(l, n, new) ==
    LET one(m) == LinkBack(IF new = <<>> THEN m ELSE [m EXCEPT !.nodes[m.new].item = new[1]])
        after[k \in 0..n] ==
            IF k = 0 THEN Success(l)
            ELSE Check(after[k - 1], LAMBDA m : Check(AllocateNode(m), LAMBDA w : Success(one(w))))
    IN  after[n]

(* The size is the old one until the last node is gone. *)
Reduced(l, size) ==
    LET after[k \in 0 .. l.size - size] == IF k = 0 THEN l ELSE UnlinkBack(after[k - 1])
    IN  Result("SUCCESS", [after[l.size - size] EXCEPT !.size = size], SubSeq(ItemsOf(l), size + 1, l.size))

ListResizeEx(l, size, new) ==
    IF size = l.size THEN Success(l)
    ELSE IF size = 0 THEN ListClear(l)
    ELSE IF size > l.size THEN Extended(l, size - l.size, new)
    ELSE Reduced(l, size)
=============================================================================
