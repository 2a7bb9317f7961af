---------------------------- MODULE ZyanVector ----------------------------
(***************************************************************************)
(* Zycore's dynamic array: cells of memory of which the first size hold    *)
(* the elements.  It grows when there is no cell left, and shrinks when    *)
(* few are in use; one that lives in a buffer of its caller does neither.  *)
(* Indices count from 0.                                                   *)
(***************************************************************************)
EXTENDS ZyanStatus

CONSTANT Junk   \* what is in memory that nothing was written to

(* The part of a vector that never changes, and memory: whether the *)
(* allocator has any for the call that is made.                     *)
Vector(cells, capacity, growth, threshold, dynamic) ==
    [cells |-> cells, size |-> 0, capacity |-> capacity, growth |-> growth, threshold |-> threshold,
     dynamic |-> dynamic, memory |-> TRUE]

Contents(v) == SubSeq(v.cells, 1, v.size)

AtLeast(low, n) == IF n < low THEN low ELSE n
Cells(n) == [k \in 1..n |-> Junk]

(* memcpy and memmove of n cells *)
Written(cells, at, new) == [k \in DOMAIN cells |-> IF k \in at + 1 .. at + Len(new) THEN new[k - at] ELSE cells[k]]
Moved(cells, from, to, n) == Written(cells, to, SubSeq(cells, from + 1, from + n))

MinCapacity == 1

ShouldGrow(v, size) == size > v.capacity
ShouldShrink(v, size) == v.threshold # 0 /\ size * v.threshold < v.capacity

(* The capacity is noted first, and stays when there is no memory.  A smaller *)
(* block is always to be had.                                                 *)
WithBlock(v, n) ==
    IF v.memory \/ n <= Len(v.cells) THEN Success([v EXCEPT !.capacity = n, !.cells = SubSeq(v.cells \o Cells(n), 1, n)])
    ELSE Fails("NOT_ENOUGH_MEMORY", [v EXCEPT !.capacity = n])

Reallocate(v, n) ==
    IF ~v.dynamic THEN IF v.capacity < n THEN Fails("INSUFFICIENT_BUFFER_SIZE", v) ELSE Success(v)
    ELSE IF n >= MinCapacity THEN WithBlock(v, n)
    ELSE IF v.capacity > MinCapacity THEN WithBlock(v, MinCapacity)
    ELSE Success(v)

Grown(v, size) == IF ShouldGrow(v, size) THEN Reallocate(v, AtLeast(1, size * v.growth)) ELSE Success(v)
Shrunk(v) == IF ShouldShrink(v, v.size) THEN Reallocate(v, AtLeast(1, v.size * v.growth)) ELSE Success(v)

ShiftLeft(v, i, n) == [v EXCEPT !.cells = Moved(v.cells, i + n, i, v.size - i - n)]
(* A shift that leaves the last element behind. *)
X_ShiftRight(v, i, n) == [v EXCEPT !.cells = Moved(v.cells, i, i + n, v.size - i - 1)]

ShiftRight(v, i, n) == [v EXCEPT !.cells = Moved(v.cells, i, i + n, v.size - i)]

VectorInitEx(capacity, growth, threshold) ==
    LET n == AtLeast(MinCapacity, capacity) IN Vector(Cells(n), n, growth, threshold, TRUE)
VectorInitCustomBuffer(capacity) == Vector(Cells(capacity), capacity, 1, 0, FALSE)

Filled(v, s) == [v EXCEPT !.cells = Written(v.cells, 0, s), !.size = Len(s)]

VectorDuplicateEx(source, capacity, growth, threshold) ==
    Filled(VectorInitEx(AtLeast(source.size, capacity), growth, threshold), Contents(source))
VectorDuplicateCustomBuffer(source, capacity) ==
    IF capacity < source.size THEN Fails("INSUFFICIENT_BUFFER_SIZE", source)
    ELSE Success(Filled(VectorInitCustomBuffer(capacity), Contents(source)))

(* NULL for an index that is out of range *)
VectorGet(v, i) == IF i < v.size THEN <<v.cells[i + 1]>> ELSE <<>>

VectorSet(v, i, x) ==
    IF i >= v.size THEN Fails("OUT_OF_RANGE", v)
    ELSE Result("SUCCESS", [v EXCEPT !.cells[i + 1] = x], VectorGet(v, i))

VectorPushBack(v, x) ==
    Check(Grown(v, v.size + 1),
        LAMBDA w : Success([w EXCEPT !.cells = Written(w.cells, w.size, <<x>>), !.size = @ + 1]))

(* Room for n elements at index i, and then what is written to it. *)
Opened(v, i, n) ==
    Check(Grown(v, v.size + n), LAMBDA w : Success(IF i < w.size THEN ShiftRight(w, i, n) ELSE w))

VectorInsertRange(v, i, new) ==
    IF new = <<>> THEN Fails("INVALID_ARGUMENT", v)
    ELSE IF i > v.size THEN Fails("OUT_OF_RANGE", v)
    ELSE Check(Opened(v, i, Len(new)),
            LAMBDA w : Success([w EXCEPT !.cells = Written(w.cells, i, new), !.size = @ + Len(new)]))

(* A constructor that fails leaves the room that was made for the element. *)
VectorEmplaceEx(v, i, x, constructed) ==
    IF i > v.size THEN Fails("OUT_OF_RANGE", v)
    ELSE Check(Opened(v, i, 1),
            LAMBDA w : IF constructed THEN Success([w EXCEPT !.cells = Written(w.cells, i, <<x>>), !.size = @ + 1])
                       ELSE Fails("FAILED", w))

(* The first cell behind the elements is used for the exchange. *)
VectorSwapElements(v, i, j) ==
    IF i >= v.size \/ j >= v.size THEN Fails("OUT_OF_RANGE", v)
    ELSE IF v.size = v.capacity THEN Fails("INSUFFICIENT_BUFFER_SIZE", v)
    ELSE LET t == Moved(v.cells, i, v.size, 1)
             a == Moved(t, j, i, 1)
         IN  Success([v EXCEPT !.cells = Moved(a, v.size, j, 1)])

VectorDeleteRange(v, i, n) ==
    IF n = 0 THEN Fails("INVALID_ARGUMENT", v)
    ELSE IF i + n > v.size THEN Fails("OUT_OF_RANGE", v)
    ELSE LET w == IF i + n < v.size THEN ShiftLeft(v, i, n) ELSE v
         IN  [Shrunk([w EXCEPT !.size = @ - n]) EXCEPT !.out = SubSeq(v.cells, i + 1, i + n)]

VectorPopBack(v) ==
    IF v.size = 0 THEN Fails("OUT_OF_RANGE", v)
    ELSE [Shrunk([v EXCEPT !.size = @ - 1]) EXCEPT !.out = VectorGet(v, v.size - 1)]

(* new is the initializer, if there is one. *)
VectorResizeEx(v, size, new) ==
    LET fits == IF ShouldGrow(v, size) \/ ShouldShrink(v, size) THEN Reallocate(v, size * v.growth) ELSE Success(v)
        tail == IF new = <<>> THEN <<>> ELSE [k \in 1 .. size - v.size |-> new[1]]
    IN  IF size = v.size THEN Success(v)
        ELSE [Check(fits, LAMBDA w : Success([w EXCEPT !.cells = Written(w.cells, v.size, tail), !.size = size]))
                EXCEPT !.out = SubSeq(v.cells, size + 1, v.size)]

VectorClear(v) == VectorResizeEx(v, 0, <<>>)

VectorReserve(v, capacity) == IF capacity > v.capacity THEN Reallocate(v, capacity) ELSE Success(v)
VectorShrinkToFit(v) == Reallocate(v, v.size)

VectorDestroy(v) == Result("SUCCESS", v, Contents(v))

-----------------------------------------------------------------------------
(* Searching *)

(* The index of the first of the n elements from index i on that is x, or -1; k of them were looked at. *)
VectorFindEx(v, x, i, n) ==
    LET found[k \in 0..n] ==
            IF k = 0 THEN -1
            ELSE IF found[k - 1] = -1 /\ v.cells[i + k] = x THEN i + k - 1
            ELSE found[k - 1]
    IN  found[n]

(* Between l and h; elements below l are less than x, elements above h are not. *)
Narrowed(v, x, s) ==
    LET mid == s.l + ((s.h - s.l) \div 2)
    IN  IF s.l > s.h THEN s
        ELSE IF v.cells[mid + 1] < x THEN [l |-> mid + 1, h |-> s.h, found |-> s.found]
        ELSE [l |-> s.l, h |-> mid - 1, found |-> s.found \/ v.cells[mid + 1] = x]

(* A round takes one element away at least, so that n rounds are enough. *)
VectorBinarySearchEx(v, x, i, n) ==
    LET after[k \in 0..n] ==
            IF k = 0 THEN [l |-> i, h |-> i + n - 1, found |-> FALSE] ELSE Narrowed(v, x, after[k - 1])
    IN  [index |-> after[n].l, found |-> after[n].found]
=============================================================================
