---------------------------- MODULE ZyanBitset ----------------------------
(***************************************************************************)
(* Zycore's bitset: bits in a vector of bytes, the first bit of a byte     *)
(* being the one of the highest value, and a size of its own.              *)
(***************************************************************************)
EXTENDS ZyanVector

CONSTANTS
    Width,      \* the bits of a byte
    Wrap        \* the number of values of a size, from 0 on

ZeroByte == [k \in 1..Width |-> 0]

Bitset(size, bits) == [size |-> size, bits |-> bits]

WithBits(b, bits) == [b EXCEPT !.bits = bits]
OnBits(b, r) == Result(r.status, WithBits(b, r.v), <<>>)

(* Bytes for count bits; the quotient is rounded down before it is rounded up. *)
BitsToBytes(count) == count \div Width

WithZeros(v, n) == [v EXCEPT !.cells = Written(@, 0, [k \in 1..n |-> ZeroByte]), !.size = n]
BitsetInitEx(count, growth, threshold) ==
    Bitset(count, WithZeros(VectorInitEx(BitsToBytes(count), growth, threshold), BitsToBytes(count)))
BitsetInitBuffer(count, capacity) ==
    IF capacity < BitsToBytes(count) THEN Fails("INSUFFICIENT_BUFFER_SIZE", Bitset(0, VectorInitCustomBuffer(1)))
    ELSE Success(Bitset(count, WithZeros(VectorInitCustomBuffer(capacity), BitsToBytes(count))))

(* The bits, as far as there are bytes for them. *)
Bits(b) ==
    [k \in 1 .. (IF b.size < Width * b.bits.size THEN b.size ELSE Width * b.bits.size) |->
        b.bits.cells[((k - 1) \div Width) + 1][((k - 1) % Width) + 1]]

(* One bit becomes what Change makes of it. *)
BitChanged(b, i, Change(_)) ==
    IF i >= b.size THEN Fails("OUT_OF_RANGE", b)
    ELSE IF VectorGet(b.bits, i \div Width) = <<>> THEN Fails("OUT_OF_RANGE", b)
    ELSE Success([b EXCEPT !.bits.cells[(i \div Width) + 1][(i % Width) + 1] = Change(@)])
BitsetSet(b, i) == BitChanged(b, i, LAMBDA bit : 1)
BitsetReset(b, i) == BitChanged(b, i, LAMBDA bit : 0)
BitsetToggle(b, i) == BitChanged(b, i, LAMBDA bit : 1 - bit)
BitsetAssign(b, i, bit) == IF bit = 1 THEN BitsetSet(b, i) ELSE BitsetReset(b, i)

(* All bytes, the bits behind the last one included. *)
BytesChanged(b, n, Change(_, _)) ==
    [b EXCEPT !.bits.cells = [k \in DOMAIN @ |-> IF k <= n THEN [j \in 1..Width |-> Change(k, j)] ELSE @[k]]]
BitsetFlip(b) == Success(BytesChanged(b, b.bits.size, LAMBDA k, j : 1 - b.bits.cells[k][j]))
BitsetSetAll(b) == Success(BytesChanged(b, b.bits.size, LAMBDA k, j : 1))
BitsetResetAll(b) == Success(BytesChanged(b, b.bits.size, LAMBDA k, j : 0))

(* The bytes that both have are combined bit by bit. *)
PerformByteOperation(b, source, operation) ==
    LET n == IF b.bits.size < source.bits.size THEN b.bits.size ELSE source.bits.size IN
    Success(BytesChanged(b, n, LAMBDA k, j : operation[b.bits.cells[k][j]][source.bits.cells[k][j]]))
BitAnd == [x \in {0, 1} |-> [y \in {0, 1} |-> IF x = 1 /\ y = 1 THEN 1 ELSE 0]]
BitOr == [x \in {0, 1} |-> [y \in {0, 1} |-> IF x = 1 \/ y = 1 THEN 1 ELSE 0]]
BitXor == [x \in {0, 1} |-> [y \in {0, 1} |-> IF x = y THEN 0 ELSE 1]]

Above(n) == IF n = Wrap - 1 THEN 0 ELSE n + 1
Below(n) == IF n = 0 THEN Wrap - 1 ELSE n - 1

(* The size counts the bit before there is a byte for it. *)
BitsetPush(b, bit) ==
    LET more == [b EXCEPT !.size = Above(@)] IN
    IF b.size % Width = 0
    THEN Check(OnBits(more, VectorPushBack(b.bits, ZeroByte)), LAMBDA w : BitsetAssign(w, b.size, bit))
    ELSE BitsetAssign(more, b.size, bit)

(* Below nothing is the largest size. *)
BitsetPop(b) ==
    LET fewer == [b EXCEPT !.size = Below(@)] IN
    IF fewer.size % Width = 0 THEN OnBits(fewer, VectorPopBack(b.bits)) ELSE Success(fewer)

BitsetClear(b) == OnBits([b EXCEPT !.size = 0], VectorClear(b.bits))
BitsetReserve(b, count) == OnBits(b, VectorReserve(b.bits, BitsToBytes(count)))
BitsetShrinkToFit(b) == OnBits(b, VectorShrinkToFit(b.bits))
=============================================================================
