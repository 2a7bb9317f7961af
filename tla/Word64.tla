------------------------------- MODULE Word64 -------------------------------
(***************************************************************************)
(* Integers of 64 bits as they lie in memory: eight bytes, least           *)
(* significant first.  The union of a signed and an unsigned integer that  *)
(* Zydis keeps immediates in is one word with two readings.                *)
(***************************************************************************)
EXTENDS Integers, Sequences

(* The bits hi..lo of a byte. *)
Bits(b, hi, lo) == (b \div 2^lo) % 2^(hi - lo + 1)
Bit(b, n) == Bits(b, n, n)

Zero == [i \in 1 .. 8 |-> 0]

Negative(bytes) == bytes # <<>> /\ bytes[Len(bytes)] >= 128

Extend(bytes, fill) == [i \in 1 .. 8 |-> IF i <= Len(bytes) THEN bytes[i] ELSE fill]
ZeroExtend(bytes) == Extend(bytes, 0)
SignExtend(bytes) == Extend(bytes, IF Negative(bytes) THEN 255 ELSE 0)

LowBytes(w, n) == SubSeq(w, 1, n)

(* The word is what its low n bytes extend to. *)
FitsUnsigned(w, n) == w = ZeroExtend(LowBytes(w, n))
FitsSigned(w, n) == w = SignExtend(LowBytes(w, n))

(* Small integers, of at most 16 bits and a sign. *)
FromSmall(i) ==
    SignExtend(<<i % 256, (i \div 256) % 256, (i \div 65536) % 256>>)
ToSmall(w) ==
    w[1] + 256 * w[2] + 65536 * (IF w[3] >= 128 THEN w[3] - 256 ELSE w[3])

(* Sums and differences wrap around. *)
Carries(a, b) ==
    LET sum[i \in 0 .. 8] == IF i = 0 THEN 0 ELSE a[i] + b[i] + (sum[i - 1] \div 256) IN sum
Plus(a, b) == [i \in 1 .. 8 |-> Carries(a, b)[i] % 256]
Minus(a, b) == Plus(Plus(a, [i \in 1 .. 8 |-> 255 - b[i]]), FromSmall(1))

(* Past the last address, where the end of the address space itself is not past it. *)
Wraps(a, b) == Carries(a, b)[8] >= 256 /\ Plus(a, b) # Zero

(* Division by 2^n for n below 8, rounding down, and what leaves no remainder. *)
ShiftRight(w, n) ==
    LET At(i) == IF i <= 8 THEN w[i] ELSE IF Negative(w) THEN 255 ELSE 0 IN
    [i \in 1 .. 8 |-> (At(i) \div 2^n) + ((At(i + 1) * 2^(8 - n)) % 256)]

IsMultiple(w, n) == w[1] % 2^n = 0
=============================================================================
