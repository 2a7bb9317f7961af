---------------------------- MODULE ZyanString ----------------------------
(***************************************************************************)
(* Zycore's strings: a vector of characters whose last element is always   *)
(* NUL, so that it is a string of C as well.  Views are the strings that   *)
(* other operations read; they are vectors in a memory of somebody else.   *)
(***************************************************************************)
EXTENDS ZyanVector, Functions

NUL == 0
UpperCase == 65..90
LowerCase == 97..122
Bit32 == 32

Flipped(c) == IF (c \div Bit32) % 2 = 0 THEN c + Bit32 ELSE c - Bit32
WithBit32(c) == IF (c \div Bit32) % 2 = 0 THEN c + Bit32 ELSE c

Text(s) == SubSeq(s.cells, 1, s.size - 1)

NullTerminated(s) == [s EXCEPT !.cells[s.size] = NUL]
Terminated(r) == IF r.status = "SUCCESS" THEN [r EXCEPT !.v = NullTerminated(r.v)] ELSE r

(* A view inside a string of C *)
ViewInsideBuffer(text) == Filled(VectorInitCustomBuffer(Len(text) + 1), Append(text, NUL))

MinStringCapacity == 32

Emptied(v) == NullTerminated([v EXCEPT !.size = 1])
StringInitEx(capacity, growth, threshold) ==
    Emptied(VectorInitEx(AtLeast(MinStringCapacity, capacity) + 1, growth, threshold))
StringInitCustomBuffer(capacity) == Emptied(VectorInitCustomBuffer(capacity))

(* The new string has room for the text at least. *)
Holding(s, text) == NullTerminated(Filled(s, Append(text, NUL)))
StringConcatEx(a, b, capacity, growth, threshold) ==
    LET text == Text(a) \o Text(b) IN Holding(StringInitEx(AtLeast(Len(text), capacity), growth, threshold), text)
StringConcatCustomBuffer(a, b, capacity) ==
    IF capacity <= Len(Text(a) \o Text(b)) THEN Fails("INSUFFICIENT_BUFFER_SIZE", a)
    ELSE Success(Holding(StringInitCustomBuffer(capacity), Text(a) \o Text(b)))
StringDuplicateEx(a, capacity, growth, threshold) ==
    Holding(StringInitEx(AtLeast(a.size - 1, capacity), growth, threshold), Text(a))
StringDuplicateCustomBuffer(a, capacity) ==
    IF capacity < a.size THEN Fails("INSUFFICIENT_BUFFER_SIZE", a)
    ELSE Success(Holding(StringInitCustomBuffer(capacity), Text(a)))

(* NUL cannot be got or set. *)
StringSetChar(s, i, c) == IF i + 1 >= s.size THEN Fails("OUT_OF_RANGE", s) ELSE VectorSet(s, i, c)

(* The text is written from the old NUL on. *)
Appended(s, text) ==
    Check(VectorResizeEx(s, s.size + Len(text), <<>>),
        LAMBDA t : Success(NullTerminated([t EXCEPT !.cells = Written(t.cells, s.size - 1, text)])))

StringAppend(s, view) == Appended(s, Text(view))

StringAppendEx(s, view, from, n) ==
    IF from + n >= view.size THEN Fails("OUT_OF_RANGE", s) ELSE Appended(s, SubSeq(view.cells, from + 1, from + n))

StringInsert(s, i, view) ==
    IF i = s.size THEN StringAppend(s, view)
    ELSE IF i > s.size THEN Fails("OUT_OF_RANGE", s)
    ELSE VectorInsertRange(s, i, Text(view))

StringInsertEx(s, i, view, from, n) ==
    IF i = s.size THEN StringAppendEx(s, view, from, n)
    ELSE IF i > s.size \/ from + n >= view.size THEN Fails("OUT_OF_RANGE", s)
    ELSE VectorInsertRange(s, i, SubSeq(view.cells, from + 1, from + n))

StringDelete(s, i, n) ==
    IF i + n >= s.size THEN Fails("OUT_OF_RANGE", s) ELSE Terminated(VectorDeleteRange(s, i, n))

StringTruncate(s, i) ==
    IF i >= s.size THEN Fails("OUT_OF_RANGE", s) ELSE Terminated(VectorDeleteRange(s, i, s.size - i - 1))

StringClear(s) == Check(VectorClear(s), LAMBDA t : Success(Emptied(t)))

(* Characters of another case, n of them from index i on. *)
Recased(s, i, n, from, Change(_)) ==
    IF i + n >= s.size THEN Fails("OUT_OF_RANGE", s)
    ELSE Success([s EXCEPT !.cells =
            [k \in DOMAIN s.cells |-> IF k \in i + 1 .. i + n /\ @[k] \in from THEN Change(@[k]) ELSE @[k]]])
StringToLowerCaseEx(s, i, n) == Recased(s, i, n, UpperCase, WithBit32)
StringToUpperCaseEx(s, i, n) == Recased(s, i, n, LowerCase, Flipped)

StringResize(s, size) == Terminated(VectorResizeEx(s, size + 1, <<>>))
StringReserve(s, capacity) == VectorReserve(s, capacity)
StringShrinkToFit(s) == VectorShrinkToFit(s)

-----------------------------------------------------------------------------
(* Searching, with or without regard to case. *)

Same(c, d, case) == c = d \/ (~case /\ Flipped(c) = d)

(* A haystack that is just the needle is not searched. *)
X_NotSearched(h, needle) == h.size = 1 \/ needle.size = 1 \/ h.size <= needle.size

NotSearched(h, needle) == h.size = 1 \/ needle.size = 1 \/ h.size < needle.size

Earliest(S) == CHOOSE x \in S : \A y \in S : x <= y
Latest(S) == CHOOSE x \in S : \A y \in S : x >= y

(* An attempt reads the needle from its begin to its NUL, no character of the *)
(* haystack behind the last one, and k of them until it knows.                *)
AttemptFrom(h, needle, p, last, case) ==
    LET k == Earliest({j \in 0 .. needle.size - 1 :
                p + j > last \/ needle.cells[j + 1] = NUL \/ ~Same(h.cells[p + j + 1], needle.cells[j + 1], case)})
    IN  IF p + k > last THEN "over" ELSE IF needle.cells[k + 1] = NUL THEN "found" ELSE "next"

(* From the left, over n characters from index i on: the first attempt that does *)
(* not ask for a next one decides.                                               *)
LPosEx(h, needle, i, n, case) ==
    LET Attempt(p) == AttemptFrom(h, needle, p, i + n, case)
        decided == {p \in i .. h.size - 2 : Same(h.cells[p + 1], needle.cells[1], case) /\ Attempt(p) # "next"}
    IN  IF i + n >= h.size THEN "OUT_OF_RANGE"
        ELSE IF NotSearched(h, needle) \/ decided = {} THEN -1
        ELSE IF Attempt(Earliest(decided)) = "found" THEN Earliest(decided) ELSE -1

(* An attempt that reads the needle from its end, and the haystack from p down *)
(* to the first character.                                                     *)
AttemptUpTo(h, needle, p, first, case) ==
    LET all == needle.size - 1
        k == Earliest({j \in 0..all :
                j = all \/ p - j < first \/ ~Same(h.cells[p - j + 1], needle.cells[all - j], case)})
    IN  IF k = all THEN "found" ELSE IF p - k < first THEN "over" ELSE "next"

(* From the right, over n characters in front of index i *)
RPosEx(h, needle, i, n, case) ==
    LET all == needle.size - 1
        Attempt(p) == AttemptUpTo(h, needle, p, i - n, case)
        decided == {p \in 0 .. i - 1 : Same(h.cells[p + 1], needle.cells[all], case) /\ Attempt(p) # "next"}
    IN  IF i >= h.size \/ n > i THEN "OUT_OF_RANGE"
        ELSE IF i = 0 \/ n = 0 \/ NotSearched(h, needle) \/ decided = {} THEN -1
        ELSE IF Attempt(Latest(decided)) = "found" THEN Latest(decided) - all + 1 ELSE -1

(* The shorter one is less; of two as long, the first difference decides. *)
StringCompare(a, b, case) ==
    LET differ == {k \in 1 .. a.size - 1 : ~Same(a.cells[k], b.cells[k], case)}
        k      == IF differ = {} THEN a.size ELSE Earliest(differ)
    IN  CASE a.size < b.size -> -1
          [] a.size > b.size -> 1
          [] a.size = b.size -> IF a.cells[k] = b.cells[k] THEN 0
                                ELSE IF WithBit32(a.cells[k]) < WithBit32(b.cells[k]) THEN -1 ELSE 1
=============================================================================
