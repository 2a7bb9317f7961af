---------------------------- MODULE Containers ----------------------------
(***************************************************************************)
(* One container of Zycore at a time, made, used and destroyed by a caller *)
(* that makes the calls below with arguments in range and just behind it.  *)
(* A constructor of an item may fail, and a call that needs memory may get *)
(* none; a vector that got none is not used any more, its capacity being   *)
(* wrong by then, only destroyed.  A set of bits whose size went wrong is  *)
(* used as before: it is of the kind "adrift", until it is cleared.        *)
(***************************************************************************)
EXTENDS ZyanString, ZyanList, ZyanBitset

CONSTANTS
    Values,   \* what the callers store
    MaxItems,   \* how long a container without a limit may become
    Growth,     \* the factor a vector grows by
    Threshold,  \* the factor it shrinks at, 0 for never
    Unlimited

(* A vector is not to grow when it shrinks: where it shrinks at all, it does so   *)
(* at a factor no smaller than the one it grows by, as with the factors of        *)
(* Vector.h:58-63 and Bitset.c:35.                                                *)
ASSUME ContainerAssumption ==
    /\ MaxItems \in Nat /\ Width \in Nat \ {0} /\ Unlimited \notin Nat
    /\ Wrap \in Nat /\ MaxItems + 1 < Wrap - Width /\ (Wrap - 1) % Width # 0
    /\ Growth \in Nat \ {0} /\ Threshold \in Nat /\ (Threshold = 0 \/ Growth <= Threshold)
    /\ Values \cup {Junk} \subseteq Int

VARIABLES
    kind,       \* "vector", "string", "list", "bitset", "adrift", or "none"
    body,       \* the container
    watched,    \* whether it has a destructor
    call,       \* the last call, as Container names it, and its status
    dropped     \* the items that were given to the destructor

containerVars == <<kind, body, watched, call, dropped>>

Sizes == 0..MaxItems
Texts == UNION {[1..n -> Values] : n \in 0..2}
AtMostOne == {<<>>} \cup {<<x>> : x \in Values}

(* What may be in the memory of a string: what was written to it, in either case. *)
Characters ==
    LET C == Values \cup {Junk, NUL} IN
    C \cup {WithBit32(c) : c \in C \cap UpperCase} \cup {Flipped(c) : c \in C \cap LowerCase}

Operation(op, at, count, new) == [op |-> op, at |-> at, count |-> count, new |-> new, status |-> "none"]
Insert(at, new) == Operation("insert", at, 0, new)
Delete(at, count) == Operation("delete", at, count, <<>>)
Overwrite(at, new) == Operation("overwrite", at, 0, new)
Swap(i, j) == Operation("swap", i, j, <<>>)
Resize(size, new) == Operation("resize", 0, size, new)
Fill(size, new) == Operation("fill", 0, size, new)
Reserve(size) == Operation("reserve", 0, size, <<>>)
LastOf(size) == IF size = 0 THEN 0 ELSE size - 1

Tally(s) == [x \in ToSet(s) |-> Cardinality({k \in DOMAIN s : s[k] = x})]

Called(c, status, out) ==
    /\ call' = [c EXCEPT !.status = status]
    /\ dropped' = Tally(IF watched THEN out ELSE <<>>)

ContainerInit ==
    /\ kind = "none" /\ body = <<>> /\ watched = FALSE
    /\ call = Operation("none", 0, 0, <<>>) /\ dropped = Tally(<<>>)

-----------------------------------------------------------------------------
(* A constructor that is refused makes nothing. *)
Make(what, made, destructor, new) ==
    /\ kind = "none"
    /\ kind' = what /\ body' = made /\ watched' = destructor
    /\ Called(Operation("create", 0, 0, new), "SUCCESS", <<>>)

MakeWith(what, r, destructor, new) == r.status = "SUCCESS" /\ Make(what, r.v, destructor, new)

CreateVector(destructor) ==
    \E capacity \in Sizes, source \in Texts :
        \/ source = <<>> /\ Make("vector", VectorInitEx(capacity, Growth, Threshold), destructor, <<>>)
        \/ source = <<>> /\ capacity > 0 /\ Make("vector", VectorInitCustomBuffer(capacity), destructor, <<>>)
        \/ source # <<>> /\ LET v == Filled(VectorInitCustomBuffer(Len(source)), source) IN
            \/ Make("vector", VectorDuplicateEx(v, capacity, Growth, Threshold), destructor, source)
            \/ capacity > 0 /\ MakeWith("vector", VectorDuplicateCustomBuffer(v, capacity), destructor, source)

CreateString ==
    \E capacity \in Sizes, a, b \in Texts :
        \/ a = <<>> /\ b = <<>> /\ Make("string", StringInitEx(capacity, Growth, Threshold), FALSE, <<>>)
        \/ a = <<>> /\ b = <<>> /\ capacity > 0 /\ Make("string", StringInitCustomBuffer(capacity), FALSE, <<>>)
        \/ b = <<>> /\ Make("string", StringDuplicateEx(ViewInsideBuffer(a), capacity, Growth, Threshold), FALSE, a)
        \/ b = <<>> /\ MakeWith("string", StringDuplicateCustomBuffer(ViewInsideBuffer(a), capacity), FALSE, a)
        \/ Len(a \o b) <= MaxItems /\ LET v == ViewInsideBuffer(a)  w == ViewInsideBuffer(b) IN
            \/ Make("string", StringConcatEx(v, w, capacity, Growth, Threshold), FALSE, a \o b)
            \/ MakeWith("string", StringConcatCustomBuffer(v, w, capacity), FALSE, a \o b)

CreateList(destructor) ==
    \/ Make("list", ListInitEx, destructor, <<>>)
    \/ \E slots \in 1..MaxItems : Make("list", ListInitCustomBuffer(slots), destructor, <<>>)

(* Bits that do not fill their last byte have no memory for it. *)
Backed(b) == b.size <= Width * b.bits.size
SetOf(b) == IF Backed(b) THEN "bitset" ELSE "adrift"

CreateBitset ==
    \E count \in Sizes, capacity \in 0 .. (MaxItems \div Width) :
        LET zeros == [k \in 1..count |-> 0]
            b == BitsetInitEx(count, Growth, Threshold)
            r == BitsetInitBuffer(count, capacity)
        IN  \/ Make(SetOf(b), b, FALSE, zeros)
            \/ capacity > 0 /\ MakeWith(SetOf(r.v), r, FALSE, zeros)

-----------------------------------------------------------------------------
(* A call on the container as it is in s. *)

Returned(c, r) ==
    /\ body' = r.v
    /\ Called(c, r.status, r.out)
    /\ UNCHANGED <<kind, watched>>

(* The allocator may have nothing for this call. *)
Spent(v) == ~v.memory
MemoryFor(v) == {[v EXCEPT !.memory = m] : m \in IF v.dynamic THEN BOOLEAN ELSE {TRUE}}
AfterCall(r) == [r EXCEPT !.v.memory = r.status # "NOT_ENOUGH_MEMORY"]

Room(v, size) == v.dynamic => size <= MaxItems

VectorReturned(c, r) == Returned(c, AfterCall(r))

VectorInserts(v) ==
    \/ \E x \in Values : Room(v, v.size + 1) /\ VectorReturned(Insert(v.size, <<x>>), VectorPushBack(v, x))
    \/ \E i \in 0 .. v.size + 1, new \in Texts :
        Room(v, v.size + Len(new)) /\ VectorReturned(Insert(i, new), VectorInsertRange(v, i, new))
    \/ \E i \in 0 .. v.size + 1, x \in Values, constructed \in BOOLEAN :
        /\ Room(v, v.size + 1)
        /\ VectorReturned(Insert(i, <<x>>), VectorEmplaceEx(v, i, x, constructed))

VectorDeletes(v) ==
    \/ \E i, n \in 0 .. v.size + 1 : i + n <= v.size + 1 /\ VectorReturned(Delete(i, n), VectorDeleteRange(v, i, n))
    \/ VectorReturned(Delete(LastOf(v.size), 1), VectorPopBack(v))
    \/ VectorReturned(Resize(0, <<>>), VectorClear(v))

VectorChanges(v) ==
    \/ \E i \in 0 .. v.size, x \in Values : VectorReturned(Overwrite(i, <<x>>), VectorSet(v, i, x))
    \/ \E i, j \in 0 .. v.size : VectorReturned(Swap(i, j), VectorSwapElements(v, i, j))
    \/ \E size \in 0 .. MaxItems + 1, new \in AtMostOne :
        Room(v, size) /\ VectorReturned(Resize(size, new), VectorResizeEx(v, size, new))

VectorFits(v) ==
    \/ \E size \in Sizes : VectorReturned(Reserve(size), VectorReserve(v, size))
    \/ VectorReturned(Reserve(0), VectorShrinkToFit(v))

VectorCall ==
    /\ kind = "vector" /\ ~Spent(body)
    /\ \E v \in MemoryFor(body) : VectorInserts(v) \/ VectorDeletes(v) \/ VectorChanges(v) \/ VectorFits(v)

-----------------------------------------------------------------------------
(* A place behind the terminator is taken for the end. *)
Place(s, i) == IF i = s.size THEN i - 1 ELSE i

StringInserts(s) ==
    \E text \in Texts, i \in 0 .. s.size + 1, from, n \in 0..2 :
        LET view == ViewInsideBuffer(text)
            part == SubSeq(text, from + 1, from + n)
        IN  /\ Room(s, s.size + Len(text))
            /\ \/ from = 0 /\ n = 0 /\ VectorReturned(Insert(Place(s, i), text), StringInsert(s, i, view))
               \/ from = 0 /\ n = 0 /\ i = 0 /\ VectorReturned(Insert(s.size - 1, text), StringAppend(s, view))
               \/ from + n <= Len(text) /\ VectorReturned(Insert(Place(s, i), part), StringInsertEx(s, i, view, from, n))
               \/ /\ from + n <= Len(text) /\ i = 0
                  /\ VectorReturned(Insert(s.size - 1, part), StringAppendEx(s, view, from, n))

StringDeletes(s) ==
    \/ \E i, n \in 0 .. s.size : i + n <= s.size /\ VectorReturned(Delete(i, n), StringDelete(s, i, n))
    \/ \E i \in 0 .. s.size : VectorReturned(Delete(i, IF i < s.size THEN s.size - 1 - i ELSE 0), StringTruncate(s, i))
    \/ VectorReturned(Resize(0, <<>>), StringClear(s))

(* What a call that changes case is to write. *)
Cased(s, i, n, from, by) ==
    [k \in 1..n |-> LET c == s.cells[i + k] IN IF c \in from THEN c + by ELSE c]

StringChanges(s) ==
    \/ \E i \in 0 .. s.size, c \in Values : VectorReturned(Overwrite(i, <<c>>), StringSetChar(s, i, c))
    \/ \E i, n \in 0 .. s.size - 1 : i + n < s.size /\
        \/ VectorReturned(Overwrite(i, Cased(s, i, n, 65..90, 32)), StringToLowerCaseEx(s, i, n))
        \/ VectorReturned(Overwrite(i, Cased(s, i, n, 97..122, -32)), StringToUpperCaseEx(s, i, n))
    \/ \E i, n \in 0 .. s.size - 1 : i + n >= s.size /\
        \E r \in {StringToLowerCaseEx(s, i, n), StringToUpperCaseEx(s, i, n)} :
            VectorReturned(Overwrite(i, [k \in 1..n |-> NUL]), r)
    \/ \E size \in 0 .. MaxItems : VectorReturned(Resize(size, <<>>), StringResize(s, size))

StringFits(s) ==
    \/ \E size \in Sizes : VectorReturned(Reserve(size - 1), StringReserve(s, size))
    \/ VectorReturned(Reserve(0), StringShrinkToFit(s))

StringCall ==
    /\ kind = "string" /\ ~Spent(body)
    /\ \E s \in MemoryFor(body) : StringInserts(s) \/ StringDeletes(s) \/ StringChanges(s) \/ StringFits(s)

-----------------------------------------------------------------------------
ListReturned(c, r) == Returned(c, [r EXCEPT !.v.memory = 0])

ListCall ==
    /\ kind = "list"
    /\ \E nodes \in IF body.dynamic THEN 0..2 ELSE {0} :
        LET l == [body EXCEPT !.memory = nodes] IN
        \/ /\ Room(l, l.size + 1)
           /\ \E x \in Values :
                \/ ListReturned(Insert(l.size, <<x>>), ListPushBack(l, x))
                \/ ListReturned(Insert(0, <<x>>), ListPushFront(l, x))
        \/ ListReturned(Delete(LastOf(l.size), 1), ListPopBack(l))
        \/ ListReturned(Delete(0, 1), ListPopFront(l))
        \/ \E k \in 1 .. l.size, x \in Values :
            ListReturned(Overwrite(k - 1, <<x>>), ListSetNodeData(l, Path(l)[k], x))
        \/ \E size \in 0 .. MaxItems + 1, new \in AtMostOne :
            Room(l, size) /\ ListReturned(Fill(size, new), ListResizeEx(l, size, new))
        \/ ListReturned(Fill(0, <<>>), ListClear(l))

-----------------------------------------------------------------------------
(* A set is adrift as soon as it counts a bit that has no byte, and stays so. *)
BitsetReturned(c, r) ==
    /\ body' = [r.v EXCEPT !.bits.memory = r.status # "NOT_ENOUGH_MEMORY"]
    /\ Called(c, r.status, r.out)
    /\ kind' = IF Backed(r.v) THEN kind ELSE "adrift"
    /\ UNCHANGED watched

Other(b) == [b EXCEPT !.bits.cells = [k \in DOMAIN @ |-> [j \in 1..Width |-> j % 2]]]
Combined(b, operation) == [k \in 1 .. Len(Bits(b)) |-> operation[Bits(b)[k]][Bits(Other(b))[k]]]

BitChanges(b) ==
    \E i \in 0 .. b.size :
        \/ BitsetReturned(Overwrite(i, <<1>>), BitsetSet(b, i))
        \/ BitsetReturned(Overwrite(i, <<0>>), BitsetReset(b, i))
        \/ BitsetReturned(Overwrite(i, <<IF i < Len(Bits(b)) THEN 1 - Bits(b)[i + 1] ELSE 0>>), BitsetToggle(b, i))
        \/ \E bit \in {0, 1} : BitsetReturned(Overwrite(i, <<bit>>), BitsetAssign(b, i, bit))

ByteChanges(b) ==
    \/ BitsetReturned(Overwrite(0, [k \in 1 .. Len(Bits(b)) |-> 1 - Bits(b)[k]]), BitsetFlip(b))
    \/ BitsetReturned(Overwrite(0, [k \in 1 .. Len(Bits(b)) |-> 1]), BitsetSetAll(b))
    \/ BitsetReturned(Overwrite(0, [k \in 1 .. Len(Bits(b)) |-> 0]), BitsetResetAll(b))
    \/ BitsetReturned(Overwrite(0, Combined(b, BitAnd)), PerformByteOperation(b, Other(b), BitAnd))
    \/ BitsetReturned(Overwrite(0, Combined(b, BitOr)), PerformByteOperation(b, Other(b), BitOr))
    \/ BitsetReturned(Overwrite(0, Combined(b, BitXor)), PerformByteOperation(b, Other(b), BitXor))

(* The bounds of a size: a little above MaxItems, and Width below nothing. *)
BelowNothing(b) == kind = "adrift" /\ b.size >= Wrap - Width

SizeChanges(b) ==
    \/ /\ b.size <= MaxItems \/ BelowNothing(b)
       /\ \E bit \in {0, 1} : BitsetReturned(Insert(b.size, <<bit>>), BitsetPush(b, bit))
    \/ /\ b.size <= MaxItems + 1 \/ (BelowNothing(b) /\ b.size # Wrap - Width)
       /\ BitsetReturned(Delete(LastOf(b.size), 1), BitsetPop(b))
    \/ \E count \in Sizes : BitsetReturned(Reserve(count), BitsetReserve(b, count))
    \/ BitsetReturned(Reserve(0), BitsetShrinkToFit(b))

ClearBits(b) ==
    /\ body' = [BitsetClear(b).v EXCEPT !.bits.memory = TRUE] /\ kind' = "bitset"
    /\ Called(Resize(0, <<>>), BitsetClear(b).status, <<>>)
    /\ UNCHANGED watched

BitsetCall ==
    /\ kind \in {"bitset", "adrift"} /\ ~Spent(body.bits)
    /\ \E v \in MemoryFor(body.bits) :
        LET b == WithBits(body, v) IN BitChanges(b) \/ ByteChanges(b) \/ SizeChanges(b) \/ ClearBits(b)

-----------------------------------------------------------------------------
Held ==
    CASE kind = "vector" -> Contents(body)
      [] kind = "string" -> Text(body)
      [] kind = "list" -> ItemsOf(body)
      [] kind \in {"bitset", "adrift"} -> Bits(body)
      [] kind = "none" -> <<>>

(* The size that the set of bits tells, which is not the one of its bytes. *)
Told == IF kind \in {"bitset", "adrift"} THEN body.size ELSE Len(Held)

Sort ==
    CASE kind = "bitset" -> "bits"
      [] kind = "adrift" -> "adrift"
      [] OTHER -> "items"

Limit ==
    CASE kind = "vector" /\ ~body.dynamic -> body.capacity
      [] kind = "string" /\ ~body.dynamic -> body.capacity - 1
      [] kind = "list" /\ ~body.dynamic -> body.slots
      [] kind \in {"bitset", "adrift"} /\ ~body.bits.dynamic -> body.bits.capacity * Width
      [] OTHER -> Unlimited

(* The destructors of the four; a list is cleared by it, a bitset and a *)
(* string have no items that need one.                                  *)
DestroyedItems ==
    CASE kind = "vector" -> VectorDestroy(body).out
      [] kind = "list" -> ListClear(body).out
      [] OTHER -> <<>>

Destroy ==
    /\ kind # "none"
    /\ kind' = "none" /\ body' = <<>> /\ watched' = FALSE
    /\ Called(Operation("destroy", 0, 0, <<>>), "SUCCESS", DestroyedItems)

ContainerNext ==
    \/ \E destructor \in BOOLEAN : CreateVector(destructor)
    \/ CreateString
    \/ \E destructor \in BOOLEAN : CreateList(destructor)
    \/ CreateBitset
    \/ VectorCall \/ StringCall \/ ListCall \/ BitsetCall
    \/ Destroy

ContainerSpec == ContainerInit /\ [][ContainerNext]_containerVars

-----------------------------------------------------------------------------
(***************************************************************************)
(* ImplementsContainer: whatever sequence of these calls is made, in or    *)
(* out of range, with or without memory, the four containers do what       *)
(* Container says: the contents move and change as the call asks, a call   *)
(* that is refused changes nothing, and the destructor is called for the   *)
(* items that leave and for no other (Vector.c, String.c, List.c,          *)
(* Bitset.c).  The exceptions are the ones that Container names, and no    *)
(* more: an item that is emplaced in the middle by a constructor that      *)
(* fails (Vector.c:515-526), and a set of bits whose size is not the       *)
(* number of its bits any more: made with bits that do not fill a byte     *)
(* (Bitset.c:58-59), told to take a bit there is no room for (414), or to  *)
(* drop one when it has none (430).                                        *)
(***************************************************************************)
Abstract ==
    INSTANCE Container WITH Items <- Characters \cup {0, 1, Blank}, Largest <- Wrap - 1,
        items <- Held, told <- Told, sort <- Sort, limit <- Limit

ImplementsContainer == Abstract!Spec

(* The nodes of a list form one chain both ways; those that wait to be     *)
(* used again are no part of it, and with it they are the nodes that were  *)
(* ever taken: all that were allocated, or the first ones of the buffer.   *)
NodesOnce(l) ==
    LET path == Path(l)  unused == Unused(l) IN
    /\ Len(path) = l.size
    /\ \A k \in DOMAIN path :
        /\ l.nodes[path[k]].prev = IF k = 1 THEN NoNode ELSE path[k - 1]
        /\ l.nodes[path[k]].next = IF k = Len(path) THEN NoNode ELSE path[k + 1]
    /\ l.tail = IF path = <<>> THEN NoNode ELSE path[Len(path)]
    /\ IsInjective(path \o unused)
    /\ ToSet(path \o unused) = IF l.dynamic THEN DOMAIN l.nodes ELSE 1 .. Len(path) + Len(unused)

InMemory(v) == v.size <= v.capacity /\ (~Spent(v) => v.capacity = Len(v.cells))

(***************************************************************************)
(* WellFormed: between two calls a list has every node once, in one chain  *)
(* or in the store of unused ones, so that no node is lost or handed out   *)
(* twice; a vector lies inside the memory it has; a string ends with NUL;  *)
(* a bitset whose bits were all stored, and none taken from it when it was *)
(* empty, has as many bytes as its bits need, and any other lies inside    *)
(* its memory all the same (List.c:60, Vector.c:84, String.c:37,           *)
(* Bitset.c:407-431).                                                      *)
(***************************************************************************)
WellFormed ==
    /\ kind = "list" => NodesOnce(body)
    /\ kind = "vector" => InMemory(body)
    /\ kind = "string" => InMemory(body) /\ body.size > 0 /\ body.cells[body.size] = NUL
    /\ kind \in {"bitset", "adrift"} => InMemory(body.bits)
    /\ kind = "bitset" => body.bits.size = (body.size + Width - 1) \div Width

-----------------------------------------------------------------------------
(* What the searches look for, read off the contents. *)
Least(S) == IF S = {} THEN -1 ELSE CHOOSE x \in S : \A y \in S : x <= y
Greatest(S) == IF S = {} THEN -1 ELSE CHOOSE x \in S : \A y \in S : x >= y

Occurrences(text, needle, low, high, case) ==
    {p \in low .. high - Len(needle) : \A k \in DOMAIN needle : Same(text[p + k], needle[k], case)}

(* A needle is a string of C, which has no NUL inside. *)
Needles == UNION {[1..n -> (Values \cup {Junk}) \ {NUL}] : n \in 1..2}

VectorSearches(v) ==
    \A x \in Values \cup {Junk}, i, n \in 0 .. v.size :
        LET part == SubSeq(v.cells, i + 1, i + n)
            found == VectorBinarySearchEx(v, x, i, n)
        IN  i < v.size /\ i + n <= v.size =>
            /\ VectorFindEx(v, x, i, n) = Least({k \in i .. i + n - 1 : v.cells[k + 1] = x})
            /\ (\A j, k \in DOMAIN part : j < k => part[j] <= part[k]) =>
                /\ found.index = i + Cardinality({k \in DOMAIN part : part[k] < x})
                /\ found.found = (x \in ToSet(part))

StringSearches(s, case) ==
    \A needle \in Needles, i, n \in 0 .. s.size - 1 :
        LET view == ViewInsideBuffer(needle) IN
        /\ i + n < s.size =>
            LPosEx(s, view, i, n, case) = Least(Occurrences(Text(s), needle, i, i + n, case))
        /\ n <= i =>
            RPosEx(s, view, i, n, case) = Greatest(Occurrences(Text(s), needle, i - n, i, case))

Compares(s, case) ==
    \A text \in Texts :
        (StringCompare(s, ViewInsideBuffer(text), case) = 0) <=>
            (Len(text) = s.size - 1 /\ \A k \in DOMAIN text : Same(s.cells[k], text[k], case))

(***************************************************************************)
(* SearchesExact: a search from either end finds the first occurrence that *)
(* lies wholly in the range it is given and none that does not, with and   *)
(* without regard to case; the binary search of a sorted range ends at the *)
(* first element that is not less; strings compare as equal only if they   *)
(* are.  (Vector.c:653-745, String.c:566-924)                              *)
(***************************************************************************)
SearchesExact ==
    /\ kind = "vector" => VectorSearches(body)
    /\ kind = "string" => \A case \in BOOLEAN : StringSearches(body, case) /\ Compares(body, case)
=============================================================================
