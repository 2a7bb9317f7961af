---------------------------- MODULE ArrayProofs -----------------------------
(***************************************************************************)
(* Proofs about the containers of Containers that keep their items in one  *)
(* block of memory: whatever is stored, however long they may become and   *)
(* by whatever factors they grow and shrink, each call on a vector, a      *)
(* string or a bitset keeps the container in its memory and does what      *)
(* Container promises.  ContainersProofs joins them with the list.         *)
(***************************************************************************)
EXTENDS Containers, SequenceTheorems, FiniteSetTheorems, WellFoundedInduction, TLAPS

-----------------------------------------------------------------------------
(* Numbers *)

LEMMA LeastNumber ==
    ASSUME NEW T \in SUBSET Nat, T # {}
    PROVE  \E x \in T : \A y \in T : x <= y
  <1>1. PICK x \in T : \A y \in T : ~(<<y, x>> \in OpToRel(<, Nat))
    BY NatLessThanWellFounded, WFMin
  <1>2. \A y \in T : ~(y < x)
    BY <1>1 DEF OpToRel
  <1> QED  BY <1>2

(* What a factor does to a size *)
LEMMA Factors ==
    ASSUME NEW n \in Nat, NEW g \in Nat \ {0}
    PROVE  /\ n * g \in Nat /\ n <= n * g
           /\ \A t \in Nat : g <= t => n * g <= n * t
  <1>1. n * g \in Nat /\ n <= n * g
    OBVIOUS
  <1>2. ASSUME NEW t \in Nat, g <= t
        PROVE  n * g <= n * t
    BY <1>2
  <1> QED  BY <1>1, <1>2

-----------------------------------------------------------------------------
(* Memory *)

LEMMA WrittenCells ==
    ASSUME NEW S, NEW cells \in Seq(S), NEW at \in Nat, NEW new \in Seq(S)
    PROVE  /\ Written(cells, at, new) \in Seq(S)
           /\ Len(Written(cells, at, new)) = Len(cells)
           /\ \A k \in 1..Len(cells) :
                Written(cells, at, new)[k] = IF at < k /\ k <= at + Len(new) THEN new[k - at] ELSE cells[k]
  <1>1. DOMAIN cells = 1..Len(cells) /\ Len(cells) \in Nat /\ Len(new) \in Nat
    OBVIOUS
  <1>2. \A k \in 1..Len(cells) :
            Written(cells, at, new)[k] = IF at < k /\ k <= at + Len(new) THEN new[k - at] ELSE cells[k]
    BY <1>1 DEF Written
  <1>3. \A k \in 1..Len(cells) : Written(cells, at, new)[k] \in S
    <2> TAKE k \in 1..Len(cells)
    <2>1. cells[k] \in S /\ (at < k /\ k <= at + Len(new) => new[k - at] \in S)
      OBVIOUS
    <2> QED  BY <1>2, <2>1
  <1>4. Written(cells, at, new) = [k \in 1..Len(cells) |-> Written(cells, at, new)[k]]
    BY <1>1 DEF Written
  <1> HIDE DEF Written
  <1> QED  BY <1>1, <1>2, <1>3, <1>4

LEMMA MovedCells ==
    ASSUME NEW S, NEW cells \in Seq(S), NEW from \in Nat, NEW to \in Nat, NEW n \in Nat, from + n <= Len(cells)
    PROVE  /\ Moved(cells, from, to, n) \in Seq(S)
           /\ Len(Moved(cells, from, to, n)) = Len(cells)
           /\ \A k \in 1..Len(cells) :
                Moved(cells, from, to, n)[k] = IF to < k /\ k <= to + n THEN cells[from + k - to] ELSE cells[k]
  <1> DEFINE new == SubSeq(cells, from + 1, from + n)
  <1>1. new \in Seq(S) /\ Len(new) = n /\ \A k \in 1..n : new[k] = cells[from + k]
    OBVIOUS
  <1>2. Moved(cells, from, to, n) = Written(cells, to, new)
    BY DEF Moved
  <1> HIDE DEF new
  <1>3. /\ Written(cells, to, new) \in Seq(S)
        /\ Len(Written(cells, to, new)) = Len(cells)
        /\ \A k \in 1..Len(cells) :
             Written(cells, to, new)[k] = IF to < k /\ k <= to + n THEN new[k - to] ELSE cells[k]
    BY <1>1, WrittenCells
  <1>4. \A k \in 1..Len(cells) : to < k /\ k <= to + n => new[k - to] = cells[from + k - to]
    BY <1>1
  <1> QED  BY <1>2, <1>3, <1>4

(* Two sequences are the same when their elements are. *)
LEMMA SameSequence ==
    ASSUME NEW S, NEW s \in Seq(S), NEW T, NEW t \in Seq(T), Len(s) = Len(t), \A k \in 1..Len(s) : s[k] = t[k]
    PROVE  s = t
  OBVIOUS

LEMMA BlockOfCells ==
    ASSUME NEW S, Junk \in S, NEW cells \in Seq(S), NEW n \in Nat
    PROVE  LET block == SubSeq(cells \o Cells(n), 1, n) IN
           /\ block \in Seq(S) /\ Len(block) = n
           /\ \A k \in 1..n : k <= Len(cells) => block[k] = cells[k]
  <1> DEFINE more == Cells(n)
             all == cells \o more
  <1>1. more \in Seq(S) /\ Len(more) = n /\ Len(cells) \in Nat
    BY DEF Cells
  <1> HIDE DEF more
  <1>2. /\ all \in Seq(S) /\ Len(all) = Len(cells) + n
        /\ \A k \in 1..Len(cells) : all[k] = cells[k]
    <2>1. /\ all \in Seq(S) /\ Len(all) = Len(cells) + Len(more)
          /\ \A k \in 1 .. Len(cells) + Len(more) : all[k] = IF k <= Len(cells) THEN cells[k]
             ELSE more[k - Len(cells)]
      BY <1>1, ConcatProperties
    <2> HIDE DEF all
    <2> QED  BY <1>1, <2>1
  <1> HIDE DEF all
  <1>3. n <= Len(all)
    BY <1>1, <1>2
  <1>4. SubSeq(all, 1, n) \in Seq(S) /\ Len(SubSeq(all, 1, n)) = n /\ \A k \in 1..n : SubSeq(all, 1, n)[k] = all[k]
    BY <1>2, <1>3
  <1> QED  BY <1>1, <1>2, <1>4 DEF all, more

-----------------------------------------------------------------------------
(* Vectors *)

(* A vector of elements of S, whether it can be used or not *)
VectorOf(S) ==
    [cells : Seq(S), size : Nat, capacity : Nat, growth : Nat, threshold : Nat, dynamic : BOOLEAN, memory : BOOLEAN]

(* One that is not dynamic neither grows nor shrinks. *)
Settled(v) ==
    /\ v.capacity >= 1
    /\ v.growth >= 1 /\ (v.threshold = 0 \/ v.growth <= v.threshold)
    /\ ~v.dynamic => v.growth = 1 /\ v.threshold = 0 /\ v.memory

Sound(v) == Settled(v) /\ v.size <= v.capacity /\ v.size <= Len(v.cells)

VectorsOf(S) == {v \in VectorOf(S) : Sound(v)}

(* The capacity is that of the memory. *)
Fit(v) == v.capacity = Len(v.cells)

(* The part that calls do not change *)
Kin(v, w) ==
    /\ w.growth = v.growth /\ w.threshold = v.threshold /\ w.dynamic = v.dynamic /\ w.memory = v.memory
    /\ ~v.dynamic => w.capacity = v.capacity

(* A call for which there is no memory, and one for which there is no room *)
NoMemory(v, r) ==
    v.dynamic /\ \E n \in Nat : n > v.capacity /\ r = Fails("NOT_ENOUGH_MEMORY", [v EXCEPT !.capacity = n])

NoRoomFor(v, r, size) == ~v.dynamic /\ v.capacity < size /\ r = Fails("INSUFFICIENT_BUFFER_SIZE", v)

(* Elements are where they were, as far as they are elements still. *)
Kept(v, w, size) == \A k \in 1..size : k <= v.size => w.cells[k] = v.cells[k]

(* What a reallocation comes to *)
LEMMA Reallocated ==
    ASSUME NEW S, Junk \in S, NEW v \in VectorOf(S), Fit(v), NEW n \in Nat
    PROVE  LET r == Reallocate(v, n) IN
           \/ /\ r = Success(v)
              /\ v.dynamic => n = 0 /\ v.capacity <= 1
              /\ ~v.dynamic => n <= v.capacity
           \/ /\ v.dynamic
              /\ \E w \in VectorOf(S) :
                    /\ r = Success(w) /\ Kin(v, w) /\ Fit(w) /\ w.size = v.size
                    /\ w.capacity = (IF n >= 1 THEN n ELSE 1)
                    /\ \A k \in 1..w.capacity : k <= Len(v.cells) => w.cells[k] = v.cells[k]
           \/ /\ v.dynamic /\ n > v.capacity
              /\ r = Fails("NOT_ENOUGH_MEMORY", [v EXCEPT !.capacity = n])
           \/ NoRoomFor(v, r, n)
  <1>1. /\ v.cells \in Seq(S) /\ Len(v.cells) \in Nat /\ v.capacity \in Nat /\ v.size \in Nat
        /\ v.dynamic \in BOOLEAN /\ v.memory \in BOOLEAN
    BY DEF VectorOf
  <1>2. CASE ~v.dynamic
    BY <1>1, <1>2 DEF Reallocate, NoRoomFor, Success, Fails
  <1>3. ASSUME v.dynamic, NEW m \in Nat, m >= 1, m = (IF n >= 1 THEN n ELSE 1), v.memory \/ m <= Len(v.cells),
               Reallocate(v, n) = WithBlock(v, m)
        PROVE  \E w \in VectorOf(S) :
                    /\ Reallocate(v, n) = Success(w) /\ Kin(v, w) /\ Fit(w) /\ w.size = v.size
                    /\ w.capacity = m
                    /\ \A k \in 1..w.capacity : k <= Len(v.cells) => w.cells[k] = v.cells[k]
    <2> DEFINE block == SubSeq(v.cells \o Cells(m), 1, m)
               w == [v EXCEPT !.capacity = m, !.cells = block]
    <2>1. block \in Seq(S) /\ Len(block) = m /\ \A k \in 1..m : k <= Len(v.cells) => block[k] = v.cells[k]
      BY <1>1, BlockOfCells
    <2>2. Reallocate(v, n) = Success(w)
      BY <1>3 DEF WithBlock
    <2> HIDE DEF block
    <2>3. /\ w \in VectorOf(S) /\ w.capacity = m /\ w.cells = block /\ w.size = v.size
          /\ w.growth = v.growth /\ w.threshold = v.threshold /\ w.dynamic = v.dynamic /\ w.memory = v.memory
      BY <2>1 DEF VectorOf
    <2>4. Kin(v, w) /\ Fit(w)
      BY <1>3, <2>1, <2>3 DEF Kin, Fit
    <2> HIDE DEF w
    <2> QED  BY <2>1, <2>2, <2>3, <2>4
  <1>4. CASE v.dynamic /\ n >= 1
    <2>1. Reallocate(v, n) = WithBlock(v, n)
      BY <1>4 DEF Reallocate, MinCapacity
    <2>2. CASE v.memory \/ n <= Len(v.cells)
      BY <1>3, <1>4, <2>1, <2>2
    <2>3. CASE ~(v.memory \/ n <= Len(v.cells))
      BY <1>1, <1>4, <2>1, <2>3 DEF WithBlock, Fit
    <2> QED  BY <2>2, <2>3
  <1>5. CASE v.dynamic /\ ~(n >= 1) /\ v.capacity > 1
    <2>1. Reallocate(v, n) = WithBlock(v, 1) /\ 1 <= Len(v.cells)
      BY <1>1, <1>5 DEF Reallocate, MinCapacity, Fit
    <2> QED  BY <1>3, <1>5, <2>1
  <1>6. CASE v.dynamic /\ ~(n >= 1) /\ ~(v.capacity > 1)
    <2>1. Reallocate(v, n) = Success(v)
      BY <1>1, <1>6 DEF Reallocate, MinCapacity
    <2> QED  BY <1>1, <1>6, <2>1
  <1> QED  BY <1>1, <1>2, <1>4, <1>5, <1>6

(* Growing: there is room for the size that is asked for, or nothing happens. *)
LEMMA GrownVector ==
    ASSUME NEW S, Junk \in S, NEW v \in VectorsOf(S), Fit(v), NEW n \in Nat
    PROVE  LET r == Grown(v, v.size + n) IN
           \/ \E w \in VectorsOf(S) :
                /\ r = Success(w) /\ Kin(v, w) /\ Fit(w) /\ w.size = v.size
                /\ Kept(v, w, v.size) /\ v.size + n <= Len(w.cells)
           \/ NoMemory(v, r)
           \/ NoRoomFor(v, r, v.size + n)
  <1> DEFINE size == v.size + n
             r == Grown(v, size)
             want == AtLeast(1, size * v.growth)
  <1>1. /\ v \in VectorOf(S) /\ Sound(v) /\ v.cells \in Seq(S) /\ Len(v.cells) \in Nat /\ v.capacity \in Nat
        /\ v.size \in Nat /\ v.growth \in Nat \ {0} /\ v.dynamic \in BOOLEAN /\ v.memory \in BOOLEAN
        /\ v.threshold \in Nat
    BY DEF VectorOf, VectorsOf, Sound, Settled
  <1>2. CASE ~(size > v.capacity)
    <2>1. r = Success(v)
      BY <1>2 DEF Grown, ShouldGrow
    <2>2. Kin(v, v) /\ Kept(v, v, v.size) /\ v.size + n <= Len(v.cells)
      BY <1>1, <1>2 DEF Kin, Kept, Fit
    <2> QED  BY <1>1, <2>1, <2>2
  <1>3. CASE size > v.capacity
    <2>1. size \in Nat /\ size * v.growth \in Nat /\ size <= size * v.growth
      <3>1. size \in Nat
        BY <1>1
      <3> HIDE DEF size
      <3> QED  BY <1>1, <3>1, Factors
    <2>2. want \in Nat /\ want >= size /\ want >= 1
      BY <2>1 DEF AtLeast
    <2>3. r = Reallocate(v, want)
      BY <1>3 DEF Grown, ShouldGrow
    <2>4. size > v.size /\ want > v.capacity
      BY <1>1, <1>3, <2>1, <2>2 DEF Sound, Settled
    <2> HIDE DEF r
    <2>5. v.growth = 1 /\ ~v.dynamic => want = size
      BY <1>1, <1>3, <2>1 DEF AtLeast, Sound, Settled
    <2> HIDE DEF size, want
    <2>6. \/ /\ r = Success(v)
             /\ v.dynamic => want = 0 /\ v.capacity <= 1
             /\ ~v.dynamic => want <= v.capacity
          \/ /\ v.dynamic
             /\ \E w \in VectorOf(S) :
                  /\ r = Success(w) /\ Kin(v, w) /\ Fit(w) /\ w.size = v.size
                  /\ w.capacity = (IF want >= 1 THEN want ELSE 1)
                  /\ \A k \in 1..w.capacity : k <= Len(v.cells) => w.cells[k] = v.cells[k]
          \/ /\ v.dynamic /\ want > v.capacity
             /\ r = Fails("NOT_ENOUGH_MEMORY", [v EXCEPT !.capacity = want])
          \/ NoRoomFor(v, r, want)
      BY <1>1, <2>2, <2>3, Reallocated
    <2>7. ~(r = Success(v) /\ (v.dynamic => want = 0 /\ v.capacity <= 1) /\ (~v.dynamic => want <= v.capacity))
      BY <1>1, <2>2, <2>4
    <2>8. ASSUME NEW w \in VectorOf(S), v.dynamic, r = Success(w), Kin(v, w), Fit(w), w.size = v.size,
                 w.capacity = (IF want >= 1 THEN want ELSE 1),
                 \A k \in 1..w.capacity : k <= Len(v.cells) => w.cells[k] = v.cells[k]
          PROVE  w \in VectorsOf(S) /\ Kept(v, w, v.size) /\ size <= Len(w.cells)
      <3>1. /\ w.size \in Nat /\ w.capacity = want /\ Len(w.cells) = want /\ w.size <= want
            /\ w.growth = v.growth /\ w.threshold = v.threshold /\ w.dynamic = v.dynamic
        BY <1>1, <2>1, <2>2, <2>4, <2>8 DEF Kin, Fit
      <3>2. Sound(w)
        BY <1>1, <2>2, <2>8, <3>1 DEF Sound, Settled
      <3>3. Kept(v, w, v.size)
        BY <1>1, <2>2, <2>8, <3>1 DEF Kept, Sound, Settled
      <3> QED  BY <2>2, <2>8, <3>1, <3>2, <3>3 DEF VectorsOf
    <2>9. ASSUME v.dynamic, r = Fails("NOT_ENOUGH_MEMORY", [v EXCEPT !.capacity = want])
          PROVE  NoMemory(v, r)
      BY <2>2, <2>4, <2>9 DEF NoMemory
    <2>10. NoRoomFor(v, r, want) => NoRoomFor(v, r, size)
      BY <1>1, <2>5 DEF NoRoomFor, Sound, Settled
    <2> QED  BY <2>6, <2>7, <2>8, <2>9, <2>10 DEF r, size
  <1> QED  BY <1>2, <1>3

(* Room in front of the element at i: those from i on have moved by n. *)
LEMMA OpenedVector ==
    ASSUME NEW S, Junk \in S, NEW v \in VectorsOf(S), Fit(v), NEW i \in 0..v.size, NEW n \in Nat
    PROVE  LET r == Opened(v, i, n) IN
           \/ \E w \in VectorsOf(S) :
                /\ r = Success(w) /\ Kin(v, w) /\ Fit(w) /\ w.size = v.size /\ v.size + n <= Len(w.cells)
                /\ \A k \in 1..v.size + n :
                    /\ k <= i => w.cells[k] = v.cells[k]
                    /\ k <= i + n /\ k <= v.size => w.cells[k] = v.cells[k]
                    /\ k > i + n => w.cells[k] = v.cells[k - n]
           \/ NoMemory(v, r)
           \/ NoRoomFor(v, r, v.size + n)
  <1> DEFINE g == Grown(v, v.size + n)
             Continue(w) == Success(IF i < w.size THEN ShiftRight(w, i, n) ELSE w)
  <1>1. v \in VectorOf(S) /\ Sound(v) /\ v.size \in Nat /\ i \in Nat /\ i <= v.size /\ v.cells \in Seq(S)
    BY DEF VectorOf, VectorsOf
  <1>2. Opened(v, i, n) = IF g.status = "SUCCESS" THEN Continue(g.v) ELSE g
    BY DEF Opened, Check
  <1>3. \/ \E w \in VectorsOf(S) :
             /\ g = Success(w) /\ Kin(v, w) /\ Fit(w) /\ w.size = v.size
             /\ Kept(v, w, v.size) /\ v.size + n <= Len(w.cells)
        \/ NoMemory(v, g)
        \/ NoRoomFor(v, g, v.size + n)
    BY GrownVector
  <1> HIDE DEF g
  <1>4. CASE NoMemory(v, g)
    <2>1. Opened(v, i, n) = g
      BY <1>2, <1>4 DEF NoMemory, Fails, Result
    <2> QED  BY <1>4, <2>1
  <1>5. CASE NoRoomFor(v, g, v.size + n)
    <2>1. Opened(v, i, n) = g
      BY <1>2, <1>5 DEF NoRoomFor, Fails, Result
    <2> QED  BY <1>5, <2>1
  <1>6. ASSUME NEW w \in VectorsOf(S), g = Success(w), Kin(v, w), Fit(w), w.size = v.size,
               Kept(v, w, v.size), v.size + n <= Len(w.cells)
        PROVE  \E u \in VectorsOf(S) :
                /\ Opened(v, i, n) = Success(u) /\ Kin(v, u) /\ Fit(u) /\ u.size = v.size
                   /\ v.size + n <= Len(u.cells)
                /\ \A k \in 1..v.size + n :
                    /\ k <= i => u.cells[k] = v.cells[k]
                    /\ k <= i + n /\ k <= v.size => u.cells[k] = v.cells[k]
                    /\ k > i + n => u.cells[k] = v.cells[k - n]
    <2>1. Opened(v, i, n) = Success(IF i < w.size THEN ShiftRight(w, i, n) ELSE w)
      BY <1>2, <1>6 DEF Success, Result
    <2>2. CASE i = v.size
      <3>1. Opened(v, i, n) = Success(w)
        BY <1>1, <1>6, <2>1, <2>2
      <3> QED  BY <1>1, <1>6, <2>2, <3>1 DEF Kept
    <2>3. CASE i < v.size
      <3> DEFINE moved == Moved(w.cells, i, i + n, w.size - i)
                 u == [w EXCEPT !.cells = moved]
      <3>1. Opened(v, i, n) = Success(u)
        BY <1>1, <1>6, <2>1, <2>3 DEF ShiftRight
      <3>2. w \in VectorOf(S) /\ Sound(w) /\ w.cells \in Seq(S) /\ Len(w.cells) \in Nat
        BY DEF VectorOf, VectorsOf
      <3>3. w.size - i \in Nat /\ i + n \in Nat /\ i + (w.size - i) <= Len(w.cells)
        BY <1>1, <1>6, <3>2 DEF Sound, Settled
      <3>4. /\ moved \in Seq(S) /\ Len(moved) = Len(w.cells)
            /\ \A k \in 1..Len(w.cells) :
                 moved[k] = IF i + n < k /\ k <= i + n + (w.size - i) THEN w.cells[i + k - (i + n)] ELSE w.cells[k]
        BY <1>1, <3>2, <3>3, MovedCells
      <3> HIDE DEF moved
      <3>5. /\ u \in VectorOf(S) /\ u.cells = moved /\ u.size = w.size /\ u.capacity = w.capacity
            /\ u.growth = w.growth /\ u.threshold = w.threshold /\ u.dynamic = w.dynamic /\ u.memory = w.memory
        BY <3>2, <3>4 DEF VectorOf
      <3> HIDE DEF u
      <3>6. Sound(u) /\ Kin(v, u) /\ Fit(u)
        BY <1>6, <3>2, <3>4, <3>5 DEF Sound, Settled, Kin, Fit
      <3>7. ASSUME NEW k \in 1..v.size + n
            PROVE  /\ k <= i => u.cells[k] = v.cells[k]
                   /\ k <= i + n /\ k <= v.size => u.cells[k] = v.cells[k]
                   /\ k > i + n => u.cells[k] = v.cells[k - n]
        <4>1. k \in 1..Len(w.cells)
          BY <1>1, <1>6, <3>2
        <4>2. CASE k <= i + n /\ k <= v.size
          <5>1. u.cells[k] = w.cells[k] /\ k \in 1..v.size
            BY <1>1, <3>4, <3>5, <4>1, <4>2
          <5> QED  BY <1>1, <1>6, <4>2, <5>1 DEF Kept
        <4>3. CASE k > i + n
          <5>1. i + k - (i + n) = k - n /\ k <= i + n + (w.size - i) /\ k - n \in 1..v.size
            BY <1>1, <1>6, <4>3
          <5>2. u.cells[k] = w.cells[k - n]
            BY <1>1, <3>4, <3>5, <4>1, <4>3, <5>1
          <5>3. w.cells[k - n] = v.cells[k - n]
            BY <1>1, <1>6, <5>1 DEF Kept
          <5> QED  BY <1>1, <4>3, <5>2, <5>3
        <4>4. k <= i => k <= i + n /\ k <= v.size
          BY <1>1
        <4> QED  BY <1>1, <4>2, <4>3, <4>4
      <3> QED  BY <1>6, <3>1, <3>4, <3>5, <3>6, <3>7 DEF VectorsOf
    <2> QED  BY <1>1, <2>2, <2>3
  <1> QED  BY <1>3, <1>4, <1>5, <1>6

(* Some elements written into a vector that has the given size then *)
Overwritten(w, i, new, size) == [w EXCEPT !.cells = Written(w.cells, i, new), !.size = size]

LEMMA OverwrittenBlock ==
    ASSUME NEW S, NEW w \in VectorOf(S), Settled(w), Fit(w), NEW i \in Nat, NEW new \in Seq(S), NEW size \in Nat,
           size <= Len(w.cells)
    PROVE  LET u == Overwritten(w, i, new, size) IN
           /\ u \in VectorsOf(S) /\ Fit(u) /\ Kin(w, u) /\ u.size = size /\ Len(u.cells) = Len(w.cells)
           /\ \A k \in 1..Len(w.cells) : u.cells[k] = IF i < k /\ k <= i + Len(new) THEN new[k - i] ELSE w.cells[k]
  <1> DEFINE written == Written(w.cells, i, new)
             u == Overwritten(w, i, new, size)
  <1>1. w.cells \in Seq(S) /\ Len(w.cells) \in Nat
    BY DEF VectorOf
  <1>2. /\ written \in Seq(S) /\ Len(written) = Len(w.cells)
        /\ \A k \in 1..Len(w.cells) : written[k] = IF i < k /\ k <= i + Len(new) THEN new[k - i] ELSE w.cells[k]
    BY <1>1, WrittenCells
  <1>3. u = [w EXCEPT !.cells = written, !.size = size]
    BY DEF Overwritten
  <1> HIDE DEF written, u
  <1>4. /\ u \in VectorOf(S) /\ u.cells = written /\ u.size = size /\ u.capacity = w.capacity
        /\ u.growth = w.growth /\ u.threshold = w.threshold /\ u.dynamic = w.dynamic /\ u.memory = w.memory
    BY <1>1, <1>2, <1>3 DEF VectorOf
  <1>5. Sound(u) /\ Kin(w, u) /\ Fit(u)
    BY <1>1, <1>2, <1>4 DEF Sound, Settled, Kin, Fit
  <1> QED  BY <1>2, <1>4, <1>5 DEF VectorsOf, u

LEMMA OverwrittenVector ==
    ASSUME NEW S, NEW w \in VectorsOf(S), Fit(w), NEW i \in Nat, NEW new \in Seq(S), NEW size \in Nat,
           size <= Len(w.cells)
    PROVE  LET u == Overwritten(w, i, new, size) IN
           /\ u \in VectorsOf(S) /\ Fit(u) /\ Kin(w, u) /\ u.size = size /\ Len(u.cells) = Len(w.cells)
           /\ \A k \in 1..Len(w.cells) : u.cells[k] = IF i < k /\ k <= i + Len(new) THEN new[k - i] ELSE w.cells[k]
  <1>1. w \in VectorOf(S) /\ Settled(w)
    BY DEF VectorsOf, Sound
  <1> QED  BY <1>1, OverwrittenBlock

(* What the calls do to the elements of v *)
Inserted(v, w, i, new) ==
    /\ w.size = v.size + Len(new)
    /\ \A k \in 1..w.size :
        w.cells[k] = IF k <= i THEN v.cells[k] ELSE IF k <= i + Len(new) THEN new[k - i] ELSE v.cells[k - Len(new)]

Deleted(v, w, i, n) ==
    /\ w.size = v.size - n
    /\ \A k \in 1..w.size : w.cells[k] = IF k <= i THEN v.cells[k] ELSE v.cells[k + n]

Replaced(v, w, i, new) ==
    /\ w.size = v.size
    /\ \A k \in 1..w.size : w.cells[k] = IF i < k /\ k <= i + Len(new) THEN new[k - i] ELSE v.cells[k]

Extends(v, w, size, new) ==
    /\ w.size = size
    /\ \A k \in 1..size : IF k <= v.size THEN w.cells[k] = v.cells[k] ELSE new # <<>> => w.cells[k] = new[1]

LEMMA InsertedRange ==
    ASSUME NEW S, Junk \in S, NEW v \in VectorsOf(S), Fit(v), NEW i \in 0..v.size, NEW new \in Seq(S), new # <<>>
    PROVE  LET r == VectorInsertRange(v, i, new) IN
           \/ \E w \in VectorsOf(S) :
                r = Success(w) /\ Kin(v, w) /\ Fit(w) /\ Inserted(v, w, i, new)
           \/ NoMemory(v, r)
           \/ NoRoomFor(v, r, v.size + Len(new))
  <1> DEFINE n == Len(new)
             g == Opened(v, i, n)
             r == VectorInsertRange(v, i, new)
  <1>1. v \in VectorOf(S) /\ v.size \in Nat /\ i \in Nat /\ i <= v.size /\ n \in Nat
    BY DEF VectorOf, VectorsOf
  <1>2. r = IF g.status = "SUCCESS"
            THEN Success([g.v EXCEPT !.cells = Written(g.v.cells, i, new), !.size = g.v.size + n]) ELSE g
    BY <1>1 DEF VectorInsertRange, Check
  <1>3. \/ \E w \in VectorsOf(S) :
             /\ g = Success(w) /\ Kin(v, w) /\ Fit(w) /\ w.size = v.size /\ v.size + n <= Len(w.cells)
             /\ \A k \in 1..v.size + n :
                 /\ k <= i => w.cells[k] = v.cells[k]
                 /\ k > i + n => w.cells[k] = v.cells[k - n]
        \/ NoMemory(v, g)
        \/ NoRoomFor(v, g, v.size + n)
    BY <1>1, OpenedVector
  <1> HIDE DEF g, r, n
  <1>4. CASE NoMemory(v, g) \/ NoRoomFor(v, g, v.size + n)
    <2>1. r = g
      BY <1>2, <1>4 DEF NoMemory, NoRoomFor, Fails, Result
    <2> QED  BY <1>4, <2>1 DEF n, r
  <1>5. ASSUME NEW w \in VectorsOf(S), g = Success(w), Kin(v, w), Fit(w), w.size = v.size, v.size + n <= Len(w.cells),
               \A k \in 1..v.size + n :
                 /\ k <= i => w.cells[k] = v.cells[k]
                 /\ k > i + n => w.cells[k] = v.cells[k - n]
        PROVE  \E u \in VectorsOf(S) :
                /\ r = Success(u) /\ Kin(v, u) /\ Fit(u) /\ u.size = v.size + n
                /\ \A k \in 1..u.size :
                     u.cells[k] = IF k <= i THEN v.cells[k] ELSE IF k <= i + n THEN new[k - i] ELSE v.cells[k - n]
    <2> DEFINE size == v.size + n
               u == Overwritten(w, i, new, size)
    <2>1. r = Success(u)
      BY <1>2, <1>5 DEF Success, Result, Overwritten
    <2>2. v.size + n \in Nat /\ Len(w.cells) \in Nat /\ n = Len(new) /\ i \in Nat
      BY <1>1 DEF VectorsOf, VectorOf, n
    <2>6. w \in VectorsOf(S) /\ Fit(w) /\ i \in Nat /\ new \in Seq(S) /\ size \in Nat /\ size <= Len(w.cells)
      BY <1>5, <2>2
    <2>7. size = v.size + n
      OBVIOUS
    <2> HIDE DEF size
    <2>8. /\ u \in VectorsOf(S) /\ Fit(u) /\ Kin(w, u) /\ u.size = size /\ Len(u.cells) = Len(w.cells)
          /\ \A k \in 1..Len(w.cells) : u.cells[k] = IF i < k /\ k <= i + Len(new) THEN new[k - i] ELSE w.cells[k]
      BY ONLY <2>6, OverwrittenVector
    <2> HIDE DEF u
    <2>3. /\ u \in VectorsOf(S) /\ Fit(u) /\ Kin(w, u) /\ u.size = v.size + n /\ Len(u.cells) = Len(w.cells)
          /\ \A k \in 1..Len(w.cells) : u.cells[k] = IF i < k /\ k <= i + n THEN new[k - i] ELSE w.cells[k]
      BY <2>2, <2>7, <2>8
    <2> HIDE DEF u
    <2>4. \A k \in 1..u.size : k \in 1..Len(w.cells) /\ (i < k <=> ~(k <= i)) /\ k \in Nat
      BY <1>1, <1>5, <2>2, <2>3
    <2>5. \A k \in 1..u.size :
            u.cells[k] = IF k <= i THEN v.cells[k] ELSE IF k <= i + n THEN new[k - i] ELSE v.cells[k - n]
      <3> TAKE k \in 1..u.size
      <3>1. k \in 1..Len(w.cells) /\ k \in 1..v.size + n
        BY <2>3, <2>4
      <3>2. CASE k <= i
        BY <1>1, <1>5, <2>3, <2>4, <3>1, <3>2
      <3>3. CASE ~(k <= i) /\ k <= i + n
        BY <1>1, <2>3, <2>4, <3>1, <3>3
      <3>4. CASE ~(k <= i) /\ ~(k <= i + n)
        <4>1. k > i + n
          BY <1>1, <2>4, <3>4
        <4> QED  BY <1>1, <1>5, <2>3, <2>4, <3>1, <3>4, <4>1
      <3> QED  BY <3>2, <3>3, <3>4
    <2> QED  BY <1>5, <2>1, <2>3, <2>5 DEF Kin
  <1> QED  BY <1>3, <1>4, <1>5 DEF r, n, Inserted

LEMMA PushedBack ==
    ASSUME NEW S, Junk \in S, NEW v \in VectorsOf(S), Fit(v), NEW x \in S
    PROVE  LET r == VectorPushBack(v, x) IN
           \/ \E w \in VectorsOf(S) : r = Success(w) /\ Kin(v, w) /\ Fit(w) /\ Inserted(v, w, v.size, <<x>>)
           \/ NoMemory(v, r)
           \/ NoRoomFor(v, r, v.size + 1)
  <1> DEFINE g == Grown(v, v.size + 1)
             r == VectorPushBack(v, x)
  <1>1. v \in VectorOf(S) /\ v.size \in Nat
    BY DEF VectorOf, VectorsOf
  <1>2. r = IF g.status = "SUCCESS"
            THEN Success([g.v EXCEPT !.cells = Written(g.v.cells, g.v.size, <<x>>), !.size = @ + 1]) ELSE g
    BY DEF VectorPushBack, Check
  <1>3. \/ \E w \in VectorsOf(S) :
             /\ g = Success(w) /\ Kin(v, w) /\ Fit(w) /\ w.size = v.size
             /\ Kept(v, w, v.size) /\ v.size + 1 <= Len(w.cells)
        \/ NoMemory(v, g)
        \/ NoRoomFor(v, g, v.size + 1)
    BY GrownVector
  <1> HIDE DEF g, r
  <1>4. CASE NoMemory(v, g) \/ NoRoomFor(v, g, v.size + 1)
    <2>1. r = g
      BY <1>2, <1>4 DEF NoMemory, NoRoomFor, Fails, Result
    <2> QED  BY <1>4, <2>1 DEF r
  <1>5. ASSUME NEW w \in VectorsOf(S), g = Success(w), Kin(v, w), Fit(w), w.size = v.size,
               Kept(v, w, v.size), v.size + 1 <= Len(w.cells)
        PROVE  \E u \in VectorsOf(S) : r = Success(u) /\ Kin(v, u) /\ Fit(u) /\ Inserted(v, u, v.size, <<x>>)
    <2> DEFINE new == <<x>>
               i == v.size
               size == v.size + 1
               u == Overwritten(w, i, new, size)
    <2>1. w \in VectorOf(S)
      BY DEF VectorsOf
    <2>2. r = Success(u)
      BY <1>2, <1>5, <2>1 DEF Success, Result, Overwritten, VectorOf
    <2>3. size \in Nat /\ size = v.size + 1 /\ size <= Len(w.cells) /\ Len(w.cells) \in Nat
            /\ new \in Seq(S) /\ Len(new) = 1 /\ new[1] = x
      BY <1>1, <1>5, <2>1 DEF VectorOf
    <2>7. i \in Nat /\ i = v.size
      BY <1>1
    <2> HIDE DEF new, size, i
    <2>8. w \in VectorsOf(S) /\ Fit(w) /\ i \in Nat /\ new \in Seq(S) /\ size \in Nat /\ size <= Len(w.cells)
      BY <1>5, <2>3, <2>7
    <2>4. /\ u \in VectorsOf(S) /\ Fit(u) /\ Kin(w, u) /\ u.size = size
          /\ \A k \in 1..Len(w.cells) :
               u.cells[k] = IF i < k /\ k <= i + Len(new) THEN new[k - i] ELSE w.cells[k]
      BY ONLY <2>8, OverwrittenVector
    <2> HIDE DEF u
    <2>5. ASSUME NEW k \in 1..v.size + 1
          PROVE  u.cells[k] = IF k <= i THEN v.cells[k] ELSE IF k <= i + 1 THEN new[k - i]
                              ELSE v.cells[k - 1]
      <3>1. k \in 1..Len(w.cells)
        BY <1>1, <1>5, <2>3
      <3>2. CASE k <= v.size
        BY <1>1, <1>5, <2>4, <2>7, <3>1, <3>2 DEF Kept
      <3>3. CASE ~(k <= v.size)
        <4>1. k = i + 1 /\ k - i = 1
          BY <1>1, <2>3, <2>7, <3>3
        <4>2. i < k /\ k <= i + Len(new) /\ ~(k <= i) /\ k <= i + 1
          <5>1. Len(new) = 1 /\ i \in Nat
            BY <2>3, <2>7
          <5> QED  BY <4>1, <5>1
        <4>3. u.cells[k] = new[k - i]
          BY <2>4, <3>1, <4>2
        <4> QED  BY <4>2, <4>3
      <3> QED  BY <3>2, <3>3
    <2>6. Inserted(v, u, i, new)
      BY <2>3, <2>4, <2>5 DEF Inserted
    <2> QED  BY <1>5, <2>2, <2>4, <2>6, <2>7 DEF Kin, new
  <1> QED  BY <1>3, <1>4, <1>5 DEF r

(* An element whose constructor fails leaves the room that was made for it. *)
RoomLeft(v, w, i) ==
    w.size = v.size /\ \A k \in 1..v.size : w.cells[k] = IF k <= i + 1 THEN v.cells[k] ELSE v.cells[k - 1]

LEMMA Emplaced ==
    ASSUME NEW S, Junk \in S, NEW v \in VectorsOf(S), Fit(v), NEW i \in 0..v.size, NEW x \in S,
           NEW constructed \in BOOLEAN
    PROVE  LET r == VectorEmplaceEx(v, i, x, constructed) IN
           \/ \E w \in VectorsOf(S) : r = Success(w) /\ Kin(v, w) /\ Fit(w) /\ Inserted(v, w, i, <<x>>)
           \/ \E w \in VectorsOf(S) : r = Fails("FAILED", w) /\ Kin(v, w) /\ Fit(w) /\ RoomLeft(v, w, i)
           \/ NoMemory(v, r)
           \/ NoRoomFor(v, r, v.size + 1)
  <1> DEFINE g == Opened(v, i, 1)
             r == VectorEmplaceEx(v, i, x, constructed)
  <1>1. v \in VectorOf(S) /\ v.size \in Nat /\ i \in Nat /\ i <= v.size
    BY DEF VectorOf, VectorsOf
  <1>2. r = IF g.status # "SUCCESS" THEN g
            ELSE IF constructed THEN Success([g.v EXCEPT !.cells = Written(g.v.cells, i, <<x>>), !.size = @ + 1])
            ELSE Fails("FAILED", g.v)
    BY <1>1 DEF VectorEmplaceEx, Check
  <1>3. \/ \E w \in VectorsOf(S) :
             /\ g = Success(w) /\ Kin(v, w) /\ Fit(w) /\ w.size = v.size /\ v.size + 1 <= Len(w.cells)
             /\ \A k \in 1..v.size + 1 :
                 /\ k <= i => w.cells[k] = v.cells[k]
                 /\ k <= i + 1 /\ k <= v.size => w.cells[k] = v.cells[k]
                 /\ k > i + 1 => w.cells[k] = v.cells[k - 1]
        \/ NoMemory(v, g)
        \/ NoRoomFor(v, g, v.size + 1)
    BY <1>1, OpenedVector
  <1> HIDE DEF g, r
  <1>4. CASE NoMemory(v, g) \/ NoRoomFor(v, g, v.size + 1)
    <2>1. r = g
      BY <1>2, <1>4 DEF NoMemory, NoRoomFor, Fails, Result
    <2> QED  BY <1>4, <2>1 DEF r
  <1>5. ASSUME NEW w \in VectorsOf(S), g = Success(w), Kin(v, w), Fit(w), w.size = v.size, v.size + 1 <= Len(w.cells),
               \A k \in 1..v.size + 1 :
                 /\ k <= i => w.cells[k] = v.cells[k]
                 /\ k <= i + 1 /\ k <= v.size => w.cells[k] = v.cells[k]
                 /\ k > i + 1 => w.cells[k] = v.cells[k - 1]
        PROVE  \/ \E u \in VectorsOf(S) : r = Success(u) /\ Kin(v, u) /\ Fit(u) /\ Inserted(v, u, i, <<x>>)
               \/ \E u \in VectorsOf(S) :
                    r = Fails("FAILED", u) /\ Kin(v, u) /\ Fit(u) /\ RoomLeft(v, u, i)
    <2>1. w \in VectorOf(S)
      BY DEF VectorsOf
    <2>2. CASE ~constructed
      <3>1. r = Fails("FAILED", w)
        BY <1>2, <1>5, <2>2 DEF Success, Result
      <3>2. ASSUME NEW k \in 1..v.size
            PROVE  w.cells[k] = IF k <= i + 1 THEN v.cells[k] ELSE v.cells[k - 1]
        <4>1. k \in 1..v.size + 1 /\ k <= v.size
          BY <1>1
        <4> QED  BY <1>1, <1>5, <4>1
      <3>3. RoomLeft(v, w, i)
        BY <1>5, <3>2 DEF RoomLeft
      <3> QED  BY <1>5, <3>1, <3>3
    <2>3. CASE constructed
      <3> DEFINE new == <<x>>
                 size == v.size + 1
                 u == Overwritten(w, i, new, size)
      <3>2. r = Success(u)
        BY <1>2, <1>5, <2>1, <2>3 DEF Success, Result, Overwritten, VectorOf
      <3>3. size \in Nat /\ size = v.size + 1 /\ size <= Len(w.cells) /\ Len(w.cells) \in Nat
              /\ new \in Seq(S) /\ Len(new) = 1 /\ new[1] = x
        BY <1>1, <1>5, <2>1 DEF VectorOf
      <3> HIDE DEF new, size
      <3>4. /\ u \in VectorsOf(S) /\ Fit(u) /\ Kin(w, u) /\ u.size = size
            /\ \A k \in 1..Len(w.cells) :
                 u.cells[k] = IF i < k /\ k <= i + Len(new) THEN new[k - i] ELSE w.cells[k]
        <4>1. w \in VectorsOf(S) /\ Fit(w) /\ i \in Nat /\ new \in Seq(S) /\ size \in Nat /\ size <= Len(w.cells)
          BY <1>1, <1>5, <3>3
        <4> QED  BY ONLY <4>1, OverwrittenVector
      <3> HIDE DEF u
      <3>5. ASSUME NEW k \in 1..v.size + 1
            PROVE  u.cells[k] = IF k <= i THEN v.cells[k] ELSE IF k <= i + 1 THEN new[k - i] ELSE v.cells[k - 1]
        <4>1. k \in 1..Len(w.cells)
          BY <1>1, <1>5, <3>3
        <4>2. CASE k <= i
          BY <1>1, <1>5, <3>4, <4>1, <4>2
        <4>3. CASE k = i + 1
          BY <1>1, <3>3, <3>4, <4>1, <4>3
        <4>4. CASE k > i + 1
          BY <1>1, <1>5, <3>3, <3>4, <4>1, <4>4
        <4> QED  BY <1>1, <4>2, <4>3, <4>4
      <3>6. Inserted(v, u, i, new)
        BY <3>3, <3>4, <3>5 DEF Inserted
      <3> QED  BY <1>5, <3>2, <3>4, <3>6 DEF Kin, new
    <2> QED  BY <2>2, <2>3
  <1> QED  BY <1>3, <1>4, <1>5 DEF r

(* A vector that shrinks has a block for what is left: nothing is lost, and *)
(* memory is not needed.                                                    *)
LEMMA ShrunkVector ==
    ASSUME NEW S, Junk \in S, NEW v \in VectorsOf(S), Fit(v)
    PROVE  \E w \in VectorsOf(S) :
              Shrunk(v) = Success(w) /\ Kin(v, w) /\ Fit(w) /\ w.size = v.size /\ Kept(v, w, v.size)
  <1> DEFINE r == Shrunk(v)
             want == AtLeast(1, v.size * v.growth)
  <1>1. /\ v \in VectorOf(S) /\ Sound(v) /\ v.cells \in Seq(S) /\ Len(v.cells) \in Nat /\ v.capacity \in Nat
        /\ v.size \in Nat /\ v.growth \in Nat \ {0} /\ v.dynamic \in BOOLEAN /\ v.memory \in BOOLEAN
        /\ v.threshold \in Nat
    BY DEF VectorOf, VectorsOf, Sound, Settled
  <1>2. CASE ~ShouldShrink(v, v.size)
    <2>1. r = Success(v)
      BY <1>2 DEF Shrunk
    <2>2. Kin(v, v) /\ Kept(v, v, v.size)
      BY <1>1 DEF Kin, Kept
    <2> QED  BY <1>1, <2>1, <2>2
  <1>3. CASE ShouldShrink(v, v.size)
    <2>1. v.threshold # 0 /\ v.size * v.threshold < v.capacity /\ v.growth <= v.threshold /\ v.dynamic
      BY <1>1, <1>3 DEF ShouldShrink, Sound, Settled
    <2>2. /\ v.size * v.growth \in Nat /\ v.size <= v.size * v.growth
          /\ v.size * v.growth <= v.size * v.threshold /\ v.size * v.threshold \in Nat
      BY <1>1, <2>1, Factors
    <2>3. want \in Nat /\ want >= v.size /\ want >= 1 /\ want <= v.capacity
      BY <1>1, <2>1, <2>2 DEF AtLeast, Sound, Settled
    <2>4. r = Reallocate(v, want)
      BY <1>3 DEF Shrunk
    <2> HIDE DEF r, want
    <2>5. \/ /\ r = Success(v)
             /\ v.dynamic => want = 0 /\ v.capacity <= 1
             /\ ~v.dynamic => want <= v.capacity
          \/ /\ v.dynamic
             /\ \E w \in VectorOf(S) :
                  /\ r = Success(w) /\ Kin(v, w) /\ Fit(w) /\ w.size = v.size
                  /\ w.capacity = (IF want >= 1 THEN want ELSE 1)
                  /\ \A k \in 1..w.capacity : k <= Len(v.cells) => w.cells[k] = v.cells[k]
          \/ /\ v.dynamic /\ want > v.capacity
             /\ r = Fails("NOT_ENOUGH_MEMORY", [v EXCEPT !.capacity = want])
          \/ NoRoomFor(v, r, want)
      BY <1>1, <2>3, <2>4, Reallocated
    <2>6. ~(v.dynamic => want = 0 /\ v.capacity <= 1) /\ ~(want > v.capacity) /\ ~NoRoomFor(v, r, want)
      BY <1>1, <2>1, <2>3 DEF NoRoomFor
    <2>7. PICK w \in VectorOf(S) :
                  /\ r = Success(w) /\ Kin(v, w) /\ Fit(w) /\ w.size = v.size
                  /\ w.capacity = (IF want >= 1 THEN want ELSE 1)
                  /\ \A k \in 1..w.capacity : k <= Len(v.cells) => w.cells[k] = v.cells[k]
      BY <2>5, <2>6
    <2>8. /\ w.size \in Nat /\ w.capacity = want /\ Len(w.cells) = want /\ w.size <= want
          /\ w.growth = v.growth /\ w.threshold = v.threshold /\ w.dynamic = v.dynamic
      BY <1>1, <2>3, <2>7 DEF Kin, Fit
    <2>9. Sound(w)
      BY <1>1, <2>1, <2>3, <2>7, <2>8 DEF Sound, Settled
    <2>10. Kept(v, w, v.size)
      BY <1>1, <2>3, <2>7, <2>8 DEF Kept, Sound, Settled
    <2> QED  BY <2>7, <2>9, <2>10 DEF VectorsOf, r
  <1> QED  BY <1>2, <1>3

LEMMA OutOfSuccess ==
    ASSUME NEW w, NEW out
    PROVE  [Success(w) EXCEPT !.out = out] = Result("SUCCESS", w, out)
  BY DEF Success, Result

LEMMA DeletedRange ==
    ASSUME NEW S, Junk \in S, NEW v \in VectorsOf(S), Fit(v), NEW i \in Nat, NEW n \in Nat \ {0}, i + n <= v.size
    PROVE  LET r == VectorDeleteRange(v, i, n) IN
           \E w \in VectorsOf(S) :
              /\ r = Result("SUCCESS", w, SubSeq(v.cells, i + 1, i + n))
              /\ Kin(v, w) /\ Fit(w) /\ Deleted(v, w, i, n)
  <1> DEFINE w == IF i + n < v.size THEN ShiftLeft(v, i, n) ELSE v
             u == [w EXCEPT !.size = @ - n]
  <1>1. /\ v \in VectorOf(S) /\ Sound(v) /\ v.cells \in Seq(S) /\ Len(v.cells) \in Nat /\ v.size \in Nat
        /\ v.size <= Len(v.cells)
    BY DEF VectorOf, VectorsOf, Sound
  <1>2. VectorDeleteRange(v, i, n) = [Shrunk(u) EXCEPT !.out = SubSeq(v.cells, i + 1, i + n)]
    BY <1>1 DEF VectorDeleteRange
  <1>3. /\ u \in VectorOf(S) /\ u.size = v.size - n /\ u.capacity = v.capacity
        /\ u.growth = v.growth /\ u.threshold = v.threshold /\ u.dynamic = v.dynamic /\ u.memory = v.memory
        /\ Len(u.cells) = Len(v.cells)
        /\ \A k \in 1..v.size - n : u.cells[k] = IF k <= i THEN v.cells[k] ELSE v.cells[k + n]
    <2>1. CASE ~(i + n < v.size)
      <3>1. w = v /\ i + n = v.size
        BY <1>1, <2>1
      <3> HIDE DEF w
      <3> QED  BY <1>1, <3>1 DEF VectorOf
    <2>2. CASE i + n < v.size
      <3> DEFINE m == v.size - i - n
                 from == i + n
                 moved == Moved(v.cells, from, i, m)
      <3>1. w = [v EXCEPT !.cells = moved]
        BY <2>2 DEF ShiftLeft
      <3>2. m \in Nat /\ from \in Nat /\ from + m <= Len(v.cells) /\ from + m = v.size
        BY <1>1, <2>2
      <3> HIDE DEF w
      <3>3. /\ moved \in Seq(S) /\ Len(moved) = Len(v.cells)
            /\ \A k \in 1..Len(v.cells) :
                 moved[k] = IF i < k /\ k <= i + m THEN v.cells[from + k - i] ELSE v.cells[k]
        <4> HIDE DEF m, from
        <4> QED  BY <1>1, <3>2, MovedCells
      <3> HIDE DEF moved
      <3>4. /\ u \in VectorOf(S) /\ u.size = v.size - n /\ u.capacity = v.capacity /\ u.cells = moved
            /\ u.growth = v.growth /\ u.threshold = v.threshold /\ u.dynamic = v.dynamic /\ u.memory = v.memory
        <4>1. /\ w \in VectorOf(S) /\ w.size = v.size /\ w.capacity = v.capacity /\ w.cells = moved
              /\ w.growth = v.growth /\ w.threshold = v.threshold /\ w.dynamic = v.dynamic /\ w.memory = v.memory
          BY <1>1, <3>1, <3>3 DEF VectorOf
        <4>2. v.size - n \in Nat
          BY <1>1
        <4>3. u = [w EXCEPT !.size = v.size - n]
          BY <4>1
        <4> HIDE DEF u
        <4> QED  BY <4>1, <4>2, <4>3 DEF VectorOf
      <3>5. ASSUME NEW k \in 1..v.size - n
            PROVE  moved[k] = IF k <= i THEN v.cells[k] ELSE v.cells[k + n]
        <4>1. k \in 1..Len(v.cells) /\ k <= i + m /\ from + k - i = k + n /\ (i < k <=> ~(k <= i))
          BY <1>1, <2>2
        <4> HIDE DEF m, from
        <4> QED  BY <3>3, <4>1
      <3> QED  BY <3>3, <3>4, <3>5
    <2> QED  BY <2>1, <2>2
  <1> HIDE DEF w, u
  <1>4. u \in VectorsOf(S) /\ Fit(u) /\ Kin(v, u)
    BY <1>1, <1>3 DEF VectorsOf, Sound, Settled, Fit, Kin
  <1>5. PICK z \in VectorsOf(S) : Shrunk(u) = Success(z) /\ Kin(u, z) /\ Fit(z) /\ z.size = u.size
          /\ Kept(u, z, u.size)
    BY <1>4, ShrunkVector
  <1>6. VectorDeleteRange(v, i, n) = Result("SUCCESS", z, SubSeq(v.cells, i + 1, i + n))
    BY <1>2, <1>5, OutOfSuccess
  <1>7. Kin(v, z)
    BY <1>4, <1>5 DEF Kin
  <1>8. Deleted(v, z, i, n)
    BY <1>1, <1>3, <1>5 DEF Deleted, Kept
  <1> QED  BY <1>5, <1>6, <1>7, <1>8

LEMMA PoppedBack ==
    ASSUME NEW S, Junk \in S, NEW v \in VectorsOf(S), Fit(v), v.size > 0
    PROVE  LET r == VectorPopBack(v) IN
           \E w \in VectorsOf(S) :
              /\ r = Result("SUCCESS", w, <<v.cells[v.size]>>)
              /\ Kin(v, w) /\ Fit(w) /\ Deleted(v, w, v.size - 1, 1)
  <1> DEFINE u == [v EXCEPT !.size = @ - 1]
  <1>1. /\ v \in VectorOf(S) /\ Sound(v) /\ v.cells \in Seq(S) /\ Len(v.cells) \in Nat /\ v.size \in Nat
        /\ v.size <= Len(v.cells)
    BY DEF VectorOf, VectorsOf, Sound
  <1>2. VectorPopBack(v) = [Shrunk(u) EXCEPT !.out = <<v.cells[v.size]>>]
    <2>1. VectorGet(v, v.size - 1) = <<v.cells[v.size]>>
      BY <1>1 DEF VectorGet
    <2> QED  BY <1>1, <2>1 DEF VectorPopBack
  <1>3. /\ u \in VectorOf(S) /\ u.size = v.size - 1 /\ u.capacity = v.capacity /\ u.cells = v.cells
        /\ u.growth = v.growth /\ u.threshold = v.threshold /\ u.dynamic = v.dynamic /\ u.memory = v.memory
    BY <1>1 DEF VectorOf
  <1> HIDE DEF u
  <1>4. u \in VectorsOf(S) /\ Fit(u) /\ Kin(v, u)
    BY <1>1, <1>3 DEF VectorsOf, Sound, Settled, Fit, Kin
  <1>5. PICK z \in VectorsOf(S) : Shrunk(u) = Success(z) /\ Kin(u, z) /\ Fit(z) /\ z.size = u.size
          /\ Kept(u, z, u.size)
    BY <1>4, ShrunkVector
  <1>6. VectorPopBack(v) = Result("SUCCESS", z, <<v.cells[v.size]>>)
    BY <1>2, <1>5, OutOfSuccess
  <1>7. Kin(v, z)
    BY <1>4, <1>5 DEF Kin
  <1>8. Deleted(v, z, v.size - 1, 1)
    BY <1>1, <1>3, <1>5 DEF Deleted, Kept
  <1> QED  BY <1>5, <1>6, <1>7, <1>8

LEMMA SetElement ==
    ASSUME NEW S, NEW v \in VectorsOf(S), Fit(v), NEW i \in Nat, i < v.size, NEW x \in S
    PROVE  LET r == VectorSet(v, i, x) IN
           \E w \in VectorsOf(S) :
              r = Result("SUCCESS", w, <<v.cells[i + 1]>>) /\ Kin(v, w) /\ Fit(w) /\ Replaced(v, w, i, <<x>>)
  <1> DEFINE w == [v EXCEPT !.cells[i + 1] = x]
  <1>1. /\ v \in VectorOf(S) /\ Sound(v) /\ v.cells \in Seq(S) /\ Len(v.cells) \in Nat /\ v.size \in Nat
        /\ v.size <= Len(v.cells)
    BY DEF VectorOf, VectorsOf, Sound
  <1>2. VectorSet(v, i, x) = Result("SUCCESS", w, <<v.cells[i + 1]>>)
    BY <1>1 DEF VectorSet, VectorGet
  <1> DEFINE cells == [v.cells EXCEPT ![i + 1] = x]
  <1>3. /\ cells \in Seq(S) /\ Len(cells) = Len(v.cells)
        /\ \A k \in 1..Len(v.cells) : cells[k] = IF k = i + 1 THEN x ELSE v.cells[k]
    BY <1>1
  <1>4. w = [v EXCEPT !.cells = cells]
    BY <1>1 DEF VectorOf
  <1> HIDE DEF w, cells
  <1>5. /\ w \in VectorOf(S) /\ w.size = v.size /\ w.capacity = v.capacity /\ w.cells = cells
        /\ w.growth = v.growth /\ w.threshold = v.threshold /\ w.dynamic = v.dynamic /\ w.memory = v.memory
    BY <1>1, <1>3, <1>4 DEF VectorOf
  <1>6. w \in VectorsOf(S) /\ Fit(w) /\ Kin(v, w)
    BY <1>1, <1>3, <1>5 DEF VectorsOf, Sound, Settled, Fit, Kin
  <1>7. Replaced(v, w, i, <<x>>)
    <2> SUFFICES ASSUME NEW k \in 1..v.size
                 PROVE  cells[k] = IF i < k /\ k <= i + 1 THEN <<x>>[k - i] ELSE v.cells[k]
      BY <1>5 DEF Replaced
    <2>1. k \in 1..Len(v.cells) /\ (i < k /\ k <= i + 1 <=> k = i + 1)
      BY <1>1
    <2>2. CASE k = i + 1
      <3>1. <<x>>[k - i] = x
        BY <2>2
      <3>2. cells[k] = x /\ i < k /\ k <= i + 1
        BY <1>3, <2>1, <2>2
      <3> QED  BY <3>1, <3>2
    <2>3. CASE k # i + 1
      BY <1>3, <2>1, <2>3
    <2> QED  BY <2>2, <2>3
  <1> QED  BY <1>2, <1>6, <1>7

LEMMA MovedCell ==
    ASSUME NEW S, NEW cells \in Seq(S), NEW from \in Nat, NEW to \in Nat, from < Len(cells)
    PROVE  /\ Moved(cells, from, to, 1) \in Seq(S)
           /\ Len(Moved(cells, from, to, 1)) = Len(cells)
           /\ \A k \in 1..Len(cells) : Moved(cells, from, to, 1)[k] = IF k = to + 1 THEN cells[from + 1] ELSE cells[k]
  <1> DEFINE n == 1
             moved == Moved(cells, from, to, n)
  <1>1. n \in Nat /\ from + n <= Len(cells) /\ n = 1
    OBVIOUS
  <1> HIDE DEF n
  <1>2. /\ moved \in Seq(S) /\ Len(moved) = Len(cells)
        /\ \A k \in 1..Len(cells) : moved[k] = IF to < k /\ k <= to + n THEN cells[from + k - to] ELSE cells[k]
    BY <1>1, MovedCells
  <1> HIDE DEF moved
  <1>3. \A k \in 1..Len(cells) : (to < k /\ k <= to + n <=> k = to + 1) /\ (k = to + 1 => from + k - to = from + 1)
    BY <1>1
  <1>4. \A k \in 1..Len(cells) : moved[k] = IF k = to + 1 THEN cells[from + 1] ELSE cells[k]
    BY <1>2, <1>3
  <1> QED  BY <1>2, <1>4 DEF moved, n

(* Two elements exchanged by way of the cell behind the last one *)
LEMMA SwappedElements ==
    ASSUME NEW S, NEW v \in VectorsOf(S), Fit(v), NEW i \in Nat, NEW j \in Nat, i < v.size, j < v.size,
           v.size # v.capacity
    PROVE  \E w \in VectorsOf(S) :
              /\ VectorSwapElements(v, i, j) = Success(w) /\ Kin(v, w) /\ Fit(w) /\ w.size = v.size
              /\ \A k \in 1..v.size :
                    w.cells[k] = IF k = j + 1 THEN v.cells[i + 1] ELSE IF k = i + 1 THEN v.cells[j + 1]
                      ELSE v.cells[k]
  <1> DEFINE t == Moved(v.cells, i, v.size, 1)
             a == Moved(t, j, i, 1)
             b == Moved(a, v.size, j, 1)
             w == [v EXCEPT !.cells = b]
  <1>1. /\ v \in VectorOf(S) /\ Sound(v) /\ v.cells \in Seq(S) /\ Len(v.cells) \in Nat /\ v.size \in Nat
        /\ v.size < Len(v.cells)
    BY DEF VectorOf, VectorsOf, Sound, Fit
  <1>2. VectorSwapElements(v, i, j) = Success(w)
    BY <1>1 DEF VectorSwapElements
  <1>3. i < Len(v.cells) /\ j < Len(v.cells)
    BY <1>1
  <1>4. /\ t \in Seq(S) /\ Len(t) = Len(v.cells)
        /\ \A k \in 1..Len(v.cells) : t[k] = IF k = v.size + 1 THEN v.cells[i + 1] ELSE v.cells[k]
    BY <1>1, <1>3, MovedCell
  <1> HIDE DEF t
  <1>5. /\ a \in Seq(S) /\ Len(a) = Len(t)
        /\ \A k \in 1..Len(t) : a[k] = IF k = i + 1 THEN t[j + 1] ELSE t[k]
    BY <1>1, <1>3, <1>4, MovedCell
  <1> HIDE DEF a
  <1>6. /\ b \in Seq(S) /\ Len(b) = Len(a)
        /\ \A k \in 1..Len(a) : b[k] = IF k = j + 1 THEN a[v.size + 1] ELSE a[k]
    BY <1>1, <1>4, <1>5, MovedCell
  <1> HIDE DEF b
  <1>7. /\ w \in VectorOf(S) /\ w.size = v.size /\ w.capacity = v.capacity /\ w.cells = b
        /\ w.growth = v.growth /\ w.threshold = v.threshold /\ w.dynamic = v.dynamic /\ w.memory = v.memory
    BY <1>1, <1>6 DEF VectorOf
  <1> HIDE DEF w
  <1>8. w \in VectorsOf(S) /\ Fit(w) /\ Kin(v, w)
    BY <1>1, <1>4, <1>5, <1>6, <1>7 DEF VectorsOf, Sound, Settled, Fit, Kin
  <1>9. ASSUME NEW k \in 1..v.size
        PROVE  b[k] = IF k = j + 1 THEN v.cells[i + 1] ELSE IF k = i + 1 THEN v.cells[j + 1] ELSE v.cells[k]
    <2>1. /\ k \in 1..Len(v.cells) /\ k # v.size + 1
          /\ j + 1 \in 1..Len(v.cells) /\ j + 1 # v.size + 1
          /\ v.size + 1 \in 1..Len(v.cells) /\ v.size + 1 # i + 1
      BY <1>1
    <2>2. t[k] = v.cells[k] /\ t[j + 1] = v.cells[j + 1] /\ t[v.size + 1] = v.cells[i + 1]
      BY <1>4, <2>1
    <2>3. a[k] = (IF k = i + 1 THEN t[j + 1] ELSE t[k]) /\ a[v.size + 1] = t[v.size + 1]
      BY <1>4, <1>5, <2>1
    <2>4. b[k] = IF k = j + 1 THEN a[v.size + 1] ELSE a[k]
      BY <1>4, <1>5, <1>6, <2>1
    <2> QED  BY <2>2, <2>3, <2>4
  <1> QED  BY <1>2, <1>7, <1>8, <1>9

(* A new size: a smaller one takes the last elements out, a larger one exposes *)
(* what is in the memory unless there is an initializer.                       *)
LEMMA ResizedVector ==
    ASSUME NEW S, Junk \in S, NEW v \in VectorsOf(S), Fit(v), NEW size \in Nat, NEW new \in Seq(S)
    PROVE  LET r == VectorResizeEx(v, size, new) IN
           \/ \E w \in VectorsOf(S) :
                /\ r = Result("SUCCESS", w, SubSeq(v.cells, size + 1, v.size))
                /\ Kin(v, w) /\ Fit(w) /\ Extends(v, w, size, new)
           \/ NoMemory(v, r) /\ size > v.size
           \/ NoRoomFor(v, r, size)
  <1> DEFINE out == SubSeq(v.cells, size + 1, v.size)
             n == size * v.growth
             fits == IF ShouldGrow(v, size) \/ ShouldShrink(v, size) THEN Reallocate(v, n) ELSE Success(v)
             tail == IF new = <<>> THEN <<>> ELSE [k \in 1 .. size - v.size |-> new[1]]
             Continue(w) == Success(Overwritten(w, v.size, tail, size))
             r == VectorResizeEx(v, size, new)
  <1>1. /\ v \in VectorOf(S) /\ Sound(v) /\ v.cells \in Seq(S) /\ Len(v.cells) \in Nat /\ v.size \in Nat
        /\ v.size <= Len(v.cells) /\ v.growth \in Nat \ {0} /\ v.threshold \in Nat /\ v.capacity = Len(v.cells)
        /\ v.dynamic \in BOOLEAN /\ v.capacity \in Nat
    BY DEF VectorOf, VectorsOf, Sound, Settled, Fit
  <1>2. CASE size = v.size
    <2>1. r = Success(v) /\ out = <<>>
      BY <1>1, <1>2 DEF VectorResizeEx
    <2>2. Kin(v, v) /\ Extends(v, v, size, new)
      BY <1>1, <1>2 DEF Kin, Extends
    <2> QED  BY <2>1, <2>2 DEF Success
  <1>3. CASE size # v.size
    <2>1. r = [IF fits.status = "SUCCESS" THEN Continue(fits.v) ELSE fits EXCEPT !.out = out]
      BY <1>3 DEF VectorResizeEx, Check, Overwritten
    <2>2. tail \in Seq(S) /\ (new # <<>> /\ size > v.size => Len(tail) = size - v.size
            /\ \A k \in 1 .. size - v.size : tail[k] = new[1])
          /\ (new = <<>> \/ size < v.size => Len(tail) = 0)
      <3>1. CASE new = <<>>
        BY <3>1
      <3>2. CASE new # <<>>
        <4> DEFINE m == size - v.size
        <4>1. m \in Int /\ new[1] \in S /\ tail = [k \in 1..m |-> new[1]] /\ (size > v.size <=> m > 0)
          BY <1>1, <1>3, <3>2
        <4>2. size < v.size <=> m < 0
          BY <1>1
        <4> HIDE DEF m, tail
        <4>3. CASE m > 0
          <5>1. m \in Nat
            BY <4>1, <4>3
          <5>2. tail \in Seq(S) /\ Len(tail) = m /\ \A k \in 1..m : tail[k] = new[1]
            BY <4>1, <5>1
          <5> QED  BY <3>2, <4>1, <4>2, <4>3, <5>2 DEF m
        <4>4. CASE ~(m > 0)
          <5>1. 1..m = {}
            BY <4>1, <4>4
          <5>2. tail = <<>>
            BY <4>1, <5>1
          <5>3. tail \in Seq(S) /\ Len(tail) = 0
            BY <5>2
          <5> QED  BY <4>1, <4>4, <5>3
        <4> QED  BY <4>3, <4>4
      <3> QED  BY <3>1, <3>2
    <2>3. n \in Nat /\ size <= n /\ (v.growth = 1 => n = size)
      BY <1>1, Factors
    <2>4. size < v.size => ~ShouldGrow(v, size)
      BY <1>1 DEF ShouldGrow, Sound, Settled
    <2>5. ShouldShrink(v, size) => n < v.capacity /\ v.dynamic
      <3> SUFFICES ASSUME ShouldShrink(v, size) PROVE n < v.capacity /\ v.dynamic
        OBVIOUS
      <3>1. v.threshold # 0 /\ size * v.threshold < v.capacity /\ v.growth <= v.threshold /\ v.dynamic
        BY <1>1 DEF ShouldShrink, Sound, Settled
      <3>2. n <= size * v.threshold /\ size * v.threshold \in Nat
        BY <1>1, <3>1, Factors
      <3> QED  BY <1>1, <2>3, <3>1, <3>2
    <2> HIDE DEF n, tail, r
    <2>6. ASSUME NEW w \in VectorOf(S), Settled(w), Fit(w), Kin(v, w), fits = Success(w), size <= Len(w.cells),
                 \A k \in 1..size : k <= v.size => w.cells[k] = v.cells[k]
          PROVE  \E u \in VectorsOf(S) : r = Result("SUCCESS", u, out) /\ Kin(v, u) /\ Fit(u)
                   /\ Extends(v, u, size, new)
      <3> DEFINE u == Overwritten(w, v.size, tail, size)
      <3>1. r = Result("SUCCESS", u, out)
        <4> HIDE DEF out, fits
        <4>1. r = [Success(u) EXCEPT !.out = out]
          BY <2>1, <2>6 DEF Success, Result
        <4> HIDE DEF u
        <4> QED  BY <4>1, OutOfSuccess
      <3>2. /\ u \in VectorsOf(S) /\ Fit(u) /\ Kin(w, u) /\ u.size = size
            /\ \A k \in 1..Len(w.cells) :
                 u.cells[k] = IF v.size < k /\ k <= v.size + Len(tail) THEN tail[k - v.size] ELSE w.cells[k]
        <4>1. v.size \in Nat /\ tail \in Seq(S) /\ Settled(w) /\ Fit(w) /\ size <= Len(w.cells)
          BY <1>1, <2>2, <2>6
        <4> QED  BY <4>1, OverwrittenBlock
      <3> HIDE DEF u
      <3>3. Extends(v, u, size, new)
        <4> SUFFICES ASSUME NEW k \in 1..size
                     PROVE  IF k <= v.size THEN u.cells[k] = v.cells[k] ELSE new # <<>> => u.cells[k] = new[1]
          BY <3>2 DEF Extends
        <4>1. k \in 1..Len(w.cells) /\ Len(w.cells) \in Nat
          BY <2>6 DEF VectorOf
        <4>2. CASE k <= v.size
          BY <1>1, <2>6, <3>2, <4>1, <4>2
        <4>3. CASE k > v.size /\ new # <<>>
          <5>1. size > v.size /\ k - v.size \in 1 .. size - v.size /\ v.size < k /\ k <= v.size + (size - v.size)
            BY <1>1, <4>3
          <5> QED  BY <1>1, <2>2, <3>2, <4>1, <4>3, <5>1
        <4> QED  BY <1>1, <4>2, <4>3
      <3> QED  BY <2>6, <3>1, <3>2, <3>3 DEF Kin
    <2>7. CASE ~(ShouldGrow(v, size) \/ ShouldShrink(v, size))
      <3>1. fits = Success(v) /\ size <= Len(v.cells) /\ Kin(v, v) /\ Settled(v)
        BY <1>1, <2>7 DEF ShouldGrow, Kin, Sound
      <3> HIDE DEF fits, out
      <3> QED  BY <1>1, <2>6, <3>1 DEF r, out
    <2>8. CASE ShouldGrow(v, size) \/ ShouldShrink(v, size)
      <3>1. fits = Reallocate(v, n)
        BY <2>8
      <3>2. ASSUME fits = Success(v), v.dynamic => n = 0 /\ v.capacity <= 1, ~v.dynamic => n <= v.capacity
            PROVE  \E u \in VectorsOf(S) : r = Result("SUCCESS", u, out) /\ Kin(v, u) /\ Fit(u)
                     /\ Extends(v, u, size, new)
        <4>1. n <= v.capacity
          BY <1>1, <3>2 DEF Sound, Settled
        <4>2. size <= Len(v.cells) /\ Kin(v, v) /\ Settled(v)
          BY <1>1, <2>3, <4>1 DEF Kin, Sound
        <4> HIDE DEF fits, out
        <4> QED  BY <1>1, <2>6, <3>2, <4>2
      <3>3. ASSUME NEW w \in VectorOf(S), fits = Success(w), Kin(v, w), Fit(w), w.size = v.size,
                   w.capacity = (IF n >= 1 THEN n ELSE 1),
                   \A k \in 1..w.capacity : k <= Len(v.cells) => w.cells[k] = v.cells[k]
            PROVE  \E u \in VectorsOf(S) : r = Result("SUCCESS", u, out) /\ Kin(v, u) /\ Fit(u)
                     /\ Extends(v, u, size, new)
        <4>1. Settled(w)
          BY <1>1, <2>3, <3>3 DEF Sound, Settled, Kin
        <4>2. size <= w.capacity /\ w.capacity = Len(w.cells) /\ w.capacity \in Nat
          BY <2>3, <3>3 DEF Fit
        <4>3. \A k \in 1..size : k <= v.size => w.cells[k] = v.cells[k]
          BY <1>1, <3>3, <4>2
        <4> HIDE DEF fits, out
        <4> QED  BY <2>6, <3>3, <4>1, <4>2, <4>3
      <3>4. ASSUME v.dynamic, n > v.capacity, fits = Fails("NOT_ENOUGH_MEMORY", [v EXCEPT !.capacity = n])
            PROVE  NoMemory(v, r) /\ size > v.size
        <4>2. size > v.size
          BY <1>1, <1>3, <2>4, <2>5, <2>8, <3>4, <2>3
        <4>3. out = <<>>
          BY <1>1, <4>2
        <4> DEFINE w == [v EXCEPT !.capacity = n]
        <4>4. fits = Fails("NOT_ENOUGH_MEMORY", w)
          BY <3>4
        <4> HIDE DEF w, fits, out
        <4>5. r = Fails("NOT_ENOUGH_MEMORY", w)
          BY <2>1, <4>3, <4>4 DEF Fails, Result
        <4> QED  BY <2>3, <3>4, <4>2, <4>5 DEF NoMemory, w
      <3>5. ASSUME NoRoomFor(v, fits, n)
            PROVE  NoRoomFor(v, r, size)
        <4>1. ~v.dynamic /\ v.capacity < n /\ n = size /\ fits = Fails("INSUFFICIENT_BUFFER_SIZE", v)
          BY <1>1, <2>3, <3>5 DEF NoRoomFor, Sound, Settled
        <4>2. out = <<>>
          BY <1>1, <4>1 DEF Sound
        <4> HIDE DEF fits, out
        <4>3. r = Fails("INSUFFICIENT_BUFFER_SIZE", v)
          BY <2>1, <4>1, <4>2 DEF Fails, Result
        <4> QED  BY <4>1, <4>3 DEF NoRoomFor
      <3> HIDE DEF fits, out
      <3>6. \/ /\ fits = Success(v)
               /\ v.dynamic => n = 0 /\ v.capacity <= 1
               /\ ~v.dynamic => n <= v.capacity
            \/ /\ v.dynamic
               /\ \E w \in VectorOf(S) :
                    /\ fits = Success(w) /\ Kin(v, w) /\ Fit(w) /\ w.size = v.size
                    /\ w.capacity = (IF n >= 1 THEN n ELSE 1)
                    /\ \A k \in 1..w.capacity : k <= Len(v.cells) => w.cells[k] = v.cells[k]
            \/ /\ v.dynamic /\ n > v.capacity
               /\ fits = Fails("NOT_ENOUGH_MEMORY", [v EXCEPT !.capacity = n])
            \/ NoRoomFor(v, fits, n)
        BY <1>1, <2>3, <3>1, Reallocated
      <3> QED  BY <3>2, <3>3, <3>4, <3>5, <3>6 DEF r, out
    <2> QED  BY <2>7, <2>8
  <1> QED  BY <1>2, <1>3

LEMMA ReservedVector ==
    ASSUME NEW S, Junk \in S, NEW v \in VectorsOf(S), Fit(v), NEW n \in Nat
    PROVE  LET r == VectorReserve(v, n) IN
           \/ \E w \in VectorsOf(S) : r = Success(w) /\ Kin(v, w) /\ Fit(w) /\ Extends(v, w, v.size, <<>>)
           \/ NoMemory(v, r)
           \/ NoRoomFor(v, r, n)
  <1> DEFINE r == VectorReserve(v, n)
  <1>1. /\ v \in VectorOf(S) /\ Sound(v) /\ v.size \in Nat /\ v.capacity \in Nat /\ v.dynamic \in BOOLEAN
        /\ v.capacity = Len(v.cells) /\ v.size <= v.capacity
    BY DEF VectorOf, VectorsOf, Sound, Fit
  <1>2. Kin(v, v) /\ Extends(v, v, v.size, <<>>)
    BY <1>1 DEF Kin, Extends
  <1>3. CASE ~(n > v.capacity)
    <2>1. r = Success(v)
      BY <1>3 DEF VectorReserve
    <2> QED  BY <1>2, <2>1
  <1>4. CASE n > v.capacity
    <2>1. r = Reallocate(v, n)
      BY <1>4 DEF VectorReserve
    <2> HIDE DEF r
    <2>2. \/ /\ r = Success(v)
             /\ v.dynamic => n = 0 /\ v.capacity <= 1
             /\ ~v.dynamic => n <= v.capacity
          \/ /\ v.dynamic
             /\ \E w \in VectorOf(S) :
                  /\ r = Success(w) /\ Kin(v, w) /\ Fit(w) /\ w.size = v.size
                  /\ w.capacity = (IF n >= 1 THEN n ELSE 1)
                  /\ \A k \in 1..w.capacity : k <= Len(v.cells) => w.cells[k] = v.cells[k]
          \/ /\ v.dynamic /\ n > v.capacity
             /\ r = Fails("NOT_ENOUGH_MEMORY", [v EXCEPT !.capacity = n])
          \/ NoRoomFor(v, r, n)
      BY <1>1, <2>1, Reallocated
    <2>3. ~(/\ v.dynamic => n = 0 /\ v.capacity <= 1
            /\ ~v.dynamic => n <= v.capacity)
      BY <1>1, <1>4
    <2>4. ASSUME NEW w \in VectorOf(S), v.dynamic, r = Success(w), Kin(v, w), Fit(w), w.size = v.size,
                 w.capacity = (IF n >= 1 THEN n ELSE 1),
                 \A k \in 1..w.capacity : k <= Len(v.cells) => w.cells[k] = v.cells[k]
          PROVE  w \in VectorsOf(S) /\ Extends(v, w, v.size, <<>>)
      <3>1. w.capacity = n /\ w.capacity = Len(w.cells) /\ w.size < n
        BY <1>1, <1>4, <2>4 DEF Fit
      <3>2. Sound(w)
        BY <1>1, <1>4, <2>4, <3>1 DEF Sound, Settled, Kin
      <3> QED  BY <1>1, <1>4, <2>4, <3>1, <3>2 DEF VectorsOf, Extends
    <2>5. ASSUME v.dynamic, r = Fails("NOT_ENOUGH_MEMORY", [v EXCEPT !.capacity = n])
          PROVE  NoMemory(v, r)
      BY <1>4, <2>5 DEF NoMemory
    <2> QED  BY <2>2, <2>3, <2>4, <2>5 DEF r
  <1> QED  BY <1>3, <1>4

LEMMA FittedVector ==
    ASSUME NEW S, Junk \in S, NEW v \in VectorsOf(S), Fit(v)
    PROVE  \E w \in VectorsOf(S) :
              VectorShrinkToFit(v) = Success(w) /\ Kin(v, w) /\ Fit(w) /\ Extends(v, w, v.size, <<>>)
  <1> DEFINE r == VectorShrinkToFit(v)
  <1>1. /\ v \in VectorOf(S) /\ Sound(v) /\ v.size \in Nat /\ v.capacity \in Nat /\ v.dynamic \in BOOLEAN
        /\ v.capacity = Len(v.cells) /\ v.size <= v.capacity
    BY DEF VectorOf, VectorsOf, Sound, Fit
  <1>2. Kin(v, v) /\ Extends(v, v, v.size, <<>>)
    BY <1>1 DEF Kin, Extends
  <1>3. r = Reallocate(v, v.size)
    BY DEF VectorShrinkToFit
  <1> HIDE DEF r
  <1>4. \/ r = Success(v)
        \/ /\ v.dynamic
           /\ \E w \in VectorOf(S) :
                /\ r = Success(w) /\ Kin(v, w) /\ Fit(w) /\ w.size = v.size
                /\ w.capacity = (IF v.size >= 1 THEN v.size ELSE 1)
                /\ \A k \in 1..w.capacity : k <= Len(v.cells) => w.cells[k] = v.cells[k]
        \/ v.size > v.capacity
        \/ NoRoomFor(v, r, v.size)
    BY <1>1, <1>3, Reallocated
  <1>5. ~(v.size > v.capacity) /\ ~NoRoomFor(v, r, v.size)
    BY <1>1 DEF NoRoomFor
  <1>6. ASSUME NEW w \in VectorOf(S), v.dynamic, r = Success(w), Kin(v, w), Fit(w), w.size = v.size,
               w.capacity = (IF v.size >= 1 THEN v.size ELSE 1),
               \A k \in 1..w.capacity : k <= Len(v.cells) => w.cells[k] = v.cells[k]
        PROVE  w \in VectorsOf(S) /\ Extends(v, w, v.size, <<>>)
    <2>1. w.capacity = Len(w.cells) /\ w.size <= w.capacity /\ w.capacity >= 1
      BY <1>1, <1>6 DEF Fit
    <2>2. Sound(w)
      BY <1>1, <1>6, <2>1 DEF Sound, Settled, Kin
    <2> QED  BY <1>1, <1>6, <2>1, <2>2 DEF VectorsOf, Extends
  <1> QED  BY <1>2, <1>4, <1>5, <1>6 DEF r

(* Constructors *)
LEMMA NewVector ==
    ASSUME NEW S, Junk \in S, NEW n \in Nat \ {0}, NEW g \in Nat \ {0}, NEW t \in Nat, t = 0 \/ g <= t,
           NEW dynamic \in BOOLEAN, ~dynamic => g = 1 /\ t = 0
    PROVE  LET v == Vector(Cells(n), n, g, t, dynamic) IN
           /\ v \in VectorsOf(S) /\ Fit(v) /\ v.size = 0 /\ v.capacity = n /\ v.dynamic = dynamic /\ v.memory
           /\ Len(v.cells) = n
  <1>1. Cells(n) \in Seq(S) /\ Len(Cells(n)) = n
    BY DEF Cells
  <1> QED  BY <1>1 DEF Vector, VectorsOf, VectorOf, Sound, Settled, Fit

LEMMA NewVectors ==
    ASSUME NEW S, Junk \in S, NEW capacity \in Nat
    PROVE  /\ LET v == VectorInitEx(capacity, Growth, Threshold) IN
              /\ v \in VectorsOf(S) /\ Fit(v) /\ v.size = 0 /\ v.dynamic /\ v.memory
              /\ capacity <= Len(v.cells) /\ 1 <= Len(v.cells)
           /\ capacity > 0 =>
              LET v == VectorInitCustomBuffer(capacity) IN
              /\ v \in VectorsOf(S) /\ Fit(v) /\ v.size = 0 /\ v.capacity = capacity /\ ~v.dynamic /\ v.memory
              /\ Len(v.cells) = capacity
  <1> DEFINE n == AtLeast(MinCapacity, capacity)
  <1>1. n \in Nat \ {0} /\ n >= capacity /\ n >= 1
    BY DEF AtLeast, MinCapacity
  <1>2. VectorInitEx(capacity, Growth, Threshold) = Vector(Cells(n), n, Growth, Threshold, TRUE)
    BY DEF VectorInitEx
  <1> HIDE DEF n
  <1>3. LET v == Vector(Cells(n), n, Growth, Threshold, TRUE) IN
        v \in VectorsOf(S) /\ Fit(v) /\ v.size = 0 /\ v.dynamic /\ v.memory /\ Len(v.cells) = n
    <2> DEFINE dynamic == TRUE
    <2>1. dynamic \in BOOLEAN /\ dynamic
      OBVIOUS
    <2> HIDE DEF dynamic
    <2>2. LET v == Vector(Cells(n), n, Growth, Threshold, dynamic) IN
          /\ v \in VectorsOf(S) /\ Fit(v) /\ v.size = 0 /\ v.dynamic = dynamic /\ v.memory
          /\ Len(v.cells) = n
      <3> DEFINE g == Growth
                 t == Threshold
      <3>1. g \in Nat \ {0} /\ t \in Nat /\ (t = 0 \/ g <= t) /\ (~dynamic => g = 1 /\ t = 0)
        BY <2>1, ContainerAssumption
      <3> HIDE DEF g, t
      <3>2. LET v == Vector(Cells(n), n, g, t, dynamic) IN
            /\ v \in VectorsOf(S) /\ Fit(v) /\ v.size = 0 /\ v.dynamic = dynamic /\ v.memory
            /\ Len(v.cells) = n
        <4>1. dynamic \in BOOLEAN /\ n \in Nat \ {0}
          BY <1>1, <2>1
        <4> QED  BY <3>1, <4>1, NewVector
      <3> QED  BY <3>2 DEF g, t
    <2> QED  BY <2>1, <2>2 DEF dynamic
  <1>4. ASSUME capacity > 0
        PROVE  LET v == Vector(Cells(capacity), capacity, 1, 0, FALSE) IN
               /\ v \in VectorsOf(S) /\ Fit(v) /\ v.size = 0 /\ v.capacity = capacity /\ ~v.dynamic /\ v.memory
               /\ Len(v.cells) = capacity
    <2> DEFINE g == 1
               t == 0
               dynamic == FALSE
    <2>1. g \in Nat \ {0} /\ t \in Nat /\ (t = 0 \/ g <= t) /\ dynamic \in BOOLEAN /\ (~dynamic => g = 1 /\ t = 0)
      OBVIOUS
    <2>2. capacity \in Nat \ {0}
      BY <1>4
    <2> HIDE DEF g, t, dynamic
    <2>3. LET v == Vector(Cells(capacity), capacity, g, t, dynamic) IN
          /\ v \in VectorsOf(S) /\ Fit(v) /\ v.size = 0 /\ v.capacity = capacity /\ v.dynamic = dynamic /\ v.memory
          /\ Len(v.cells) = capacity
      BY <2>1, <2>2, NewVector
    <2> QED  BY <2>3 DEF g, t, dynamic
  <1> QED  BY <1>1, <1>2, <1>3, <1>4 DEF VectorInitCustomBuffer

(* The contents of a vector *)
LEMMA ContentsOfVector ==
    ASSUME NEW S, NEW v \in VectorsOf(S)
    PROVE  /\ Contents(v) \in Seq(S) /\ Len(Contents(v)) = v.size /\ v.size \in Nat
           /\ \A k \in 1..v.size : Contents(v)[k] = v.cells[k]
  <1>1. v.cells \in Seq(S) /\ v.size \in Nat /\ v.size <= Len(v.cells)
    BY DEF VectorsOf, VectorOf, Sound
  <1> QED  BY <1>1 DEF Contents

LEMMA FilledVector ==
    ASSUME NEW S, NEW v \in VectorsOf(S), Fit(v), NEW s \in Seq(S), Len(s) <= Len(v.cells)
    PROVE  LET w == Filled(v, s) IN
           /\ w \in VectorsOf(S) /\ Fit(w) /\ Kin(v, w) /\ w.size = Len(s) /\ Contents(w) = s
           /\ Len(w.cells) = Len(v.cells) /\ \A k \in 1..Len(s) : w.cells[k] = s[k]
  <1> DEFINE n == Len(s)
             zero == 0
             w == Overwritten(v, zero, s, n)
  <1>1. n \in Nat /\ zero \in Nat /\ zero = 0
    OBVIOUS
  <1>2. Filled(v, s) = w
    BY DEF Filled, Overwritten
  <1> HIDE DEF zero
  <1>3. /\ w \in VectorsOf(S) /\ Fit(w) /\ Kin(v, w) /\ w.size = n /\ Len(w.cells) = Len(v.cells)
        /\ \A k \in 1..Len(v.cells) : w.cells[k] = IF zero < k /\ k <= zero + Len(s) THEN s[k - zero] ELSE v.cells[k]
    <2>1. v \in VectorsOf(S) /\ Fit(v) /\ zero \in Nat /\ s \in Seq(S) /\ n \in Nat /\ n <= Len(v.cells)
      BY <1>1
    <2> QED  BY ONLY <2>1, OverwrittenVector
  <1> HIDE DEF w
  <1>4. \A k \in 1..n : w.cells[k] = s[k]
    <2> TAKE k \in 1..n
    <2>1. k \in 1..Len(v.cells) /\ zero < k /\ k <= zero + Len(s) /\ k - zero = k
      <3>1. Len(v.cells) \in Nat
        BY DEF VectorsOf, VectorOf
      <3> QED  BY <1>1, <3>1
    <2> QED  BY <1>3, <2>1
  <1>5. Contents(w) = s
    <2> DEFINE t == Contents(w)
    <2>1. t \in Seq(S) /\ Len(t) = w.size /\ \A k \in 1..w.size : t[k] = w.cells[k]
      BY <1>3, ContentsOfVector
    <2> HIDE DEF t
    <2>2. Len(t) = Len(s) /\ \A k \in 1..Len(t) : t[k] = s[k]
      BY <1>3, <1>4, <2>1
    <2>3. t = s
      BY <2>1, <2>2, SameSequence
    <2> QED  BY <2>3 DEF t
  <1> QED  BY <1>2, <1>3, <1>4, <1>5

-----------------------------------------------------------------------------
(* What Container allows, read off the elements one by one *)

SplicedInto(s, at, count, new, t) ==
    /\ Len(t) = Len(s) - count + Len(new)
    /\ \A k \in 1..Len(t) :
        t[k] = IF k <= at THEN s[k] ELSE IF k <= at + Len(new) THEN new[k - at] ELSE s[k - Len(new) + count]

LEMMA SpliceElements ==
    ASSUME NEW S, NEW s \in Seq(S), NEW new \in Seq(S), NEW at \in Nat, NEW count \in Nat, at + count <= Len(s),
           NEW T, NEW t \in Seq(T), SplicedInto(s, at, count, new, t)
    PROVE  t = Abstract!Splice(s, at, count, new)
  <1> DEFINE a == SubSeq(s, 1, at)
             b == SubSeq(s, at + count + 1, Len(s))
             an == a \o new
             all == an \o b
  <1>1. Len(s) \in Nat /\ Len(new) \in Nat /\ at \in Nat /\ count \in Nat
    OBVIOUS
  <1>0. Len(t) = Len(s) - count + Len(new)
    BY DEF SplicedInto
  <1>2. a \in Seq(S) /\ Len(a) = at /\ \A k \in 1..at : a[k] = s[k]
    BY <1>1
  <1>3. /\ b \in Seq(S) /\ Len(b) = Len(s) - at - count
        /\ \A k \in 1 .. Len(s) - at - count : b[k] = s[at + count + k]
    BY <1>1
  <1>4. Abstract!Splice(s, at, count, new) = all
    BY DEF Abstract!Splice
  <1> HIDE DEF a, b
  <1>5. /\ an \in Seq(S) /\ Len(an) = at + Len(new)
        /\ \A k \in 1 .. at + Len(new) : an[k] = IF k <= at THEN a[k] ELSE new[k - at]
    <2>1. /\ an \in Seq(S) /\ Len(an) = Len(a) + Len(new)
          /\ \A k \in 1 .. Len(a) + Len(new) : an[k] = IF k <= Len(a) THEN a[k] ELSE new[k - Len(a)]
      BY <1>2, ConcatProperties
    <2> HIDE DEF an
    <2> QED  BY <1>2, <2>1
  <1> HIDE DEF an
  <1>6. /\ all \in Seq(S) /\ Len(all) = Len(an) + Len(b)
        /\ \A k \in 1 .. Len(an) + Len(b) : all[k] = IF k <= Len(an) THEN an[k] ELSE b[k - Len(an)]
    <2>1. an \in Seq(S) /\ b \in Seq(S)
      BY <1>3, <1>5
    <2> QED  BY <2>1, ConcatProperties
  <1> HIDE DEF all
  <1>7. Len(all) = Len(t) /\ Len(an) + Len(b) = Len(t) /\ Len(t) \in Nat
    <2>1. Len(an) = at + Len(new) /\ Len(b) = Len(s) - at - count
      BY <1>3, <1>5
    <2>2. Len(an) + Len(b) = Len(t) /\ Len(t) \in Nat
      BY <1>0, <1>1, <2>1
    <2>3. Len(all) = Len(an) + Len(b)
      BY <1>6
    <2> QED  BY <2>2, <2>3
  <1>8. ASSUME NEW k \in 1..Len(t)
        PROVE  t[k] = all[k]
    <2>1. CASE k <= at
      <3>1. k \in 1 .. at + Len(new) /\ k \in 1..at /\ k <= Len(an)
        BY <1>1, <1>5, <2>1
      <3> QED  BY <1>2, <1>5, <1>6, <1>7, <2>1, <3>1 DEF SplicedInto
    <2>2. CASE ~(k <= at) /\ k <= at + Len(new)
      <3>1. k \in 1 .. at + Len(new) /\ k <= Len(an)
        BY <1>1, <1>5, <2>2
      <3> QED  BY <1>5, <1>6, <1>7, <2>2, <3>1 DEF SplicedInto
    <2>3. CASE ~(k <= at) /\ ~(k <= at + Len(new))
      <3>0. k \in Nat /\ k <= Len(s) - count + Len(new) /\ at \in Nat /\ Len(an) = at + Len(new)
        BY <1>0, <1>1, <1>5
      <3>1. /\ k - Len(an) \in 1 .. Len(s) - at - count /\ ~(k <= Len(an))
            /\ at + count + (k - Len(an)) = k - Len(new) + count
        BY <1>1, <2>3, <3>0
      <3>2. all[k] = b[k - Len(an)]
        BY <1>6, <1>7, <3>1
      <3>3. b[k - Len(an)] = s[k - Len(new) + count]
        BY <1>3, <3>1
      <3> QED  BY <2>3, <3>2, <3>3 DEF SplicedInto
    <2> QED  BY <2>1, <2>2, <2>3
  <1> QED  BY <1>4, <1>6, <1>7, <1>8, SameSequence

LEMMA SameTally ==
    ASSUME NEW s
    PROVE  Abstract!Tally(s) = Tally(s)
  <1>1. ASSUME NEW T
        PROVE  Abstract!Cardinality(T) = Cardinality(T)
    BY DEF Abstract!Cardinality, Cardinality, Abstract!IsFiniteSet, IsFiniteSet
  <1>2. Abstract!ToSet(s) = ToSet(s)
    BY DEF Abstract!ToSet, ToSet
  <1> QED  BY <1>1, <1>2 DEF Abstract!Tally, Tally

(* A call is made: it has the outcome st, and the items of out go to the destructor. *)
Calls(op, at, count, new, st, out) ==
    /\ call' = [Operation(op, at, count, new) EXCEPT !.status = st]
    /\ dropped' = Tally(IF watched THEN out ELSE <<>>)

LEMMA CallFields ==
    ASSUME NEW op, NEW at, NEW count, NEW new, NEW st, NEW out, Calls(op, at, count, new, st, out)
    PROVE  call'.op = op /\ call'.at = at /\ call'.count = count /\ call'.new = new /\ call'.status = st
  <1> DEFINE o == Operation(op, at, count, new)
  <1>1. o = [op |-> op, at |-> at, count |-> count, new |-> new, status |-> "none"]
    BY DEF Operation
  <1>2. call' = [o EXCEPT !.status = st]
    BY DEF Calls
  <1> HIDE DEF o
  <1>3. call' = [op |-> op, at |-> at, count |-> count, new |-> new, status |-> st]
    BY <1>1, <1>2
  <1> QED  BY <1>3

Steady == Limit' = Limit /\ watched' = watched

LEMMA DroppedStep ==
    ASSUME NEW op, NEW at, NEW count, NEW new, NEW st, NEW out, Calls(op, at, count, new, st, out)
    PROVE  Abstract!Dropped(out)
  BY SameTally DEF Calls, Abstract!Dropped

LEMMA InsertStep ==
    ASSUME NEW S, Held \in Seq(S), NEW T, Held' \in Seq(T), NEW i \in Nat, i <= Len(Held), NEW new \in Seq(S),
           Calls("insert", i, 0, new, "SUCCESS", <<>>), Steady,
           Len(Held') = Len(Held) + Len(new),
           \A k \in 1..Len(Held') :
              Held'[k] = IF k <= i THEN Held[k] ELSE IF k <= i + Len(new) THEN new[k - i] ELSE Held[k - Len(new)]
    PROVE  Abstract!Answered
  <1> DEFINE zero == 0
             t == Held'
             s == Held
  <1>1. /\ call'.op = "insert" /\ call'.at = i /\ call'.count = 0 /\ call'.new = new /\ call'.status = "SUCCESS"
    BY CallFields
  <1>2. zero \in Nat /\ zero = 0 /\ Len(s) \in Nat /\ Len(new) \in Nat
    OBVIOUS
  <1> HIDE DEF zero
  <1>3. i + zero <= Len(s)
    BY <1>2
  <1>4. SplicedInto(s, i, zero, new, t)
    <2>1. Len(t) = Len(s) - zero + Len(new)
      BY <1>2
    <2>2. \A k \in 1..Len(t) : k - Len(new) + zero = k - Len(new)
      BY <1>2
    <2> QED  BY <2>1, <2>2 DEF SplicedInto
  <1>5. t = Abstract!Splice(s, i, zero, new)
    <2> HIDE DEF s, t
    <2>1. s \in Seq(S) /\ t \in Seq(T)
      BY DEF s, t
    <2>2. zero \in Nat /\ i + zero <= Len(s)
      BY <1>2, <1>3
    <2> QED  BY <1>4, <2>1, <2>2, SpliceElements
  <1>6. Abstract!Effects(call') = {Abstract!Splice(Held, i, 0, new)}
    BY <1>1 DEF Abstract!Effects
  <1>7. Abstract!Legal(call') /\ Abstract!Leaving(call') = <<>>
    BY <1>1 DEF Abstract!Legal, Abstract!Leaving
  <1>8. Abstract!Dropped(<<>>)
    BY DroppedStep
  <1>9. Abstract!Done
    BY <1>1, <1>2, <1>5, <1>6, <1>7, <1>8 DEF Abstract!Done, Steady, zero
  <1> QED  BY <1>9 DEF Abstract!Answered

LEMMA DeleteStep ==
    ASSUME NEW S, Held \in Seq(S), NEW T, Held' \in Seq(T), NEW i \in Nat, NEW n \in Nat, i + n <= Len(Held),
           Calls("delete", i, n, <<>>, "SUCCESS", SubSeq(Held, i + 1, i + n)), Steady,
           Len(Held') = Len(Held) - n,
           \A k \in 1..Len(Held') : Held'[k] = IF k <= i THEN Held[k] ELSE Held[k + n]
    PROVE  Abstract!Answered
  <1> DEFINE t == Held'
             s == Held
             none == <<>>
  <1>1. /\ call'.op = "delete" /\ call'.at = i /\ call'.count = n /\ call'.status = "SUCCESS"
    BY CallFields
  <1>2. none \in Seq(S) /\ Len(none) = 0 /\ Len(s) \in Nat /\ none = <<>>
    OBVIOUS
  <1> HIDE DEF none
  <1>4. SplicedInto(s, i, n, none, t)
    <2>1. Len(t) = Len(s) - n + Len(none)
      BY <1>2
    <2>2. \A k \in 1..Len(t) : k - Len(none) + n = k + n /\ (k <= i + Len(none) <=> k <= i)
      BY <1>2
    <2> QED  BY <1>2, <2>1, <2>2 DEF SplicedInto
  <1>5. t = Abstract!Splice(s, i, n, none)
    <2> HIDE DEF s, t
    <2>1. s \in Seq(S) /\ t \in Seq(T) /\ i + n <= Len(s) /\ none \in Seq(S)
      BY <1>2 DEF s, t
    <2> QED  BY <1>4, <2>1, SpliceElements
  <1>6. Abstract!Effects(call') = {Abstract!Splice(Held, i, n, <<>>)}
    BY <1>1 DEF Abstract!Effects
  <1>7. Abstract!Legal(call') /\ Abstract!Leaving(call') = SubSeq(Held, i + 1, i + n)
    BY <1>1 DEF Abstract!Legal, Abstract!Leaving
  <1>8. Abstract!Dropped(SubSeq(Held, i + 1, i + n))
    BY DroppedStep
  <1>9. Abstract!Done
    BY <1>1, <1>2, <1>5, <1>6, <1>7, <1>8 DEF Abstract!Done, Steady
  <1> QED  BY <1>9 DEF Abstract!Answered


LEMMA OverwriteStep ==
    ASSUME NEW S, Held \in Seq(S), NEW T, Held' \in Seq(T), NEW i \in Nat,
           NEW new \in Seq(S), i + Len(new) <= Len(Held),
           Calls("overwrite", i, 0, new, "SUCCESS", SubSeq(Held, i + 1, i + Len(new))), Steady,
           Len(Held') = Len(Held),
           \A k \in 1..Len(Held) : Held'[k] = IF i < k /\ k <= i + Len(new) THEN new[k - i] ELSE Held[k]
    PROVE  Abstract!Answered
  <1> DEFINE t == Held'
             s == Held
             n == Len(new)
  <1>1. /\ call'.op = "overwrite" /\ call'.at = i /\ call'.new = new /\ call'.status = "SUCCESS"
    BY CallFields
  <1>2. n \in Nat /\ n = Len(new) /\ Len(s) \in Nat
    OBVIOUS
  <1>4. SplicedInto(s, i, n, new, t)
    <2>1. Len(t) = Len(s) - n + Len(new)
      BY <1>2
    <2>2. \A k \in 1..Len(t) : k - Len(new) + n = k /\ (~(i < k) <=> k <= i)
      BY <1>2
    <2> QED  BY <1>2, <2>1, <2>2 DEF SplicedInto
  <1> HIDE DEF n
  <1>5. t = Abstract!Splice(s, i, n, new)
    <2> HIDE DEF s, t
    <2>1. s \in Seq(S) /\ t \in Seq(T) /\ i + n <= Len(s) /\ n \in Nat
      BY <1>2 DEF s, t
    <2> QED  BY <1>4, <2>1, SpliceElements
  <1>6. Abstract!Effects(call') = {Abstract!Splice(Held, i, n, new)}
    BY <1>1, <1>2 DEF Abstract!Effects
  <1>7. Abstract!Legal(call') /\ Abstract!Leaving(call') = SubSeq(Held, i + 1, i + Len(new))
    BY <1>1 DEF Abstract!Legal, Abstract!Leaving
  <1>8. Abstract!Dropped(SubSeq(Held, i + 1, i + Len(new)))
    BY DroppedStep
  <1>9. Abstract!Done
    BY <1>1, <1>5, <1>6, <1>7, <1>8 DEF Abstract!Done, Steady
  <1> QED  BY <1>9 DEF Abstract!Answered

LEMMA SwapStep ==
    ASSUME NEW S, Held \in Seq(S), NEW T, Held' \in Seq(T), NEW i \in Nat,
           NEW j \in Nat, i < Len(Held), j < Len(Held),
           Calls("swap", i, j, <<>>, "SUCCESS", <<>>), Steady,
           Len(Held') = Len(Held),
           \A k \in 1..Len(Held) :
              Held'[k] = IF k = j + 1 THEN Held[i + 1] ELSE IF k = i + 1 THEN Held[j + 1] ELSE Held[k]
    PROVE  Abstract!Answered
  <1> DEFINE s == Held
             t == Held'
             a == [s EXCEPT ![i + 1] = s[j + 1]]
             b == [a EXCEPT ![j + 1] = s[i + 1]]
  <1>1. /\ call'.op = "swap" /\ call'.at = i /\ call'.count = j /\ call'.status = "SUCCESS"
    BY CallFields
  <1>2. /\ b \in Seq(S) /\ Len(b) = Len(s)
        /\ \A k \in 1..Len(s) : b[k] = IF k = j + 1 THEN s[i + 1] ELSE IF k = i + 1 THEN s[j + 1] ELSE s[k]
    <2> HIDE DEF s
    <2>1. s \in Seq(S) /\ i + 1 \in 1..Len(s) /\ j + 1 \in 1..Len(s)
      BY DEF s
    <2>2. a \in Seq(S) /\ Len(a) = Len(s) /\ \A k \in 1..Len(s) : a[k] = IF k = i + 1 THEN s[j + 1] ELSE s[k]
      BY <2>1, ExceptSeq
    <2> HIDE DEF a
    <2>3. b \in Seq(S) /\ Len(b) = Len(a) /\ \A k \in 1..Len(a) : b[k] = IF k = j + 1 THEN s[i + 1] ELSE a[k]
      BY <2>1, <2>2, ExceptSeq
    <2> HIDE DEF b
    <2> QED  BY <2>1, <2>2, <2>3
  <1>3. Abstract!Swapped(i, j) = b
    BY DEF Abstract!Swapped
  <1> HIDE DEF b
  <1>4. t = b
    <2>1. Len(t) = Len(b) /\ \A k \in 1..Len(t) : t[k] = b[k]
      BY <1>2
    <2> HIDE DEF t
    <2>2. t \in Seq(T) /\ b \in Seq(S)
      BY <1>2 DEF t
    <2> QED  BY <2>1, <2>2, SameSequence
  <1>5. Abstract!Effects(call') = {Abstract!Swapped(i, j)} /\ Abstract!Legal(call') /\ Abstract!Leaving(call') = <<>>
    BY <1>1 DEF Abstract!Effects, Abstract!Legal, Abstract!Leaving
  <1>6. Abstract!Dropped(<<>>)
    BY DroppedStep
  <1>7. Abstract!Done
    BY <1>1, <1>3, <1>4, <1>5, <1>6 DEF Abstract!Done, Steady
  <1> QED  BY <1>7 DEF Abstract!Answered

(* What may be in a container *)
Contained == Characters \cup {0, 1, Blank}

LEMMA ResizedElements ==
    ASSUME NEW S, Held \in Seq(S), NEW t \in Seq(Contained), NEW new, Len(t) \in Nat,
           \A k \in 1..Len(t) : IF k <= Len(Held) THEN t[k] = Held[k] ELSE new # <<>> => t[k] = new[1]
    PROVE  t \in Abstract!Resized(Len(t), new)
  <1> DEFINE s == Held
             size == Len(t)
             added == IF size > Len(s) THEN size - Len(s) ELSE 0
             old == SubSeq(s, 1, size - added)
             tail == [k \in 1..added |-> t[size - added + k]]
             both == old \o tail
  <1> HIDE DEF s
  <1>1. s \in Seq(S) /\ Len(s) \in Nat /\ size \in Nat
    BY DEF s
  <1>2. added \in Nat /\ size - added \in Nat /\ size - added <= Len(s) /\ size - added <= size
    BY <1>1
  <1>3. \A k \in 1..added : size - added + k \in 1..size /\ ~(size - added + k <= Len(s))
    BY <1>1
  <1> HIDE DEF added
  <1>4. tail \in Seq(Contained) /\ Len(tail) = added /\ \A k \in 1..added : tail[k] = t[size - added + k]
    <2>1. \A k \in 1..added : t[size - added + k] \in Contained
      BY <1>3
    <2> HIDE DEF size
    <2> QED  BY <1>2, <2>1
  <1>5. tail \in IF new = <<>> THEN [1..added -> Contained] ELSE {[k \in 1..added |-> new[1]]}
    <2>1. \A k \in 1..added : t[size - added + k] \in Contained
      BY <1>3
    <2>2. tail \in [1..added -> Contained]
      BY <2>1
    <2>3. new # <<>> => \A k \in 1..added : t[size - added + k] = new[1]
      BY <1>3 DEF s
    <2> QED  BY <2>2, <2>3
  <1>6. old \in Seq(S) /\ Len(old) = size - added /\ \A k \in 1 .. size - added : old[k] = s[k]
    BY <1>1, <1>2
  <1>7. old \o tail \in Abstract!Resized(size, new)
    BY <1>5 DEF Abstract!Resized, Contained, added, s
  <1> HIDE DEF old, tail
  <1>8. /\ both \in Seq(S \cup Contained) /\ Len(both) = size
        /\ \A k \in 1..size : both[k] = IF k <= size - added THEN old[k] ELSE tail[k - (size - added)]
    <2>1. old \in Seq(S \cup Contained) /\ tail \in Seq(S \cup Contained)
      BY <1>4, <1>6
    <2>2. /\ both \in Seq(S \cup Contained) /\ Len(both) = Len(old) + Len(tail)
          /\ \A k \in 1 .. Len(old) + Len(tail) : both[k] = IF k <= Len(old) THEN old[k] ELSE tail[k - Len(old)]
      BY <2>1, ConcatProperties
    <2> HIDE DEF both
    <2> QED  BY <1>2, <1>4, <1>6, <2>2
  <1> HIDE DEF both
  <1>9. \A k \in 1..size : both[k] = t[k]
    <2> TAKE k \in 1..size
    <2>1. CASE k <= size - added
      <3>1. k \in 1 .. size - added /\ k <= Len(s) /\ t[k] = s[k]
        BY <1>1, <1>2, <2>1 DEF s
      <3> QED  BY <1>6, <1>8, <2>1, <3>1
    <2>2. CASE ~(k <= size - added)
      <3>1. k - (size - added) \in 1..added /\ size - added + (k - (size - added)) = k
        BY <1>2, <2>2
      <3>2. tail[k - (size - added)] = t[k]
        BY <1>4, <3>1
      <3> QED  BY <1>8, <2>2, <3>2
    <2> QED  BY <2>1, <2>2
  <1>10. both = t
    BY <1>8, <1>9, SameSequence
  <1> QED  BY <1>7, <1>10 DEF both

LEMMA ResizeStep ==
    ASSUME NEW S, Held \in Seq(S), Held' \in Seq(Contained), NEW size \in Nat, NEW new,
           NEW op, op \in {"resize", "fill"},
           Calls(op, 0, size, new, "SUCCESS", SubSeq(Held, size + 1, Len(Held))), Steady,
           Len(Held') = size,
           \A k \in 1..size : IF k <= Len(Held) THEN Held'[k] = Held[k] ELSE new # <<>> => Held'[k] = new[1]
    PROVE  Abstract!Answered
  <1> DEFINE t == Held'
  <1>1. /\ call'.op = op /\ call'.at = 0 /\ call'.count = size /\ call'.new = new /\ call'.status = "SUCCESS"
    BY CallFields
  <1>2. t \in Abstract!Resized(size, new)
    <2>1. t \in Seq(Contained) /\ Len(t) = size
          /\ \A k \in 1..Len(t) : IF k <= Len(Held) THEN t[k] = Held[k] ELSE new # <<>> => t[k] = new[1]
      OBVIOUS
    <2> HIDE DEF t
    <2>2. t \in Abstract!Resized(Len(t), new)
      BY <2>1, ResizedElements
    <2> QED  BY <2>1, <2>2
  <1>3. Abstract!Effects(call') = Abstract!Resized(size, new)
    BY <1>1 DEF Abstract!Effects
  <1>4. Abstract!Legal(call') /\ Abstract!Leaving(call') = SubSeq(Held, size + 1, Len(Held))
    BY <1>1 DEF Abstract!Legal, Abstract!Leaving
  <1>5. Abstract!Dropped(SubSeq(Held, size + 1, Len(Held)))
    BY DroppedStep
  <1>6. Abstract!Done
    BY <1>1, <1>2, <1>3, <1>4, <1>5 DEF Abstract!Done, Steady
  <1> QED  BY <1>6 DEF Abstract!Answered

LEMMA ReserveStep ==
    ASSUME NEW size, Held' = Held, Calls("reserve", 0, size, <<>>, "SUCCESS", <<>>), Steady
    PROVE  Abstract!Answered
  <1>1. /\ call'.op = "reserve" /\ call'.status = "SUCCESS"
    BY CallFields
  <1>2. Abstract!Effects(call') = {Held} /\ Abstract!Legal(call') /\ Abstract!Leaving(call') = <<>>
    BY <1>1 DEF Abstract!Effects, Abstract!Legal, Abstract!Leaving
  <1>3. Abstract!Dropped(<<>>)
    BY DroppedStep
  <1>4. Abstract!Done
    BY <1>1, <1>2, <1>3 DEF Abstract!Done, Steady
  <1> QED  BY <1>4 DEF Abstract!Answered

LEMMA CreateStep ==
    ASSUME NEW new, Held' = new, Calls("create", 0, 0, new, "SUCCESS", <<>>)
    PROVE  Abstract!Answered
  <1>1. /\ call'.op = "create" /\ call'.new = new /\ call'.status = "SUCCESS"
    BY CallFields
  <1>2. Abstract!Effects(call') = {new} /\ Abstract!Legal(call') /\ Abstract!Leaving(call') = <<>>
    BY <1>1 DEF Abstract!Effects, Abstract!Legal, Abstract!Leaving
  <1>3. Abstract!Dropped(<<>>)
    BY DroppedStep
  <1>4. Abstract!Done
    BY <1>1, <1>2, <1>3 DEF Abstract!Done
  <1> QED  BY <1>4 DEF Abstract!Answered

LEMMA DestroyStep ==
    ASSUME Held' = <<>>, Calls("destroy", 0, 0, <<>>, "SUCCESS", Held)
    PROVE  Abstract!Answered
  <1>1. /\ call'.op = "destroy" /\ call'.status = "SUCCESS"
    BY CallFields
  <1>2. Abstract!Effects(call') = {<<>>} /\ Abstract!Legal(call') /\ Abstract!Leaving(call') = Held
    BY <1>1 DEF Abstract!Effects, Abstract!Legal, Abstract!Leaving
  <1>3. Abstract!Dropped(Held)
    BY DroppedStep
  <1>4. Abstract!Done
    BY <1>1, <1>2, <1>3 DEF Abstract!Done
  <1> QED  BY <1>4 DEF Abstract!Answered

(* A constructor fails in the middle. *)
LEMMA DisplacedStep ==
    ASSUME NEW S, Held \in Seq(S), NEW T, Held' \in Seq(T), NEW i \in Nat, i < Len(Held), NEW new,
           Calls("insert", i, 0, new, "FAILED", <<>>), Steady,
           Len(Held') = Len(Held),
           \A k \in 1..Len(Held) : Held'[k] = IF k <= i + 1 THEN Held[k] ELSE Held[k - 1]
    PROVE  Abstract!Answered
  <1> DEFINE s == Held
             t == Held'
             n == Len(Held)
             a == SubSeq(s, 1, i + 1)
             b == SubSeq(s, i + 1, n - 1)
             both == a \o b
  <1>1. call'.op = "insert" /\ call'.at = i /\ call'.status = "FAILED"
    BY CallFields
  <1>2. s \in Seq(S) /\ t \in Seq(T) /\ Len(s) = n /\ Len(t) = n /\ n \in Nat /\ i < n
        /\ \A k \in 1..n : t[k] = IF k <= i + 1 THEN s[k] ELSE s[k - 1]
    OBVIOUS
  <1>3. /\ a \in Seq(S) /\ Len(a) = i + 1 /\ \A k \in 1 .. i + 1 : a[k] = s[k]
        /\ b \in Seq(S) /\ Len(b) = n - 1 - i /\ \A k \in 1 .. n - 1 - i : b[k] = s[i + k]
    <2> HIDE DEF s, t, n
    <2>1. i + 1 \in Nat /\ i + 1 <= n /\ n - 1 \in Nat /\ n - 1 <= n
      BY <1>2
    <2>2. a \in Seq(S) /\ Len(a) = i + 1 /\ \A k \in 1 .. i + 1 : a[k] = s[k]
      BY <1>2, <2>1
    <2>3. Len(b) = n - 1 - i
      BY <1>2, <2>1
    <2>4. b \in Seq(S) /\ \A k \in 1 .. n - 1 - i : b[k] = s[i + k]
      BY <1>2, <2>1
    <2> QED  BY <2>2, <2>3, <2>4
  <1>4. Abstract!Displaced <=> /\ call'.op = "insert" /\ call'.status = "FAILED" /\ call'.at < n /\ t = SubSeq(s, 1, call'.at + 1) \o SubSeq(s, call'.at + 1, n - 1)
                               /\ Limit' = Limit /\ watched' = watched
                               /\ Abstract!Dropped(<<>>)
    BY DEF Abstract!Displaced
  <1> HIDE DEF a, b
  <1>5. both \in Seq(S) /\ Len(both) = Len(a) + Len(b)
        /\ \A k \in 1 .. Len(a) + Len(b) : both[k] = IF k <= Len(a) THEN a[k] ELSE b[k - Len(a)]
    <2>1. a \in Seq(S) /\ b \in Seq(S)
      BY <1>3
    <2> QED  BY ONLY <2>1, ConcatProperties
  <1> HIDE DEF both, s, t, n
  <1>6. Len(both) = n /\ \A k \in 1..n : both[k] = t[k]
    <2>1. Len(a) + Len(b) = n
      BY <1>2, <1>3
    <2>2. ASSUME NEW k \in 1..n
          PROVE  both[k] = t[k]
      <3>1. CASE k <= i + 1
        <4>1. k \in 1 .. i + 1
          BY <3>1
        <4> QED  BY <1>2, <1>3, <1>5, <2>1, <3>1, <4>1
      <3>2. CASE ~(k <= i + 1)
        <4>1. k - (i + 1) \in 1 .. n - 1 - i /\ i + (k - (i + 1)) = k - 1
          BY <1>2, <3>2
        <4>2. b[k - (i + 1)] = s[k - 1]
          BY <1>3, <4>1
        <4>3. both[k] = b[k - (i + 1)]
          BY <1>2, <1>3, <1>5, <2>1, <3>2
        <4> QED  BY <1>2, <3>2, <4>2, <4>3
      <3> QED  BY <3>1, <3>2
    <2> QED  BY <1>5, <2>1, <2>2
  <1>7. both = t
    <2>1. both \in Seq(S) /\ t \in Seq(T) /\ Len(both) = Len(t) /\ \A k \in 1..Len(both) : both[k] = t[k]
      BY <1>2, <1>5, <1>6
    <2> QED  BY ONLY <2>1, SameSequence
  <1>8. Abstract!Dropped(<<>>)
    BY DroppedStep
  <1>9. Abstract!Displaced
    BY <1>1, <1>2, <1>4, <1>7, <1>8 DEF Steady, both, a, b
  <1> QED  BY <1>9 DEF Abstract!Answered

(* A call that is refused *)
Turned(op, at, count, new, st) == Calls(op, at, count, new, st, <<>>) /\ Steady /\ Held' = Held

LEMMA RefusedStep ==
    ASSUME NEW op, NEW at, NEW count, NEW new, NEW st, Turned(op, at, count, new, st),
           \/ st = "FAILED" /\ at = Len(Held)
           \/ st \in {"OUT_OF_RANGE", "INVALID_OPERATION"} /\ ~Abstract!Legal(call')
           \/ st = "INVALID_ARGUMENT" /\ ((op = "insert" /\ new = <<>>) \/ (op = "delete" /\ count = 0))
           \/ st = "INSUFFICIENT_BUFFER_SIZE" /\ op = "swap"
           \/ st = "INSUFFICIENT_BUFFER_SIZE" /\ Abstract!Legal(call') /\ Abstract!NoRoom(call') /\ op # "fill"
           \/ st = "NOT_ENOUGH_MEMORY" /\ Limit = Unlimited /\ op # "fill"
    PROVE  Abstract!Answered
  <1>1. /\ call'.op = op /\ call'.at = at /\ call'.count = count /\ call'.new = new /\ call'.status = st
    BY CallFields DEF Turned
  <1>2. Abstract!Dropped(<<>>)
    BY DroppedStep DEF Turned
  <1>3. Abstract!Refused
    BY <1>1, <1>2 DEF Abstract!Refused, Abstract!Full, Abstract!Idle, Turned, Steady
  <1> QED  BY <1>3 DEF Abstract!Answered

LEMMA OutOfRangeStep ==
    ASSUME NEW op, NEW at \in Nat, NEW count \in Nat, NEW new, NEW st \in {"OUT_OF_RANGE", "INVALID_OPERATION"},
           Turned(op, at, count, new, st), Len(Held) \in Nat, Len(new) \in Nat,
           \/ op = "insert" /\ at > Len(Held)
           \/ op = "delete" /\ at + count > Len(Held)
           \/ op = "overwrite" /\ at + Len(new) > Len(Held)
           \/ op = "swap" /\ (at >= Len(Held) \/ count >= Len(Held))
    PROVE  Abstract!Answered
  <1>1. /\ call'.op = op /\ call'.at = at /\ call'.count = count /\ call'.new = new /\ call'.status = st
    BY CallFields DEF Turned
  <1>2. ~Abstract!Legal(call')
    BY <1>1 DEF Abstract!Legal
  <1> QED  BY <1>2, RefusedStep

(* There is a sequence of any length. *)
LEMMA TooMuchToInsert ==
    ASSUME NEW S, Held \in Seq(S), NEW new \in Seq(S), NEW i \in Nat, i <= Len(Held),
           call'.op = "insert", call'.at = i, call'.new = new,
           Limit # Unlimited, Limit \in Nat, Limit < Len(Held) + Len(new)
    PROVE  Abstract!NoRoom(call') /\ Abstract!Legal(call')
  <1> DEFINE s == Held
             zero == 0
             a == SubSeq(s, 1, i)
             b == SubSeq(s, i + zero + 1, Len(s))
             an == a \o new
             all == an \o b
  <1>1. call'.op = "insert" /\ call'.at = i /\ call'.new = new
    OBVIOUS
  <1>2. Abstract!Effects(call') = {all}
    BY <1>1 DEF Abstract!Effects, Abstract!Splice
  <1>3. Len(s) \in Nat /\ Len(new) \in Nat /\ s \in Seq(S)
    OBVIOUS
  <1>4. a \in Seq(S) /\ Len(a) = i /\ b \in Seq(S) /\ Len(b) = Len(s) - i
    <2>1. i <= Len(s) /\ b = SubSeq(s, i + 1, Len(s))
      OBVIOUS
    <2> HIDE DEF s, b
    <2>2. a \in Seq(S) /\ Len(a) = i
      BY <1>3, <2>1
    <2>3. SubSeq(s, i + 1, Len(s)) \in Seq(S) /\ Len(SubSeq(s, i + 1, Len(s))) = Len(s) - i
      BY <1>3, <2>1
    <2> QED  BY <2>1, <2>2, <2>3
  <1> HIDE DEF a, b
  <1>5. an \in Seq(S) /\ Len(an) = i + Len(new)
    <2>1. an \in Seq(S) /\ Len(an) = Len(a) + Len(new)
      BY <1>4, ConcatProperties
    <2> QED  BY <1>3, <1>4, <2>1
  <1> HIDE DEF an
  <1>6. Len(all) = Len(an) + Len(b)
    <2>1. an \in Seq(S) /\ b \in Seq(S)
      BY <1>4, <1>5
    <2> QED  BY <2>1, ConcatProperties
  <1>7. Len(all) > Limit
    <2> HIDE DEF all
    <2> QED  BY <1>3, <1>4, <1>5, <1>6
  <1>8. Abstract!NoRoom(call') /\ Abstract!Legal(call')
    BY <1>1, <1>2, <1>7 DEF Abstract!NoRoom, Abstract!Legal
  <1> QED  BY <1>8

LEMMA NoRoomToInsert ==
    ASSUME NEW S, Held \in Seq(S), NEW new \in Seq(S), NEW i \in Nat, i <= Len(Held),
           Turned("insert", i, 0, new, "INSUFFICIENT_BUFFER_SIZE"),
           Limit # Unlimited, Limit \in Nat, Limit < Len(Held) + Len(new)
    PROVE  Abstract!Answered
  <1>1. call'.op = "insert" /\ call'.at = i /\ call'.new = new
    BY CallFields DEF Turned
  <1>2. Abstract!NoRoom(call') /\ Abstract!Legal(call')
    BY <1>1, TooMuchToInsert
  <1> QED  BY <1>2, RefusedStep

LEMMA NoRoomForSize ==
    ASSUME NEW S, Held \in Seq(S), NEW size \in Nat, NEW new, NEW op \in {"resize", "fill"},
           call'.op = op, call'.count = size, call'.new = new,
           Limit # Unlimited, Limit \in Nat, Len(Held) <= Limit, Limit < size
    PROVE  Abstract!NoRoom(call')
  <1> DEFINE s == Held
             added == IF size > Len(s) THEN size - Len(s) ELSE 0
             item == IF new = <<>> THEN Blank ELSE new[1]
             old == SubSeq(s, 1, size - added)
             tail == [k \in 1..added |-> item]
             both == old \o tail
             T == S \cup {item}
  <1>1. Len(s) \in Nat /\ s \in Seq(S) /\ Len(s) < size
    OBVIOUS
  <1>2. both \in Abstract!Resized(size, new)
    BY <1>1 DEF Abstract!Resized
  <1>3. added \in Nat /\ added = size - Len(s) /\ size - added = Len(s)
    <2> HIDE DEF s
    <2> QED  BY <1>1
  <1>4. old \in Seq(T) /\ Len(old) = Len(s)
    <2> HIDE DEF s, added
    <2>1. old = s
      BY <1>1, <1>3
    <2>2. \A k \in 1..Len(s) : s[k] \in T
      BY <1>1
    <2> HIDE DEF T, old
    <2>3. s \in Seq(T)
      BY <1>1, <2>2
    <2> QED  BY <2>1, <2>3
  <1>5. tail \in Seq(T) /\ Len(tail) = added
    <2> HIDE DEF added, item
    <2>1. \A k \in 1..added : item \in T
      OBVIOUS
    <2> HIDE DEF T
    <2> QED  BY <1>3, <2>1
  <1> HIDE DEF old, tail, T
  <1>6. Len(both) = Len(old) + Len(tail)
    BY <1>4, <1>5, ConcatProperties
  <1> HIDE DEF both
  <1>7. Len(both) > Limit
    <2> HIDE DEF added
    <2> QED  BY <1>1, <1>3, <1>4, <1>5, <1>6
  <1>8. Abstract!Effects(call') = Abstract!Resized(size, new)
    BY DEF Abstract!Effects
  <1> QED  BY <1>2, <1>7, <1>8 DEF Abstract!NoRoom

LEMMA NoRoomToResize ==
    ASSUME NEW S, Held \in Seq(S), NEW size \in Nat, NEW new,
           Turned("resize", 0, size, new, "INSUFFICIENT_BUFFER_SIZE"),
           Limit # Unlimited, Limit \in Nat, Len(Held) <= Limit, Limit < size
    PROVE  Abstract!Answered
  <1>1. /\ call'.op = "resize" /\ call'.count = size /\ call'.new = new
    BY CallFields DEF Turned
  <1>2. Abstract!NoRoom(call')
    BY <1>1, NoRoomForSize
  <1>3. Abstract!Legal(call')
    BY <1>1 DEF Abstract!Legal
  <1> QED  BY <1>2, <1>3, RefusedStep

LEMMA NoRoomToReserve ==
    ASSUME NEW size, Turned("reserve", 0, size, <<>>, "INSUFFICIENT_BUFFER_SIZE"),
           Limit # Unlimited, Limit < size
    PROVE  Abstract!Answered
  <1>1. /\ call'.op = "reserve" /\ call'.count = size
    BY CallFields DEF Turned
  <1>2. Abstract!NoRoom(call') /\ Abstract!Legal(call')
    BY <1>1 DEF Abstract!NoRoom, Abstract!Legal
  <1> QED  BY <1>2, RefusedStep

-----------------------------------------------------------------------------
(* Vectors, called *)

(* A vector between two calls, as long as it has memory to its capacity *)
VectorKept(S, v) == v \in VectorsOf(S) /\ (v.memory => Fit(v))

VectorInv == kind = "vector" => VectorKept(Characters, body)

LEMMA OfMore ==
    ASSUME NEW S, NEW T, S \subseteq T, NEW s \in Seq(S)
    PROVE  s \in Seq(T)
  OBVIOUS

LEMMA OneElement ==
    ASSUME NEW S, NEW s \in Seq(S), NEW n \in 1..Len(s)
    PROVE  SubSeq(s, n, n) = <<s[n]>>
  <1> DEFINE one == <<s[n]>>
             part == SubSeq(s, n, n)
  <1>1. one \in Seq(S) /\ Len(one) = 1 /\ one[1] = s[n]
    OBVIOUS
  <1>2. part \in Seq(S) /\ Len(part) = 1 /\ part[1] = s[n]
    OBVIOUS
  <1> HIDE DEF one, part
  <1>3. \A k \in 1..Len(part) : part[k] = one[k]
    BY <1>1, <1>2
  <1>4. part = one
    BY <1>1, <1>2, <1>3, SameSequence
  <1> QED  BY <1>4 DEF part, one

LEMMA CharactersKnown ==
    /\ Junk \in Characters /\ NUL \in Characters /\ Values \subseteq Characters
    /\ Characters \subseteq Contained /\ Characters \subseteq Int
  BY ContainerAssumption DEF Characters, Contained, NUL, WithBit32, Flipped, Bit32, UpperCase, LowerCase

(* The vector that a call is made on: as it is, but for what the allocator has *)
VectorCalled(S, v) ==
    /\ v \in VectorsOf(S) /\ Fit(v)
    /\ v.cells = body.cells /\ v.size = body.size /\ v.capacity = body.capacity /\ v.dynamic = body.dynamic

LEMMA VectorForCall ==
    ASSUME NEW S, VectorKept(S, body), ~Spent(body), NEW v \in MemoryFor(body)
    PROVE  VectorCalled(S, v)
  <1>1. body \in VectorOf(S) /\ Sound(body) /\ Fit(body)
    BY DEF VectorKept, Spent, VectorsOf
  <1>2. PICK m \in BOOLEAN : v = [body EXCEPT !.memory = m] /\ (~body.dynamic => m)
    BY DEF MemoryFor
  <1>3. /\ v \in VectorOf(S) /\ v.cells = body.cells /\ v.size = body.size /\ v.capacity = body.capacity
        /\ v.dynamic = body.dynamic /\ v.growth = body.growth /\ v.threshold = body.threshold /\ v.memory = m
    BY <1>1, <1>2 DEF VectorOf
  <1>4. Sound(v) /\ Fit(v)
    BY <1>1, <1>2, <1>3 DEF Sound, Settled, Fit
  <1> QED  BY <1>3, <1>4 DEF VectorCalled, VectorsOf

(* What a vector is after a call *)
LEMMA VectorAfter ==
    ASSUME NEW S, NEW v \in VectorsOf(S), NEW w \in VectorsOf(S), Kin(v, w), NEW m \in BOOLEAN, ~v.dynamic => m
    PROVE  LET u == [w EXCEPT !.memory = m] IN
           /\ u \in VectorsOf(S) /\ (Fit(w) => Fit(u))
           /\ u.cells = w.cells /\ u.size = w.size /\ u.capacity = w.capacity /\ u.dynamic = v.dynamic /\ u.memory = m
           /\ ~v.dynamic => u.capacity = v.capacity
  <1> DEFINE u == [w EXCEPT !.memory = m]
  <1>1. w \in VectorOf(S) /\ Sound(w)
    BY DEF VectorsOf
  <1>2. /\ u \in VectorOf(S) /\ u.cells = w.cells /\ u.size = w.size /\ u.capacity = w.capacity
        /\ u.dynamic = w.dynamic /\ u.growth = w.growth /\ u.threshold = w.threshold /\ u.memory = m
    BY <1>1 DEF VectorOf
  <1>3. w.dynamic = v.dynamic /\ (~v.dynamic => w.capacity = v.capacity)
    BY DEF Kin
  <1> HIDE DEF u
  <1>4. Sound(u) /\ (Fit(w) => Fit(u))
    BY <1>1, <1>2, <1>3 DEF Sound, Settled, Fit
  <1> QED  BY <1>2, <1>3, <1>4 DEF VectorsOf, u

LEMMA CallReturned ==
    ASSUME NEW op, NEW at, NEW count, NEW new, NEW st, NEW w, NEW out, NEW r, r = Result(st, w, out),
           VectorReturned(Operation(op, at, count, new), r)
    PROVE  /\ body' = [w EXCEPT !.memory = st # "NOT_ENOUGH_MEMORY"]
           /\ Calls(op, at, count, new, st, out) /\ kind' = kind /\ watched' = watched
  <1>1. r = [status |-> st, v |-> w, out |-> out]
    BY DEF Result
  <1> DEFINE a == AfterCall(r)
  <1>2. a.status = st /\ a.out = out /\ a.v = [w EXCEPT !.memory = st # "NOT_ENOUGH_MEMORY"]
    BY <1>1 DEF AfterCall
  <1>3. Returned(Operation(op, at, count, new), a)
    BY DEF VectorReturned
  <1> HIDE DEF a
  <1> QED  BY <1>2, <1>3 DEF Returned, Called, Calls

(* A call that has memory: the vector is w then. *)
LEMMA VectorSucceeds ==
    ASSUME NEW S, NEW v, VectorCalled(S, v), NEW w \in VectorsOf(S), Kin(v, w), Fit(w),
           NEW op, NEW at, NEW count, NEW new, NEW st, st # "NOT_ENOUGH_MEMORY", NEW out,
           NEW r, r = Result(st, w, out),
           VectorReturned(Operation(op, at, count, new), r)
    PROVE  /\ Calls(op, at, count, new, st, out) /\ kind' = kind /\ watched' = watched
           /\ VectorKept(S, body') /\ body'.cells = w.cells /\ body'.size = w.size
           /\ body'.dynamic = body.dynamic /\ (~body.dynamic => body'.capacity = body.capacity)
  <1> DEFINE m == st # "NOT_ENOUGH_MEMORY"
             u == [w EXCEPT !.memory = m]
  <1>1. /\ body' = u /\ Calls(op, at, count, new, st, out) /\ kind' = kind /\ watched' = watched
    BY CallReturned
  <1>2. m \in BOOLEAN /\ m /\ v \in VectorsOf(S) /\ v.dynamic = body.dynamic /\ v.capacity = body.capacity
    BY DEF VectorCalled
  <1> HIDE DEF m
  <1>3. /\ u \in VectorsOf(S) /\ (Fit(w) => Fit(u))
        /\ u.cells = w.cells /\ u.size = w.size /\ u.capacity = w.capacity /\ u.dynamic = v.dynamic
        /\ ~v.dynamic => u.capacity = v.capacity
    <2>1. v \in VectorsOf(S) /\ m \in BOOLEAN /\ (~v.dynamic => m)
      BY <1>2
    <2> QED  BY <2>1, VectorAfter
  <1> HIDE DEF u
  <1> QED  BY <1>1, <1>2, <1>3 DEF VectorKept

(* One that has none *)
LEMMA VectorFails ==
    ASSUME NEW S, NEW v, VectorCalled(S, v), NEW op, NEW at, NEW count, NEW new, NEW r, NoMemory(v, r),
           VectorReturned(Operation(op, at, count, new), r)
    PROVE  /\ Calls(op, at, count, new, "NOT_ENOUGH_MEMORY", <<>>) /\ kind' = kind /\ watched' = watched
           /\ VectorKept(S, body') /\ body'.cells = body.cells /\ body'.size = body.size
           /\ body.dynamic /\ body'.dynamic /\ ~body'.memory
  <1>1. /\ v \in VectorsOf(S) /\ v.dynamic = body.dynamic /\ v.cells = body.cells /\ v.size = body.size
    BY DEF VectorCalled
  <1>2. PICK n \in Nat : n > v.capacity /\ r = Fails("NOT_ENOUGH_MEMORY", [v EXCEPT !.capacity = n])
    BY DEF NoMemory
  <1> DEFINE w == [v EXCEPT !.capacity = n]
             m == FALSE
             u == [w EXCEPT !.memory = m]
  <1>3. v.dynamic
    BY DEF NoMemory
  <1>4. w \in VectorsOf(S) /\ Kin(v, w) /\ w.cells = v.cells /\ w.size = v.size
    <2>1. v \in VectorOf(S) /\ Sound(v)
      BY <1>1 DEF VectorsOf
    <2>2. /\ w \in VectorOf(S) /\ w.cells = v.cells /\ w.size = v.size /\ w.capacity = n
          /\ w.dynamic = v.dynamic /\ w.growth = v.growth /\ w.threshold = v.threshold /\ w.memory = v.memory
      BY <2>1 DEF VectorOf
    <2>3. n >= v.size /\ n >= 1 /\ v.capacity \in Nat
      BY <1>2, <2>1 DEF VectorOf, Sound, Settled
    <2> HIDE DEF w
    <2>4. Sound(w) /\ Kin(v, w)
      BY <1>3, <2>1, <2>2, <2>3 DEF Sound, Settled, Kin
    <2> QED  BY <2>2, <2>4 DEF VectorsOf
  <1>5. r = Result("NOT_ENOUGH_MEMORY", w, <<>>)
    BY <1>2 DEF Fails
  <1> HIDE DEF w
  <1>6. /\ body' = [w EXCEPT !.memory = "NOT_ENOUGH_MEMORY" # "NOT_ENOUGH_MEMORY"]
        /\ Calls(op, at, count, new, "NOT_ENOUGH_MEMORY", <<>>) /\ kind' = kind /\ watched' = watched
    BY <1>5, CallReturned
  <1>7. body' = u
    BY <1>6
  <1>8. m \in BOOLEAN /\ (~v.dynamic => m) /\ ~m
    BY <1>3
  <1> HIDE DEF m
  <1>9. /\ u \in VectorsOf(S)
        /\ u.cells = w.cells /\ u.size = w.size /\ u.dynamic = v.dynamic /\ u.memory = m
    BY <1>1, <1>4, <1>8, VectorAfter
  <1> HIDE DEF u
  <1> QED  BY <1>1, <1>3, <1>4, <1>6, <1>7, <1>8, <1>9 DEF VectorKept

(* The contents of a vector *)
LEMMA VectorHeld ==
    ASSUME kind = "vector", NEW v, VectorCalled(Characters, v)
    PROVE  /\ Held \in Seq(Characters) /\ Len(Held) = v.size /\ v.size \in Nat
           /\ \A k \in 1..v.size : Held[k] = v.cells[k]
           /\ Held = SubSeq(v.cells, 1, v.size)
           /\ v.dynamic => Limit = Unlimited
           /\ ~v.dynamic => Limit = v.capacity /\ Limit # Unlimited /\ Limit \in Nat /\ Len(Held) <= Limit
  <1>1. /\ v \in VectorsOf(Characters) /\ v.cells = body.cells /\ v.size = body.size
        /\ v.dynamic = body.dynamic /\ v.capacity = body.capacity
    BY DEF VectorCalled
  <1>2. Held = Contents(v)
    BY <1>1 DEF Held, Contents
  <1>3. /\ Contents(v) \in Seq(Characters) /\ Len(Contents(v)) = v.size /\ v.size \in Nat
        /\ \A k \in 1..v.size : Contents(v)[k] = v.cells[k]
    BY <1>1, ContentsOfVector
  <1>4. v.capacity \in Nat /\ v.size <= v.capacity /\ v.dynamic \in BOOLEAN
    BY <1>1 DEF VectorsOf, VectorOf, Sound
  <1>5. Limit = IF v.dynamic THEN Unlimited ELSE v.capacity
    BY <1>1, <1>4 DEF Limit
  <1>6. Held = SubSeq(v.cells, 1, v.size)
    BY <1>2 DEF Contents
  <1> QED  BY <1>2, <1>3, <1>4, <1>5, <1>6, ContainerAssumption

(* A call that leaves w *)
VectorLeft(w) ==
    /\ Steady /\ VectorInv' /\ kind' = kind
    /\ Held' \in Seq(Characters) /\ Len(Held') = w.size /\ \A k \in 1..w.size : Held'[k] = w.cells[k]

LEMMA VectorLeaves ==
    ASSUME kind = "vector", NEW v, VectorCalled(Characters, v), NEW w \in VectorsOf(Characters), Kin(v, w), Fit(w),
           NEW op, NEW at, NEW count, NEW new, NEW st, st # "NOT_ENOUGH_MEMORY", NEW out,
           NEW r, r = Result(st, w, out),
           VectorReturned(Operation(op, at, count, new), r)
    PROVE  Calls(op, at, count, new, st, out) /\ VectorLeft(w)
  <1> DEFINE u == body'
  <1>1. /\ Calls(op, at, count, new, st, out) /\ kind' = kind /\ watched' = watched
        /\ VectorKept(Characters, u) /\ u.cells = w.cells /\ u.size = w.size
        /\ u.dynamic = body.dynamic /\ (~body.dynamic => u.capacity = body.capacity)
    BY VectorSucceeds
  <1>2. u \in VectorsOf(Characters)
    BY <1>1 DEF VectorKept
  <1>3. Held' = Contents(u)
    BY <1>1 DEF Held
  <1>4. body.dynamic \in BOOLEAN
    BY DEF VectorCalled, VectorsOf, VectorOf
  <1>5. Limit' = Limit
    BY <1>1, <1>4 DEF Limit
  <1>6. VectorInv'
    BY <1>1 DEF VectorInv
  <1> HIDE DEF u
  <1>7. /\ Contents(u) \in Seq(Characters) /\ Len(Contents(u)) = u.size
        /\ \A k \in 1..u.size : Contents(u)[k] = u.cells[k]
    BY <1>2, ContentsOfVector
  <1> QED  BY <1>1, <1>3, <1>5, <1>6, <1>7 DEF VectorLeft, Steady

(* A call that is refused leaves everything as it was. *)
LEMMA VectorTurned ==
    ASSUME kind = "vector", NEW v, VectorCalled(Characters, v),
           NEW op, NEW at, NEW count, NEW new, NEW st, st # "NOT_ENOUGH_MEMORY",
           VectorReturned(Operation(op, at, count, new), Fails(st, v))
    PROVE  Turned(op, at, count, new, st) /\ VectorInv' /\ kind' = kind
  <1>1. v \in VectorsOf(Characters) /\ Fit(v) /\ Kin(v, v)
    BY DEF VectorCalled, Kin
  <1>2. Fails(st, v) = Result(st, v, <<>>)
    BY DEF Fails
  <1>3. Calls(op, at, count, new, st, <<>>) /\ VectorLeft(v)
    BY <1>1, <1>2, VectorLeaves
  <1>4. /\ Held \in Seq(Characters) /\ Len(Held) = v.size
        /\ \A k \in 1..v.size : Held[k] = v.cells[k]
    BY VectorHeld
  <1> DEFINE s == Held
             t == Held'
  <1>5. s = t
    <2>1. /\ s \in Seq(Characters) /\ t \in Seq(Characters) /\ Len(s) = Len(t) /\ \A k \in 1..Len(s) : s[k] = t[k]
      BY <1>3, <1>4 DEF VectorLeft
    <2> HIDE DEF s, t
    <2> QED  BY <2>1, SameSequence
  <1> QED  BY <1>3, <1>5 DEF VectorLeft, Turned

LEMMA VectorNoMemory ==
    ASSUME kind = "vector", NEW v, VectorCalled(Characters, v),
           NEW op, op # "fill", NEW at, NEW count, NEW new, NEW r, NoMemory(v, r),
           VectorReturned(Operation(op, at, count, new), r)
    PROVE  Abstract!Answered /\ VectorInv' /\ kind' = kind
  <1> DEFINE u == body'
  <1>1. /\ Calls(op, at, count, new, "NOT_ENOUGH_MEMORY", <<>>) /\ kind' = kind /\ watched' = watched
        /\ VectorKept(Characters, u) /\ u.cells = body.cells /\ u.size = body.size
        /\ body.dynamic /\ u.dynamic /\ ~u.memory
    BY VectorFails
  <1>2. Held' = Held /\ Limit' = Limit /\ Limit = Unlimited
    BY <1>1 DEF Held, Limit, Contents
  <1>3. Turned(op, at, count, new, "NOT_ENOUGH_MEMORY")
    BY <1>1, <1>2 DEF Turned, Steady
  <1>4. Abstract!Answered
    BY <1>2, <1>3, RefusedStep
  <1> QED  BY <1>1, <1>4 DEF VectorInv

LEMMA VectorNoRoom ==
    ASSUME kind = "vector", NEW v, VectorCalled(Characters, v), NEW size,
           NEW op, NEW at, NEW count, NEW new, NEW r, NoRoomFor(v, r, size),
           VectorReturned(Operation(op, at, count, new), r)
    PROVE  /\ Turned(op, at, count, new, "INSUFFICIENT_BUFFER_SIZE") /\ VectorInv' /\ kind' = kind
           /\ Limit # Unlimited /\ Limit \in Nat /\ Len(Held) <= Limit /\ Limit < size
  <1>1. r = Fails("INSUFFICIENT_BUFFER_SIZE", v) /\ ~v.dynamic /\ v.capacity < size
    BY DEF NoRoomFor
  <1>2. Turned(op, at, count, new, "INSUFFICIENT_BUFFER_SIZE") /\ VectorInv' /\ kind' = kind
    BY <1>1, VectorTurned
  <1>3. Limit = v.capacity /\ Limit # Unlimited /\ Limit \in Nat /\ Len(Held) <= Limit
    BY <1>1, VectorHeld
  <1> QED  BY <1>1, <1>2, <1>3

(* The calls *)
LEMMA VectorInsertsStep ==
    ASSUME kind = "vector", NEW v, VectorCalled(Characters, v), NEW i \in Nat, NEW new \in Seq(Characters),
           NEW r, VectorReturned(Insert(i, new), r), i <= v.size,
           \/ \E w \in VectorsOf(Characters) : r = Success(w) /\ Kin(v, w) /\ Fit(w) /\ Inserted(v, w, i, new)
           \/ NoMemory(v, r)
           \/ NoRoomFor(v, r, v.size + Len(new))
    PROVE  Abstract!Answered /\ VectorInv' /\ kind' = kind
  <1>1. /\ Held \in Seq(Characters) /\ Len(Held) = v.size /\ v.size \in Nat
        /\ \A k \in 1..v.size : Held[k] = v.cells[k]
    BY VectorHeld
  <1>2. VectorReturned(Operation("insert", i, 0, new), r)
    BY DEF Insert
  <1>3. ASSUME NEW w \in VectorsOf(Characters), r = Success(w), Kin(v, w), Fit(w), Inserted(v, w, i, new)
        PROVE  Abstract!Answered /\ VectorInv' /\ kind' = kind
    <2>1. r = Result("SUCCESS", w, <<>>)
      BY <1>3 DEF Success
    <2>2. Calls("insert", i, 0, new, "SUCCESS", <<>>) /\ VectorLeft(w)
      BY <1>2, <1>3, <2>1, VectorLeaves
    <2>3. /\ Held' \in Seq(Characters) /\ Len(Held') = w.size /\ Steady
          /\ \A k \in 1..w.size : Held'[k] = w.cells[k]
      BY <2>2 DEF VectorLeft
    <2>4. /\ w.size = v.size + Len(new)
          /\ \A k \in 1..w.size :
               w.cells[k] = IF k <= i THEN v.cells[k] ELSE IF k <= i + Len(new) THEN new[k - i]
                 ELSE v.cells[k - Len(new)]
      BY <1>3 DEF Inserted
    <2>5. \A k \in 1..Len(Held') :
              Held'[k] = IF k <= i THEN Held[k] ELSE IF k <= i + Len(new) THEN new[k - i] ELSE Held[k - Len(new)]
      <3> TAKE k \in 1..Len(Held')
      <3>1. k \in 1..w.size /\ Len(new) \in Nat
        BY <2>3
      <3>2. (k <= i => k \in 1..v.size) /\ (~(k <= i + Len(new)) => k - Len(new) \in 1..v.size)
        BY <1>1, <2>4, <3>1
      <3> QED  BY <1>1, <2>3, <2>4, <3>1, <3>2
    <2>6. Len(Held') = Len(Held) + Len(new) /\ i <= Len(Held)
      BY <1>1, <2>3, <2>4
    <2>7. Abstract!Answered
      BY <1>1, <2>2, <2>3, <2>5, <2>6, InsertStep
    <2> QED  BY <2>2, <2>7 DEF VectorLeft
  <1>4. CASE NoMemory(v, r)
    BY <1>2, <1>4, VectorNoMemory
  <1>5. CASE NoRoomFor(v, r, v.size + Len(new))
    <2>1. /\ Turned("insert", i, 0, new, "INSUFFICIENT_BUFFER_SIZE") /\ VectorInv' /\ kind' = kind
          /\ Limit # Unlimited /\ Limit \in Nat /\ Len(Held) <= Limit /\ Limit < v.size + Len(new)
      BY <1>2, <1>5, VectorNoRoom
    <2>2. Abstract!Answered
      BY <1>1, <2>1, NoRoomToInsert
    <2> QED  BY <2>1, <2>2
  <1> QED  BY <1>3, <1>4, <1>5

LEMMA VectorDeletesStep ==
    ASSUME kind = "vector", NEW v, VectorCalled(Characters, v), NEW i \in Nat, NEW n \in Nat, i + n <= v.size,
           NEW r, VectorReturned(Delete(i, n), r),
           NEW w \in VectorsOf(Characters), r = Result("SUCCESS", w, SubSeq(v.cells, i + 1, i + n)),
           Kin(v, w), Fit(w), Deleted(v, w, i, n)
    PROVE  Abstract!Answered /\ VectorInv' /\ kind' = kind
  <1>1. /\ Held \in Seq(Characters) /\ Len(Held) = v.size /\ v.size \in Nat
        /\ \A k \in 1..v.size : Held[k] = v.cells[k]
        /\ Held = SubSeq(v.cells, 1, v.size)
    BY VectorHeld
  <1>2. VectorReturned(Operation("delete", i, n, <<>>), r)
    BY DEF Delete
  <1> DEFINE out == SubSeq(v.cells, i + 1, i + n)
  <1>3. out = SubSeq(Held, i + 1, i + n)
    <2>1. v.cells \in Seq(Characters) /\ v.size <= Len(v.cells)
      BY DEF VectorCalled, VectorsOf, VectorOf, Sound
    <2>2. SubSeq(SubSeq(v.cells, 1, v.size), i + 1, i + n) = SubSeq(v.cells, i + 1, i + n)
      BY <1>1, <2>1
    <2> QED  BY <1>1, <2>2
  <1> HIDE DEF out
  <1>4. Calls("delete", i, n, <<>>, "SUCCESS", out) /\ VectorLeft(w)
    BY <1>2, VectorLeaves DEF out
  <1>5. /\ Held' \in Seq(Characters) /\ Len(Held') = w.size /\ Steady
        /\ \A k \in 1..w.size : Held'[k] = w.cells[k]
    BY <1>4 DEF VectorLeft
  <1>6. w.size = v.size - n /\ \A k \in 1..w.size : w.cells[k] = IF k <= i THEN v.cells[k] ELSE v.cells[k + n]
    BY DEF Deleted
  <1>7. \A k \in 1..Len(Held') : Held'[k] = IF k <= i THEN Held[k] ELSE Held[k + n]
    <2> TAKE k \in 1..Len(Held')
    <2>1. k \in 1..w.size /\ (k <= i => k \in 1..v.size) /\ k + n \in 1..v.size
      BY <1>1, <1>5, <1>6
    <2> QED  BY <1>1, <1>5, <1>6, <2>1
  <1>8. Len(Held') = Len(Held) - n /\ i + n <= Len(Held)
    BY <1>1, <1>5, <1>6
  <1>9. Abstract!Answered
    BY <1>1, <1>3, <1>4, <1>5, <1>7, <1>8, DeleteStep
  <1> QED  BY <1>4, <1>9 DEF VectorLeft

LEMMA VectorSetStep ==
    ASSUME kind = "vector", NEW v, VectorCalled(Characters, v), NEW i \in Nat, i < v.size, NEW x \in Characters,
           NEW r, VectorReturned(Overwrite(i, <<x>>), r),
           NEW w \in VectorsOf(Characters), r = Result("SUCCESS", w, <<v.cells[i + 1]>>),
           Kin(v, w), Fit(w), Replaced(v, w, i, <<x>>)
    PROVE  Abstract!Answered /\ VectorInv' /\ kind' = kind
  <1> DEFINE new == <<x>>
             out == <<v.cells[i + 1]>>
  <1>0. new \in Seq(Characters) /\ Len(new) = 1
    OBVIOUS
  <1>1. /\ Held \in Seq(Characters) /\ Len(Held) = v.size /\ v.size \in Nat
        /\ \A k \in 1..v.size : Held[k] = v.cells[k]
    BY VectorHeld
  <1>2. VectorReturned(Operation("overwrite", i, 0, new), r)
    BY DEF Overwrite
  <1> HIDE DEF new
  <1>3. out = SubSeq(Held, i + 1, i + Len(new))
    <2> DEFINE s == Held
               n == i + 1
    <2>1. s \in Seq(Characters) /\ n \in 1..Len(s) /\ s[n] = v.cells[n]
      BY <1>1
    <2> HIDE DEF s, n
    <2>2. SubSeq(s, n, n) = <<s[n]>>
      BY <2>1, OneElement
    <2> QED  BY <1>0, <2>1, <2>2 DEF s, n
  <1>4. /\ w.size = v.size
        /\ \A k \in 1..w.size : w.cells[k] = IF i < k /\ k <= i + Len(new) THEN new[k - i] ELSE v.cells[k]
    BY DEF Replaced, new
  <1> HIDE DEF out
  <1>5. Calls("overwrite", i, 0, new, "SUCCESS", out) /\ VectorLeft(w)
    BY <1>2, VectorLeaves DEF out
  <1>6. /\ Held' \in Seq(Characters) /\ Len(Held') = w.size /\ Steady
        /\ \A k \in 1..w.size : Held'[k] = w.cells[k]
    BY <1>5 DEF VectorLeft
  <1>7. \A k \in 1..Len(Held) : Held'[k] = IF i < k /\ k <= i + Len(new) THEN new[k - i] ELSE Held[k]
    BY <1>1, <1>4, <1>6
  <1>8. Len(Held') = Len(Held) /\ i + Len(new) <= Len(Held)
    BY <1>0, <1>1, <1>4, <1>6
  <1>9. Calls("overwrite", i, 0, new, "SUCCESS", SubSeq(Held, i + 1, i + Len(new)))
    BY <1>3, <1>5
  <1>10. Abstract!Answered
    BY <1>0, <1>1, <1>6, <1>7, <1>8, <1>9, OverwriteStep
  <1> QED  BY <1>5, <1>10 DEF VectorLeft

LEMMA VectorSwapStep ==
    ASSUME kind = "vector", NEW v, VectorCalled(Characters, v), NEW i \in Nat, NEW j \in Nat, i < v.size, j < v.size,
           NEW r, VectorReturned(Swap(i, j), r),
           NEW w \in VectorsOf(Characters), r = Success(w), Kin(v, w), Fit(w), w.size = v.size,
           \A k \in 1..v.size :
              w.cells[k] = IF k = j + 1 THEN v.cells[i + 1] ELSE IF k = i + 1 THEN v.cells[j + 1] ELSE v.cells[k]
    PROVE  Abstract!Answered /\ VectorInv' /\ kind' = kind
  <1>1. /\ Held \in Seq(Characters) /\ Len(Held) = v.size /\ v.size \in Nat
        /\ \A k \in 1..v.size : Held[k] = v.cells[k]
    BY VectorHeld
  <1>2. VectorReturned(Operation("swap", i, j, <<>>), r) /\ r = Result("SUCCESS", w, <<>>)
    BY DEF Swap, Success
  <1>3. Calls("swap", i, j, <<>>, "SUCCESS", <<>>) /\ VectorLeft(w)
    BY <1>2, VectorLeaves
  <1>4. /\ Held' \in Seq(Characters) /\ Len(Held') = w.size /\ Steady
        /\ \A k \in 1..w.size : Held'[k] = w.cells[k]
    BY <1>3 DEF VectorLeft
  <1>5. \A k \in 1..Len(Held) :
            Held'[k] = IF k = j + 1 THEN Held[i + 1] ELSE IF k = i + 1 THEN Held[j + 1] ELSE Held[k]
    <2>1. Held[i + 1] = v.cells[i + 1] /\ Held[j + 1] = v.cells[j + 1]
      BY <1>1
    <2> QED  BY <1>1, <1>4, <2>1
  <1>6. Len(Held') = Len(Held) /\ i < Len(Held) /\ j < Len(Held)
    BY <1>1, <1>4
  <1>7. Abstract!Answered
    BY <1>1, <1>3, <1>4, <1>5, <1>6, SwapStep
  <1> QED  BY <1>3, <1>7 DEF VectorLeft

LEMMA VectorResizeStep ==
    ASSUME kind = "vector", NEW v, VectorCalled(Characters, v), NEW size \in Nat, NEW new,
           NEW r, VectorReturned(Resize(size, new), r),
           \/ \E w \in VectorsOf(Characters) :
                /\ r = Result("SUCCESS", w, SubSeq(v.cells, size + 1, v.size))
                /\ Kin(v, w) /\ Fit(w) /\ Extends(v, w, size, new)
           \/ NoMemory(v, r)
           \/ NoRoomFor(v, r, size)
    PROVE  Abstract!Answered /\ VectorInv' /\ kind' = kind
  <1>1. /\ Held \in Seq(Characters) /\ Len(Held) = v.size /\ v.size \in Nat
        /\ \A k \in 1..v.size : Held[k] = v.cells[k]
        /\ Held = SubSeq(v.cells, 1, v.size)
    BY VectorHeld
  <1>2. VectorReturned(Operation("resize", 0, size, new), r)
    BY DEF Resize
  <1>3. ASSUME NEW w \in VectorsOf(Characters), r = Result("SUCCESS", w, SubSeq(v.cells, size + 1, v.size)),
               Kin(v, w), Fit(w), Extends(v, w, size, new)
        PROVE  Abstract!Answered /\ VectorInv' /\ kind' = kind
    <2> DEFINE out == SubSeq(v.cells, size + 1, v.size)
    <2>1. out = SubSeq(Held, size + 1, Len(Held))
      <3>1. v.cells \in Seq(Characters) /\ v.size <= Len(v.cells)
        BY DEF VectorCalled, VectorsOf, VectorOf, Sound
      <3>2. SubSeq(SubSeq(v.cells, 1, v.size), size + 1, v.size) = SubSeq(v.cells, size + 1, v.size)
        BY <1>1, <3>1
      <3> QED  BY <1>1, <3>2
    <2>2. r = Result("SUCCESS", w, out)
      BY <1>3
    <2> HIDE DEF out
    <2>3. Calls("resize", 0, size, new, "SUCCESS", out) /\ VectorLeft(w)
      BY <1>2, <1>3, <2>2, VectorLeaves
    <2>4. /\ Held' \in Seq(Characters) /\ Len(Held') = w.size /\ Steady
          /\ \A k \in 1..w.size : Held'[k] = w.cells[k]
      BY <2>3 DEF VectorLeft
    <2>5. /\ w.size = size
          /\ \A k \in 1..size : IF k <= v.size THEN w.cells[k] = v.cells[k] ELSE new # <<>> => w.cells[k] = new[1]
      BY <1>3 DEF Extends
    <2>6. \A k \in 1..size : IF k <= Len(Held) THEN Held'[k] = Held[k] ELSE new # <<>> => Held'[k] = new[1]
      BY <1>1, <2>4, <2>5
    <2>7. Held' \in Seq(Contained) /\ Len(Held') = size
      <3> DEFINE t == Held'
      <3>1. t \in Seq(Characters) /\ Len(t) = size /\ Characters \subseteq Contained
        BY <2>4, <2>5, CharactersKnown
      <3> HIDE DEF t
      <3>2. t \in Seq(Contained)
        BY <3>1, OfMore
      <3> QED  BY <3>1, <3>2 DEF t
    <2>8. Calls("resize", 0, size, new, "SUCCESS", SubSeq(Held, size + 1, Len(Held)))
      BY <2>1, <2>3
    <2>9. Abstract!Answered
      BY <1>1, <2>4, <2>6, <2>7, <2>8, ResizeStep
    <2> QED  BY <2>3, <2>9 DEF VectorLeft
  <1>4. CASE NoMemory(v, r)
    BY <1>2, <1>4, VectorNoMemory
  <1>5. CASE NoRoomFor(v, r, size)
    <2>1. /\ Turned("resize", 0, size, new, "INSUFFICIENT_BUFFER_SIZE") /\ VectorInv' /\ kind' = kind
          /\ Limit # Unlimited /\ Limit \in Nat /\ Len(Held) <= Limit /\ Limit < size
      BY <1>2, <1>5, VectorNoRoom
    <2>2. Abstract!Answered
      BY <1>1, <2>1, NoRoomToResize
    <2> QED  BY <2>1, <2>2
  <1> QED  BY <1>3, <1>4, <1>5

LEMMA VectorReserveStep ==
    ASSUME kind = "vector", NEW v, VectorCalled(Characters, v), NEW size \in Nat,
           NEW r, VectorReturned(Reserve(size), r),
           \/ \E w \in VectorsOf(Characters) : r = Success(w) /\ Kin(v, w) /\ Fit(w) /\ Extends(v, w, v.size, <<>>)
           \/ NoMemory(v, r)
           \/ NoRoomFor(v, r, size)
    PROVE  Abstract!Answered /\ VectorInv' /\ kind' = kind
  <1>1. /\ Held \in Seq(Characters) /\ Len(Held) = v.size /\ v.size \in Nat
        /\ \A k \in 1..v.size : Held[k] = v.cells[k]
    BY VectorHeld
  <1>2. VectorReturned(Operation("reserve", 0, size, <<>>), r)
    BY DEF Reserve
  <1>3. ASSUME NEW w \in VectorsOf(Characters), r = Success(w), Kin(v, w), Fit(w), Extends(v, w, v.size, <<>>)
        PROVE  Abstract!Answered /\ VectorInv' /\ kind' = kind
    <2>1. r = Result("SUCCESS", w, <<>>)
      BY <1>3 DEF Success
    <2>2. Calls("reserve", 0, size, <<>>, "SUCCESS", <<>>) /\ VectorLeft(w)
      BY <1>2, <1>3, <2>1, VectorLeaves
    <2>3. w.size = v.size /\ \A k \in 1..v.size : w.cells[k] = v.cells[k]
      BY <1>1, <1>3 DEF Extends
    <2> DEFINE s == Held
               t == Held'
    <2>4. s = t
      <3>1. s \in Seq(Characters) /\ t \in Seq(Characters) /\ Len(s) = Len(t) /\ \A k \in 1..Len(s) : s[k] = t[k]
        BY <1>1, <2>2, <2>3 DEF VectorLeft
      <3> HIDE DEF s, t
      <3> QED  BY <3>1, SameSequence
    <2>5. Abstract!Answered
      BY <2>2, <2>4, ReserveStep DEF VectorLeft
    <2> QED  BY <2>2, <2>5 DEF VectorLeft
  <1>4. CASE NoMemory(v, r)
    BY <1>2, <1>4, VectorNoMemory
  <1>5. CASE NoRoomFor(v, r, size)
    <2>1. /\ Turned("reserve", 0, size, <<>>, "INSUFFICIENT_BUFFER_SIZE") /\ VectorInv' /\ kind' = kind
          /\ Limit # Unlimited /\ Limit \in Nat /\ Len(Held) <= Limit /\ Limit < size
      BY <1>2, <1>5, VectorNoRoom
    <2>2. Abstract!Answered
      BY <2>1, NoRoomToReserve
    <2> QED  BY <2>1, <2>2
  <1> QED  BY <1>3, <1>4, <1>5

(* A failed constructor leaves the elements as they were, or displaced. *)
LEMMA VectorRefusesStep ==
    ASSUME kind = "vector", NEW v, VectorCalled(Characters, v), NEW w \in VectorsOf(Characters), Kin(v, w), Fit(w),
           NEW i \in Nat, i <= v.size, NEW new, NEW r, r = Fails("FAILED", w), VectorReturned(Insert(i, new), r),
           RoomLeft(v, w, i)
    PROVE  Abstract!Answered /\ VectorInv' /\ kind' = kind
  <1>1. /\ Held \in Seq(Characters) /\ Len(Held) = v.size /\ v.size \in Nat
        /\ \A k \in 1..v.size : Held[k] = v.cells[k]
    BY VectorHeld
  <1>2. VectorReturned(Operation("insert", i, 0, new), r) /\ r = Result("FAILED", w, <<>>)
    BY DEF Insert, Fails
  <1>3. Calls("insert", i, 0, new, "FAILED", <<>>) /\ VectorLeft(w)
    BY <1>2, VectorLeaves
  <1>4. w.size = v.size /\ \A k \in 1..v.size : w.cells[k] = IF k <= i + 1 THEN v.cells[k] ELSE v.cells[k - 1]
    BY <1>1 DEF RoomLeft
  <1> DEFINE s == Held
             t == Held'
  <1>5. /\ s \in Seq(Characters) /\ t \in Seq(Characters) /\ Len(t) = Len(s) /\ Len(s) = v.size
        /\ \A k \in 1..Len(s) : t[k] = IF k <= i + 1 THEN s[k] ELSE s[k - 1]
    <2>1. ASSUME NEW k \in 1..v.size
          PROVE  t[k] = IF k <= i + 1 THEN s[k] ELSE s[k - 1]
      <3>1. ~(k <= i + 1) => k - 1 \in 1..v.size
        BY <1>1
      <3> QED  BY <1>1, <1>3, <1>4, <3>1 DEF VectorLeft
    <2> QED  BY <1>1, <1>3, <1>4, <2>1 DEF VectorLeft
  <1>6. CASE i = v.size
    <2>1. \A k \in 1..Len(s) : t[k] = s[k]
      BY <1>1, <1>5, <1>6
    <2> HIDE DEF s, t
    <2>2. s = t
      BY <1>5, <2>1, SameSequence
    <2>3. Turned("insert", i, 0, new, "FAILED")
      BY <1>3, <2>2 DEF Turned, VectorLeft, s, t
    <2>4. Abstract!Answered
      BY <1>1, <1>6, <2>3, RefusedStep
    <2> QED  BY <1>3, <2>4 DEF VectorLeft
  <1>7. CASE i < v.size
    <2>1. Abstract!Answered
      BY <1>1, <1>3, <1>5, <1>7, DisplacedStep DEF VectorLeft
    <2> QED  BY <1>3, <2>1 DEF VectorLeft
  <1> QED  BY <1>1, <1>6, <1>7

LEMMA VectorInsertsSteps ==
    ASSUME kind = "vector", NEW v, VectorCalled(Characters, v), VectorInserts(v)
    PROVE  Abstract!Answered /\ VectorInv' /\ kind' = kind
  <1>1. v \in VectorsOf(Characters) /\ Fit(v) /\ v.size \in Nat
    BY DEF VectorCalled, VectorsOf, VectorOf
  <1>2. Held \in Seq(Characters) /\ Len(Held) = v.size
    BY VectorHeld
  <1>3. Junk \in Characters /\ Values \subseteq Characters
    BY CharactersKnown
  <1>4. ASSUME NEW x \in Values
        PROVE  x \in Characters /\ <<x>> \in Seq(Characters) /\ Len(<<x>>) = 1 /\ <<x>> # <<>>
    BY <1>3
  <1>5. ASSUME NEW x \in Values, VectorReturned(Insert(v.size, <<x>>), VectorPushBack(v, x))
        PROVE  Abstract!Answered /\ VectorInv' /\ kind' = kind
    <2> DEFINE r == VectorPushBack(v, x)
               new == <<x>>
    <2>1. x \in Characters /\ new \in Seq(Characters) /\ Len(new) = 1
      BY <1>4
    <2>2. \/ \E w \in VectorsOf(Characters) : r = Success(w) /\ Kin(v, w) /\ Fit(w) /\ Inserted(v, w, v.size, new)
          \/ NoMemory(v, r)
          \/ NoRoomFor(v, r, v.size + 1)
      BY <1>1, <1>3, <2>1, PushedBack
    <2>3. VectorReturned(Insert(v.size, new), r)
      BY <1>5
    <2> HIDE DEF r, new
    <2>4. NoRoomFor(v, r, v.size + 1) => NoRoomFor(v, r, v.size + Len(new))
      BY <2>1
    <2>5. v.size <= v.size
      BY <1>1
    <2> QED  BY <1>1, <2>1, <2>2, <2>3, <2>4, <2>5, VectorInsertsStep
  <1>6. ASSUME NEW i \in 0 .. v.size + 1,
               NEW new \in Texts, VectorReturned(Insert(i, new), VectorInsertRange(v, i, new))
        PROVE  Abstract!Answered /\ VectorInv' /\ kind' = kind
    <2> DEFINE r == VectorInsertRange(v, i, new)
    <2>1. new \in Seq(Characters) /\ Len(new) \in Nat /\ i \in Nat
      <3>1. PICK n \in 0..2 : new \in [1..n -> Values]
        BY DEF Texts
      <3>2. new \in [1..n -> Characters] /\ n \in Nat
        BY <1>3, <3>1
      <3> QED  BY <3>2
    <2>2. VectorReturned(Operation("insert", i, 0, new), r)
      BY <1>6 DEF Insert
    <2>3. CASE new = <<>>
      <3>1. VectorReturned(Operation("insert", i, 0, new), Fails("INVALID_ARGUMENT", v))
        BY <2>2, <2>3 DEF VectorInsertRange
      <3>2. Turned("insert", i, 0, new, "INVALID_ARGUMENT") /\ VectorInv' /\ kind' = kind
        BY <3>1, VectorTurned
      <3>3. Abstract!Answered
        BY <2>3, <3>2, RefusedStep
      <3> QED  BY <3>2, <3>3
    <2>4. CASE new # <<>> /\ i > v.size
      <3>1. VectorReturned(Operation("insert", i, 0, new), Fails("OUT_OF_RANGE", v))
        BY <2>2, <2>4 DEF VectorInsertRange
      <3>2. Turned("insert", i, 0, new, "OUT_OF_RANGE") /\ VectorInv' /\ kind' = kind
        BY <3>1, VectorTurned
      <3>3. Abstract!Answered
        BY <1>1, <1>2, <2>1, <2>4, <3>2, OutOfRangeStep
      <3> QED  BY <3>2, <3>3
    <2>5. CASE new # <<>> /\ ~(i > v.size)
      <3>1. i \in 0..v.size /\ i <= v.size
        BY <1>1, <2>1, <2>5
      <3>2. \/ \E w \in VectorsOf(Characters) :
                r = Success(w) /\ Kin(v, w) /\ Fit(w) /\ Inserted(v, w, i, new)
            \/ NoMemory(v, r)
            \/ NoRoomFor(v, r, v.size + Len(new))
        BY <1>1, <1>3, <2>1, <2>5, <3>1, InsertedRange
      <3>3. VectorReturned(Insert(i, new), r)
        BY <1>6
      <3> HIDE DEF r
      <3> QED  BY <2>1, <3>1, <3>2, <3>3, VectorInsertsStep
    <2> QED  BY <2>3, <2>4, <2>5
  <1>7. ASSUME NEW i \in 0 .. v.size + 1, NEW x \in Values, NEW constructed \in BOOLEAN,
               VectorReturned(Insert(i, <<x>>), VectorEmplaceEx(v, i, x, constructed))
        PROVE  Abstract!Answered /\ VectorInv' /\ kind' = kind
    <2> DEFINE r == VectorEmplaceEx(v, i, x, constructed)
               new == <<x>>
    <2>1. x \in Characters /\ new \in Seq(Characters) /\ Len(new) = 1 /\ i \in Nat
      BY <1>4
    <2>2. VectorReturned(Insert(i, new), r)
      BY <1>7
    <2> HIDE DEF new
    <2>3. CASE i > v.size
      <3>1. VectorReturned(Operation("insert", i, 0, new), Fails("OUT_OF_RANGE", v))
        BY <2>2, <2>3 DEF VectorEmplaceEx, Insert
      <3>2. Turned("insert", i, 0, new, "OUT_OF_RANGE") /\ VectorInv' /\ kind' = kind
        BY <3>1, VectorTurned
      <3>3. Abstract!Answered
        BY <1>1, <1>2, <2>1, <2>3, <3>2, OutOfRangeStep
      <3> QED  BY <3>2, <3>3
    <2>4. CASE ~(i > v.size)
      <3>1. i \in 0..v.size /\ i <= v.size
        BY <1>1, <1>7, <2>1, <2>4
      <3>2. \/ \E w \in VectorsOf(Characters) : r = Success(w) /\ Kin(v, w) /\ Fit(w) /\ Inserted(v, w, i, new)
            \/ \E w \in VectorsOf(Characters) :
                r = Fails("FAILED", w) /\ Kin(v, w) /\ Fit(w) /\ RoomLeft(v, w, i)
            \/ NoMemory(v, r)
            \/ NoRoomFor(v, r, v.size + 1)
        BY <1>1, <1>3, <2>1, <3>1, Emplaced DEF new
      <3> HIDE DEF r
      <3>3. NoRoomFor(v, r, v.size + 1) => NoRoomFor(v, r, v.size + Len(new))
        BY <2>1
      <3>4. CASE \E w \in VectorsOf(Characters) :
                    r = Fails("FAILED", w) /\ Kin(v, w) /\ Fit(w) /\ RoomLeft(v, w, i)
        BY <2>1, <2>2, <3>1, <3>4, VectorRefusesStep
      <3>5. CASE \/ \E w \in VectorsOf(Characters) : r = Success(w) /\ Kin(v, w) /\ Fit(w) /\ Inserted(v, w, i, new)
                 \/ NoMemory(v, r)
                 \/ NoRoomFor(v, r, v.size + Len(new))
        BY <2>1, <2>2, <3>1, <3>5, VectorInsertsStep
      <3> QED  BY <3>2, <3>3, <3>4, <3>5
    <2> QED  BY <2>3, <2>4
  <1> QED  BY <1>5, <1>6, <1>7 DEF VectorInserts

LEMMA VectorDeletesSteps ==
    ASSUME kind = "vector", NEW v, VectorCalled(Characters, v), VectorDeletes(v)
    PROVE  Abstract!Answered /\ VectorInv' /\ kind' = kind
  <1>1. v \in VectorsOf(Characters) /\ Fit(v) /\ v.size \in Nat /\ v.cells \in Seq(Characters)
          /\ v.size <= Len(v.cells)
    BY DEF VectorCalled, VectorsOf, VectorOf, Sound
  <1>2. Held \in Seq(Characters) /\ Len(Held) = v.size
    BY VectorHeld
  <1>3. Junk \in Characters
    BY CharactersKnown
  <1>4. ASSUME NEW i \in 0 .. v.size + 1, NEW n \in 0 .. v.size + 1,
               VectorReturned(Delete(i, n), VectorDeleteRange(v, i, n))
        PROVE  Abstract!Answered /\ VectorInv' /\ kind' = kind
    <2> DEFINE r == VectorDeleteRange(v, i, n)
    <2>1. i \in Nat /\ n \in Nat /\ Len(<<>>) \in Nat
      OBVIOUS
    <2>2. VectorReturned(Operation("delete", i, n, <<>>), r)
      BY <1>4 DEF Delete
    <2>3. CASE n = 0
      <3>1. VectorReturned(Operation("delete", i, n, <<>>), Fails("INVALID_ARGUMENT", v))
        BY <2>2, <2>3 DEF VectorDeleteRange
      <3>2. Turned("delete", i, n, <<>>, "INVALID_ARGUMENT") /\ VectorInv' /\ kind' = kind
        BY <3>1, VectorTurned
      <3>3. Abstract!Answered
        BY <2>3, <3>2, RefusedStep
      <3> QED  BY <3>2, <3>3
    <2>4. CASE n # 0 /\ i + n > v.size
      <3>1. VectorReturned(Operation("delete", i, n, <<>>), Fails("OUT_OF_RANGE", v))
        BY <2>2, <2>4 DEF VectorDeleteRange
      <3>2. Turned("delete", i, n, <<>>, "OUT_OF_RANGE") /\ VectorInv' /\ kind' = kind
        BY <3>1, VectorTurned
      <3>3. Abstract!Answered
        BY <1>1, <1>2, <2>1, <2>4, <3>2, OutOfRangeStep
      <3> QED  BY <3>2, <3>3
    <2>5. CASE n # 0 /\ ~(i + n > v.size)
      <3>1. n \in Nat \ {0} /\ i + n <= v.size
        BY <1>1, <2>1, <2>5
      <3>2. \E w \in VectorsOf(Characters) :
                /\ r = Result("SUCCESS", w, SubSeq(v.cells, i + 1, i + n))
                /\ Kin(v, w) /\ Fit(w) /\ Deleted(v, w, i, n)
        BY <1>1, <1>3, <2>1, <3>1, DeletedRange
      <3>3. VectorReturned(Delete(i, n), r)
        BY <1>4
      <3> HIDE DEF r
      <3> QED  BY <2>1, <3>1, <3>2, <3>3, VectorDeletesStep
    <2> QED  BY <2>3, <2>4, <2>5
  <1>5. ASSUME VectorReturned(Delete(LastOf(v.size), 1), VectorPopBack(v))
        PROVE  Abstract!Answered /\ VectorInv' /\ kind' = kind
    <2> DEFINE r == VectorPopBack(v)
    <2>1. CASE v.size = 0
      <3>1. VectorReturned(Operation("delete", 0, 1, <<>>), Fails("OUT_OF_RANGE", v))
        BY <1>5, <2>1 DEF VectorPopBack, Delete, LastOf
      <3>2. Turned("delete", 0, 1, <<>>, "OUT_OF_RANGE") /\ VectorInv' /\ kind' = kind
        BY <3>1, VectorTurned
      <3>3. Abstract!Answered
        BY <1>1, <1>2, <2>1, <3>2, OutOfRangeStep
      <3> QED  BY <3>2, <3>3
    <2>2. CASE v.size > 0
      <3> DEFINE i == v.size - 1
                 n == 1
      <3>1. i \in Nat /\ n \in Nat /\ i + n = v.size /\ i + 1 = v.size
        BY <1>1, <2>2
      <3>2. PICK w \in VectorsOf(Characters) :
                /\ r = Result("SUCCESS", w, <<v.cells[v.size]>>)
                /\ Kin(v, w) /\ Fit(w) /\ Deleted(v, w, i, n)
        BY <1>1, <1>3, <2>2, PoppedBack
      <3>3. SubSeq(v.cells, i + 1, i + n) = <<v.cells[v.size]>>
        <4> DEFINE s == v.cells
                   k == v.size
        <4>1. s \in Seq(Characters) /\ k \in 1..Len(s)
          BY <1>1, <2>2
        <4> HIDE DEF s, k
        <4>2. SubSeq(s, k, k) = <<s[k]>>
          BY <4>1, OneElement
        <4> QED  BY <3>1, <4>2 DEF s, k
      <3>4. VectorReturned(Delete(i, n), r)
        BY <1>1, <1>5, <2>2 DEF LastOf
      <3> HIDE DEF r, i, n
      <3>5. r = Result("SUCCESS", w, SubSeq(v.cells, i + 1, i + n))
        BY <3>2, <3>3
      <3>6. i + n <= v.size
        BY <1>1, <3>1
      <3> QED  BY <3>1, <3>2, <3>4, <3>5, <3>6, VectorDeletesStep
    <2> QED  BY <1>1, <2>1, <2>2
  <1>6. ASSUME VectorReturned(Resize(0, <<>>), VectorClear(v))
        PROVE  Abstract!Answered /\ VectorInv' /\ kind' = kind
    <2> DEFINE r == VectorResizeEx(v, 0, <<>>)
    <2>1. \/ \E w \in VectorsOf(Characters) :
                /\ r = Result("SUCCESS", w, SubSeq(v.cells, 0 + 1, v.size))
                /\ Kin(v, w) /\ Fit(w) /\ Extends(v, w, 0, <<>>)
          \/ NoMemory(v, r)
          \/ NoRoomFor(v, r, 0)
      <3>1. <<>> \in Seq(Characters) /\ 0 \in Nat
        OBVIOUS
      <3> QED  BY <1>1, <1>3, <3>1, ResizedVector
    <2>2. VectorReturned(Resize(0, <<>>), r)
      BY <1>6 DEF VectorClear
    <2> HIDE DEF r
    <2> DEFINE zero == 0
               none == <<>>
    <2>3. /\ zero \in Nat /\ VectorReturned(Resize(zero, none), r)
          /\ \/ \E w \in VectorsOf(Characters) :
                /\ r = Result("SUCCESS", w, SubSeq(v.cells, zero + 1, v.size))
                /\ Kin(v, w) /\ Fit(w) /\ Extends(v, w, zero, none)
             \/ NoMemory(v, r)
             \/ NoRoomFor(v, r, zero)
      BY <2>1, <2>2
    <2> HIDE DEF zero, none
    <2> QED  BY <2>3, VectorResizeStep
  <1> QED  BY <1>4, <1>5, <1>6 DEF VectorDeletes

LEMMA VectorChangesSteps ==
    ASSUME kind = "vector", NEW v, VectorCalled(Characters, v), VectorChanges(v)
    PROVE  Abstract!Answered /\ VectorInv' /\ kind' = kind
  <1>1. v \in VectorsOf(Characters) /\ Fit(v) /\ v.size \in Nat
    BY DEF VectorCalled, VectorsOf, VectorOf
  <1>2. Held \in Seq(Characters) /\ Len(Held) = v.size
    BY VectorHeld
  <1>3. Junk \in Characters /\ Values \subseteq Characters
    BY CharactersKnown
  <1>4. ASSUME NEW i \in 0 .. v.size, NEW x \in Values, VectorReturned(Overwrite(i, <<x>>), VectorSet(v, i, x))
        PROVE  Abstract!Answered /\ VectorInv' /\ kind' = kind
    <2> DEFINE r == VectorSet(v, i, x)
               new == <<x>>
    <2>1. i \in Nat /\ x \in Characters /\ Len(new) = 1 /\ Len(new) \in Nat
      BY <1>3
    <2>2. CASE i >= v.size
      <3>1. VectorReturned(Operation("overwrite", i, 0, new), Fails("OUT_OF_RANGE", v))
        BY <1>4, <2>2 DEF VectorSet, Overwrite
      <3> HIDE DEF new
      <3>2. Turned("overwrite", i, 0, new, "OUT_OF_RANGE") /\ VectorInv' /\ kind' = kind
        BY <3>1, VectorTurned
      <3>3. i + Len(new) > Len(Held)
        BY <1>1, <1>2, <2>1, <2>2
      <3>4. Abstract!Answered
        BY <1>1, <1>2, <2>1, <3>2, <3>3, OutOfRangeStep
      <3> QED  BY <3>2, <3>4
    <2>3. CASE ~(i >= v.size)
      <3>1. i < v.size
        BY <1>1, <2>1, <2>3
      <3>2. \E w \in VectorsOf(Characters) :
                r = Result("SUCCESS", w, <<v.cells[i + 1]>>) /\ Kin(v, w) /\ Fit(w) /\ Replaced(v, w, i, <<x>>)
        BY <1>1, <2>1, <3>1, SetElement
      <3>3. VectorReturned(Overwrite(i, <<x>>), r)
        BY <1>4
      <3> HIDE DEF r
      <3> QED  BY <2>1, <3>1, <3>2, <3>3, VectorSetStep
    <2> QED  BY <2>2, <2>3
  <1>5. ASSUME NEW i \in 0 .. v.size, NEW j \in 0 .. v.size, VectorReturned(Swap(i, j), VectorSwapElements(v, i, j))
        PROVE  Abstract!Answered /\ VectorInv' /\ kind' = kind
    <2> DEFINE r == VectorSwapElements(v, i, j)
    <2>1. i \in Nat /\ j \in Nat /\ Len(<<>>) \in Nat
      OBVIOUS
    <2>2. VectorReturned(Operation("swap", i, j, <<>>), r)
      BY <1>5 DEF Swap
    <2>3. CASE i >= v.size \/ j >= v.size
      <3>1. VectorReturned(Operation("swap", i, j, <<>>), Fails("OUT_OF_RANGE", v))
        BY <2>2, <2>3 DEF VectorSwapElements
      <3>2. Turned("swap", i, j, <<>>, "OUT_OF_RANGE") /\ VectorInv' /\ kind' = kind
        BY <3>1, VectorTurned
      <3>3. Abstract!Answered
        BY <1>1, <1>2, <2>1, <2>3, <3>2, OutOfRangeStep
      <3> QED  BY <3>2, <3>3
    <2>4. CASE ~(i >= v.size \/ j >= v.size) /\ v.size = v.capacity
      <3>1. VectorReturned(Operation("swap", i, j, <<>>), Fails("INSUFFICIENT_BUFFER_SIZE", v))
        BY <2>2, <2>4 DEF VectorSwapElements
      <3>2. Turned("swap", i, j, <<>>, "INSUFFICIENT_BUFFER_SIZE") /\ VectorInv' /\ kind' = kind
        BY <3>1, VectorTurned
      <3>3. Abstract!Answered
        BY <3>2, RefusedStep
      <3> QED  BY <3>2, <3>3
    <2>5. CASE ~(i >= v.size \/ j >= v.size) /\ v.size # v.capacity
      <3>1. i < v.size /\ j < v.size
        BY <1>1, <2>1, <2>5
      <3>2. PICK w \in VectorsOf(Characters) :
              /\ VectorSwapElements(v, i, j) = Success(w) /\ Kin(v, w) /\ Fit(w) /\ w.size = v.size
              /\ \A k \in 1..v.size :
                    w.cells[k] = IF k = j + 1 THEN v.cells[i + 1] ELSE IF k = i + 1 THEN v.cells[j + 1]
                      ELSE v.cells[k]
        BY <1>1, <2>1, <2>5, <3>1, SwappedElements
      <3>3. VectorReturned(Swap(i, j), r) /\ r = Success(w)
        BY <1>5, <3>2
      <3> HIDE DEF r
      <3> QED  BY <2>1, <3>1, <3>2, <3>3, VectorSwapStep
    <2> QED  BY <2>3, <2>4, <2>5
  <1>6. ASSUME NEW size \in 0 .. MaxItems + 1, NEW new \in AtMostOne,
               VectorReturned(Resize(size, new), VectorResizeEx(v, size, new))
        PROVE  Abstract!Answered /\ VectorInv' /\ kind' = kind
    <2> DEFINE r == VectorResizeEx(v, size, new)
    <2>1. size \in Nat /\ new \in Seq(Characters)
      <3>1. size \in Nat
        BY ContainerAssumption
      <3>2. CASE new = <<>>
        BY <3>1, <3>2
      <3>3. ASSUME NEW x \in Values, new = <<x>>
            PROVE  new \in Seq(Characters)
        BY <1>3, <3>3
      <3> QED  BY <3>1, <3>2, <3>3 DEF AtMostOne
    <2>2. \/ \E w \in VectorsOf(Characters) :
                /\ r = Result("SUCCESS", w, SubSeq(v.cells, size + 1, v.size))
                /\ Kin(v, w) /\ Fit(w) /\ Extends(v, w, size, new)
          \/ NoMemory(v, r)
          \/ NoRoomFor(v, r, size)
      BY <1>1, <1>3, <2>1, ResizedVector
    <2>3. VectorReturned(Resize(size, new), r)
      BY <1>6
    <2> HIDE DEF r
    <2> QED  BY <2>1, <2>2, <2>3, VectorResizeStep
  <1> QED  BY <1>4, <1>5, <1>6 DEF VectorChanges

LEMMA VectorFitsSteps ==
    ASSUME kind = "vector", NEW v, VectorCalled(Characters, v), VectorFits(v)
    PROVE  Abstract!Answered /\ VectorInv' /\ kind' = kind
  <1>1. v \in VectorsOf(Characters) /\ Fit(v) /\ Junk \in Characters
    BY CharactersKnown DEF VectorCalled
  <1>2. ASSUME NEW size \in Sizes, VectorReturned(Reserve(size), VectorReserve(v, size))
        PROVE  Abstract!Answered /\ VectorInv' /\ kind' = kind
    <2> DEFINE r == VectorReserve(v, size)
    <2>1. size \in Nat
      BY ContainerAssumption DEF Sizes
    <2>2. \/ \E w \in VectorsOf(Characters) : r = Success(w) /\ Kin(v, w) /\ Fit(w) /\ Extends(v, w, v.size, <<>>)
          \/ NoMemory(v, r)
          \/ NoRoomFor(v, r, size)
      BY <1>1, <2>1, ReservedVector
    <2>3. VectorReturned(Reserve(size), r)
      BY <1>2
    <2> HIDE DEF r
    <2> QED  BY <2>1, <2>2, <2>3, VectorReserveStep
  <1>3. ASSUME VectorReturned(Reserve(0), VectorShrinkToFit(v))
        PROVE  Abstract!Answered /\ VectorInv' /\ kind' = kind
    <2> DEFINE r == VectorShrinkToFit(v)
               zero == 0
    <2>1. \E w \in VectorsOf(Characters) : r = Success(w) /\ Kin(v, w) /\ Fit(w) /\ Extends(v, w, v.size, <<>>)
      BY <1>1, FittedVector
    <2>2. VectorReturned(Reserve(zero), r) /\ zero \in Nat
      BY <1>3
    <2> HIDE DEF r, zero
    <2> QED  BY <2>1, <2>2, VectorReserveStep
  <1> QED  BY <1>2, <1>3 DEF VectorFits

LEMMA VectorCallStep ==
    ASSUME VectorInv, VectorCall
    PROVE  Abstract!Answered /\ VectorInv' /\ kind' = kind
  <1>1. kind = "vector" /\ ~Spent(body) /\ VectorKept(Characters, body)
    BY DEF VectorCall, VectorInv
  <1>2. PICK v \in MemoryFor(body) : VectorInserts(v) \/ VectorDeletes(v) \/ VectorChanges(v) \/ VectorFits(v)
    BY DEF VectorCall
  <1>3. VectorCalled(Characters, v)
    BY <1>1, VectorForCall
  <1> QED  BY <1>1, <1>2, <1>3, VectorInsertsSteps, VectorDeletesSteps, VectorChangesSteps, VectorFitsSteps

-----------------------------------------------------------------------------
(* Vectors, made and destroyed *)

LEMMA MadeStep ==
    ASSUME NEW what, NEW made, NEW destructor, NEW new, Make(what, made, destructor, new)
    PROVE  kind' = what /\ body' = made /\ watched' = destructor /\ Calls("create", 0, 0, new, "SUCCESS", <<>>)
  BY DEF Make, Called, Calls

LEMMA MadeVector ==
    ASSUME NEW v \in VectorsOf(Characters), Fit(v), NEW destructor, NEW new, Contents(v) = new,
           Make("vector", v, destructor, new)
    PROVE  Abstract!Answered /\ VectorInv' /\ kind' = "vector" /\ watched' = destructor
  <1>1. /\ kind' = "vector" /\ body' = v /\ watched' = destructor
        /\ Calls("create", 0, 0, new, "SUCCESS", <<>>)
    BY MadeStep
  <1>2. Held' = new
    BY <1>1 DEF Held
  <1>3. Abstract!Answered
    BY <1>1, <1>2, CreateStep
  <1> QED  BY <1>1, <1>3 DEF VectorInv, VectorKept

LEMMA EmptyContents ==
    ASSUME NEW S, NEW v \in VectorsOf(S), v.size = 0
    PROVE  Contents(v) = <<>>
  BY ContentsOfVector

LEMMA CreateVectorStep ==
    ASSUME NEW destructor \in BOOLEAN, CreateVector(destructor)
    PROVE  Abstract!Answered /\ VectorInv' /\ kind' = "vector" /\ watched' = destructor
  <1>1. PICK capacity \in Sizes, source \in Texts :
        \/ source = <<>> /\ Make("vector", VectorInitEx(capacity, Growth, Threshold), destructor, <<>>)
        \/ source = <<>> /\ capacity > 0 /\ Make("vector", VectorInitCustomBuffer(capacity), destructor, <<>>)
        \/ source # <<>> /\ LET v == Filled(VectorInitCustomBuffer(Len(source)), source) IN
            \/ Make("vector", VectorDuplicateEx(v, capacity, Growth, Threshold), destructor, source)
            \/ capacity > 0 /\ MakeWith("vector", VectorDuplicateCustomBuffer(v, capacity), destructor, source)
    BY DEF CreateVector
  <1>2. capacity \in Nat /\ Junk \in Characters /\ Values \subseteq Characters
    BY ContainerAssumption, CharactersKnown DEF Sizes
  <1>3. source \in Seq(Characters) /\ Len(source) \in Nat
    <2>1. PICK n \in 0..2 : source \in [1..n -> Values]
      BY DEF Texts
    <2>2. source \in [1..n -> Characters] /\ n \in Nat
      BY <1>2, <2>1
    <2> QED  BY <2>2
  <1>4. ASSUME NEW n \in Nat
        PROVE  LET w == VectorInitEx(n, Growth, Threshold) IN
               w \in VectorsOf(Characters) /\ Fit(w) /\ w.size = 0 /\ n <= Len(w.cells)
    BY <1>2, NewVectors
  <1>5. ASSUME NEW n \in Nat, n > 0
        PROVE  LET w == VectorInitCustomBuffer(n) IN
               w \in VectorsOf(Characters) /\ Fit(w) /\ w.size = 0 /\ Len(w.cells) = n
    BY <1>2, <1>5, NewVectors
  <1>6. CASE Make("vector", VectorInitEx(capacity, Growth, Threshold), destructor, <<>>)
    <2> DEFINE w == VectorInitEx(capacity, Growth, Threshold)
    <2>1. w \in VectorsOf(Characters) /\ Fit(w) /\ w.size = 0
      BY <1>2, <1>4
    <2>2. Make("vector", w, destructor, <<>>)
      BY <1>6
    <2> HIDE DEF w
    <2>3. Contents(w) = <<>>
      BY <2>1, EmptyContents
    <2> QED  BY <2>1, <2>2, <2>3, MadeVector
  <1>7. CASE capacity > 0 /\ Make("vector", VectorInitCustomBuffer(capacity), destructor, <<>>)
    <2> DEFINE w == VectorInitCustomBuffer(capacity)
    <2>1. w \in VectorsOf(Characters) /\ Fit(w) /\ w.size = 0
      BY <1>2, <1>5, <1>7
    <2>2. Make("vector", w, destructor, <<>>)
      BY <1>7
    <2> HIDE DEF w
    <2>3. Contents(w) = <<>>
      BY <2>1, EmptyContents
    <2> QED  BY <2>1, <2>2, <2>3, MadeVector
  <1>8. ASSUME source # <<>>, LET v == Filled(VectorInitCustomBuffer(Len(source)), source) IN
            \/ Make("vector", VectorDuplicateEx(v, capacity, Growth, Threshold), destructor, source)
            \/ capacity > 0 /\ MakeWith("vector", VectorDuplicateCustomBuffer(v, capacity), destructor, source)
        PROVE  Abstract!Answered /\ VectorInv' /\ kind' = "vector" /\ watched' = destructor
    <2> DEFINE n == Len(source)
               b == VectorInitCustomBuffer(n)
               v == Filled(b, source)
    <2>1. n \in Nat /\ n > 0
      BY <1>3, <1>8
    <2>2. b \in VectorsOf(Characters) /\ Fit(b) /\ Len(b.cells) = n
      BY <1>5, <2>1
    <2>3. CASE Make("vector", VectorDuplicateEx(v, capacity, Growth, Threshold), destructor, source)
      <3> HIDE DEF b
      <3>1. Contents(v) = source /\ v.size = n
        BY <1>3, <2>2, FilledVector
      <3> DEFINE m == AtLeast(v.size, capacity)
                 e == VectorInitEx(m, Growth, Threshold)
                 w == Filled(e, source)
      <3>2. VectorDuplicateEx(v, capacity, Growth, Threshold) = w
        BY <3>1 DEF VectorDuplicateEx
      <3>3. m \in Nat /\ n <= m
        BY <1>2, <2>1, <3>1 DEF AtLeast
      <3> HIDE DEF v, m
      <3>4. e \in VectorsOf(Characters) /\ Fit(e) /\ m <= Len(e.cells) /\ Len(e.cells) \in Nat
        BY <1>4, <3>3 DEF VectorsOf, VectorOf
      <3> HIDE DEF e
      <3>5. w \in VectorsOf(Characters) /\ Fit(w) /\ Contents(w) = source
        <4>1. Len(source) <= Len(e.cells)
          BY <2>1, <3>3, <3>4
        <4> QED  BY <1>3, <3>4, <4>1, FilledVector
      <3>6. Make("vector", w, destructor, source)
        BY <2>3, <3>2 DEF v, b
      <3> HIDE DEF w
      <3> QED  BY <3>5, <3>6, MadeVector
    <2>4. CASE capacity > 0 /\ MakeWith("vector", VectorDuplicateCustomBuffer(v, capacity), destructor, source)
      <3> HIDE DEF b
      <3>1. Contents(v) = source /\ v.size = n
        BY <1>3, <2>2, FilledVector
      <3> DEFINE e == VectorInitCustomBuffer(capacity)
                 w == Filled(e, source)
      <3>2. ~(capacity < n) /\ Make("vector", w, destructor, source)
        BY <2>4, <3>1 DEF MakeWith, VectorDuplicateCustomBuffer, Fails, Success, Result
      <3>3. e \in VectorsOf(Characters) /\ Fit(e) /\ Len(e.cells) = capacity
        BY <1>2, <1>5, <2>4
      <3> HIDE DEF e
      <3>4. w \in VectorsOf(Characters) /\ Fit(w) /\ Contents(w) = source
        <4>1. Len(source) <= Len(e.cells)
          BY <1>2, <2>1, <3>2, <3>3
        <4> QED  BY <1>3, <3>3, <4>1, FilledVector
      <3> HIDE DEF w
      <3> QED  BY <3>2, <3>4, MadeVector
    <2> QED  BY <1>8, <2>3, <2>4
  <1> QED  BY <1>1, <1>6, <1>7, <1>8

LEMMA DestroyVectorStep ==
    ASSUME kind = "vector", Destroy
    PROVE  Abstract!Answered /\ kind' = "none"
  <1>1. DestroyedItems = Held
    BY DEF DestroyedItems, Held, VectorDestroy, Result
  <1>2. Calls("destroy", 0, 0, <<>>, "SUCCESS", Held)
    BY <1>1 DEF Destroy, Called, Calls
  <1>3. kind' = "none" /\ Held' = <<>>
    BY DEF Destroy, Held
  <1> QED  BY <1>2, <1>3, DestroyStep

-----------------------------------------------------------------------------
(* Strings *)

Ended(v) == v.size >= 1 /\ v.cells[v.size] = NUL

StringInv == kind = "string" => VectorKept(Characters, body) /\ Ended(body) /\ watched = FALSE

(* The string that a call is made on *)
StringCalled(s) == kind = "string" /\ watched = FALSE /\ VectorCalled(Characters, s) /\ Ended(s)

LEMMA TextOfVector ==
    ASSUME NEW v \in VectorsOf(Characters), v.size >= 1
    PROVE  /\ Text(v) \in Seq(Characters) /\ Len(Text(v)) = v.size - 1 /\ v.size \in Nat
           /\ \A k \in 1 .. v.size - 1 : Text(v)[k] = v.cells[k]
  <1> DEFINE c == v.cells
             n == v.size - 1
  <1>1. c \in Seq(Characters) /\ v.size \in Nat /\ n \in Nat /\ n <= Len(c)
    BY DEF VectorsOf, VectorOf, Sound
  <1>2. Text(v) = SubSeq(c, 1, n)
    BY DEF Text
  <1> HIDE DEF c, n
  <1>3. SubSeq(c, 1, n) \in Seq(Characters) /\ Len(SubSeq(c, 1, n)) = n /\ \A k \in 1..n : SubSeq(c, 1, n)[k] = c[k]
    BY <1>1
  <1> QED  BY <1>1, <1>2, <1>3 DEF c, n

LEMMA StringHeld ==
    ASSUME NEW s, StringCalled(s)
    PROVE  /\ Held \in Seq(Characters) /\ Len(Held) = s.size - 1 /\ s.size \in Nat /\ s.size >= 1
           /\ \A k \in 1 .. s.size - 1 : Held[k] = s.cells[k]
           /\ s.dynamic => Limit = Unlimited
           /\ ~s.dynamic => Limit = s.capacity - 1 /\ Limit # Unlimited /\ Limit \in Nat /\ Len(Held) <= Limit
  <1>1. /\ s \in VectorsOf(Characters) /\ s.cells = body.cells /\ s.size = body.size
        /\ s.dynamic = body.dynamic /\ s.capacity = body.capacity /\ s.size >= 1 /\ kind = "string"
    BY DEF StringCalled, VectorCalled, Ended
  <1>2. Held = Text(s)
    BY <1>1 DEF Held, Text
  <1>3. /\ Text(s) \in Seq(Characters) /\ Len(Text(s)) = s.size - 1 /\ s.size \in Nat
        /\ \A k \in 1 .. s.size - 1 : Text(s)[k] = s.cells[k]
    BY <1>1, TextOfVector
  <1>4. s.capacity \in Nat /\ s.size <= s.capacity /\ s.dynamic \in BOOLEAN
    BY <1>1 DEF VectorsOf, VectorOf, Sound
  <1>5. Limit = IF s.dynamic THEN Unlimited ELSE s.capacity - 1
    BY <1>1, <1>4 DEF Limit
  <1> QED  BY <1>1, <1>2, <1>3, <1>4, <1>5, ContainerAssumption

StringLeft(w) ==
    /\ Steady /\ StringInv' /\ kind' = kind
    /\ Held' \in Seq(Characters) /\ Len(Held') = w.size - 1 /\ \A k \in 1 .. w.size - 1 : Held'[k] = w.cells[k]

(* A string has no destructor, so that it does not matter what is given to it. *)
LEMMA StringLeaves ==
    ASSUME NEW s, StringCalled(s), NEW w \in VectorsOf(Characters), Kin(s, w), Fit(w), Ended(w),
           NEW op, NEW at, NEW count, NEW new, NEW st, st # "NOT_ENOUGH_MEMORY", NEW out,
           NEW r, r = Result(st, w, out),
           VectorReturned(Operation(op, at, count, new), r), NEW gone
    PROVE  Calls(op, at, count, new, st, gone) /\ StringLeft(w)
  <1> DEFINE u == body'
  <1>0. VectorCalled(Characters, s) /\ kind = "string" /\ ~watched
    BY DEF StringCalled
  <1>1. /\ Calls(op, at, count, new, st, out) /\ kind' = kind /\ watched' = watched
        /\ VectorKept(Characters, u) /\ u.cells = w.cells /\ u.size = w.size
        /\ u.dynamic = body.dynamic /\ (~body.dynamic => u.capacity = body.capacity)
    BY <1>0, VectorSucceeds
  <1>2. u \in VectorsOf(Characters) /\ u.size >= 1
    BY <1>1 DEF VectorKept, Ended
  <1>3. Held' = Text(u)
    BY <1>0, <1>1 DEF Held
  <1>4. body.dynamic \in BOOLEAN
    BY <1>0 DEF VectorCalled, VectorsOf, VectorOf
  <1>5. Limit' = Limit
    BY <1>0, <1>1, <1>4 DEF Limit
  <1>6. StringInv'
    BY <1>0, <1>1 DEF StringInv, Ended
  <1>7. Calls(op, at, count, new, st, gone)
    BY <1>0, <1>1 DEF Calls
  <1> HIDE DEF u
  <1>8. /\ Text(u) \in Seq(Characters) /\ Len(Text(u)) = u.size - 1
        /\ \A k \in 1 .. u.size - 1 : Text(u)[k] = u.cells[k]
    BY <1>2, TextOfVector
  <1> QED  BY <1>1, <1>3, <1>5, <1>6, <1>7, <1>8 DEF StringLeft, Steady

LEMMA StringTurned ==
    ASSUME NEW s, StringCalled(s), NEW op, NEW at, NEW count, NEW new, NEW st, st # "NOT_ENOUGH_MEMORY",
           VectorReturned(Operation(op, at, count, new), Fails(st, s))
    PROVE  Turned(op, at, count, new, st) /\ StringInv' /\ kind' = kind
  <1>1. s \in VectorsOf(Characters) /\ Fit(s) /\ Kin(s, s) /\ Ended(s)
    BY DEF StringCalled, VectorCalled, Kin
  <1>2. Fails(st, s) = Result(st, s, <<>>)
    BY DEF Fails
  <1>3. Calls(op, at, count, new, st, <<>>) /\ StringLeft(s)
    BY <1>1, <1>2, StringLeaves
  <1>4. /\ Held \in Seq(Characters) /\ Len(Held) = s.size - 1
        /\ \A k \in 1 .. s.size - 1 : Held[k] = s.cells[k]
    BY StringHeld
  <1> DEFINE h == Held
             t == Held'
  <1>5. h = t
    <2>1. h \in Seq(Characters) /\ t \in Seq(Characters) /\ Len(h) = Len(t) /\ \A k \in 1..Len(h) : h[k] = t[k]
      BY <1>3, <1>4 DEF StringLeft
    <2> HIDE DEF h, t
    <2> QED  BY <2>1, SameSequence
  <1> QED  BY <1>3, <1>5 DEF StringLeft, Turned

LEMMA StringNoMemory ==
    ASSUME NEW s, StringCalled(s), NEW op, op # "fill", NEW at, NEW count, NEW new, NEW r, NoMemory(s, r),
           VectorReturned(Operation(op, at, count, new), r)
    PROVE  Abstract!Answered /\ StringInv' /\ kind' = kind
  <1> DEFINE u == body'
  <1>0. /\ VectorCalled(Characters, s) /\ kind = "string" /\ ~watched /\ Ended(s)
        /\ s.cells = body.cells /\ s.size = body.size /\ watched = FALSE
    BY DEF StringCalled, VectorCalled
  <1>1. /\ Calls(op, at, count, new, "NOT_ENOUGH_MEMORY", <<>>) /\ kind' = kind /\ watched' = watched
        /\ VectorKept(Characters, u) /\ u.cells = body.cells /\ u.size = body.size
        /\ body.dynamic /\ u.dynamic /\ ~u.memory
    BY <1>0, VectorFails
  <1>2. Held' = Held /\ Limit' = Limit /\ Limit = Unlimited
    BY <1>0, <1>1 DEF Held, Limit, Text
  <1>3. Turned(op, at, count, new, "NOT_ENOUGH_MEMORY")
    BY <1>1, <1>2 DEF Turned, Steady
  <1>4. Abstract!Answered
    BY <1>2, <1>3, RefusedStep
  <1> QED  BY <1>0, <1>1, <1>4 DEF StringInv, Ended

LEMMA StringNoRoom ==
    ASSUME NEW s, StringCalled(s), NEW size \in Int,
           NEW op, NEW at, NEW count, NEW new, NEW r, NoRoomFor(s, r, size),
           VectorReturned(Operation(op, at, count, new), r)
    PROVE  /\ Turned(op, at, count, new, "INSUFFICIENT_BUFFER_SIZE") /\ StringInv' /\ kind' = kind
           /\ Limit # Unlimited /\ Limit \in Nat /\ Len(Held) <= Limit /\ Limit < size - 1
  <1>1. r = Fails("INSUFFICIENT_BUFFER_SIZE", s) /\ ~s.dynamic /\ s.capacity < size
    BY DEF NoRoomFor
  <1>2. Turned(op, at, count, new, "INSUFFICIENT_BUFFER_SIZE") /\ StringInv' /\ kind' = kind
    BY <1>1, StringTurned
  <1>3. Limit = s.capacity - 1 /\ Limit # Unlimited /\ Limit \in Nat /\ Len(Held) <= Limit
    BY <1>1, StringHeld
  <1>4. s.capacity \in Nat
    BY DEF StringCalled, VectorCalled, VectorsOf, VectorOf
  <1> QED  BY <1>1, <1>2, <1>3, <1>4

LEMMA NullTerminatedVector ==
    ASSUME NEW w \in VectorsOf(Characters), Fit(w), w.size >= 1
    PROVE  LET u == NullTerminated(w) IN
           /\ u \in VectorsOf(Characters) /\ Fit(u) /\ Kin(w, u) /\ Ended(u) /\ u.size = w.size
           /\ Len(u.cells) = Len(w.cells)
           /\ \A k \in 1..Len(w.cells) : k # w.size => u.cells[k] = w.cells[k]
  <1> DEFINE u == NullTerminated(w)
             cells == [w.cells EXCEPT ![w.size] = NUL]
  <1>1. /\ w \in VectorOf(Characters) /\ Sound(w) /\ w.cells \in Seq(Characters) /\ w.size \in 1..Len(w.cells)
        /\ NUL \in Characters
    BY CharactersKnown DEF VectorsOf, VectorOf, Sound
  <1>2. /\ cells \in Seq(Characters) /\ Len(cells) = Len(w.cells)
        /\ \A k \in 1..Len(w.cells) : cells[k] = IF k = w.size THEN NUL ELSE w.cells[k]
    BY <1>1, ExceptSeq
  <1>3. u = [w EXCEPT !.cells = cells]
    BY DEF NullTerminated
  <1> HIDE DEF cells, u
  <1>4. /\ u \in VectorOf(Characters) /\ u.cells = cells /\ u.size = w.size /\ u.capacity = w.capacity
        /\ u.growth = w.growth /\ u.threshold = w.threshold /\ u.dynamic = w.dynamic /\ u.memory = w.memory
    BY <1>1, <1>2, <1>3 DEF VectorOf
  <1>5. Sound(u) /\ Fit(u) /\ Kin(w, u)
    BY <1>1, <1>2, <1>4 DEF Sound, Settled, Fit, Kin
  <1>6. Ended(u)
    BY <1>1, <1>2, <1>4 DEF Ended
  <1> QED  BY <1>2, <1>4, <1>5, <1>6 DEF VectorsOf, u

LEMMA KinKin ==
    ASSUME NEW v, NEW w, NEW u, Kin(v, w), Kin(w, u)
    PROVE  Kin(v, u)
  BY DEF Kin

LEMMA StringInsertStep ==
    ASSUME NEW s, StringCalled(s), NEW i \in Nat, i < s.size, NEW new \in Seq(Characters),
           VectorReturned(Insert(i, new), VectorInsertRange(s, i, new))
    PROVE  Abstract!Answered /\ StringInv' /\ kind' = kind
  <1> DEFINE r == VectorInsertRange(s, i, new)
  <1>1. /\ Held \in Seq(Characters) /\ Len(Held) = s.size - 1 /\ s.size \in Nat /\ s.size >= 1
        /\ \A k \in 1 .. s.size - 1 : Held[k] = s.cells[k]
    BY StringHeld
  <1>2. VectorReturned(Operation("insert", i, 0, new), r)
    BY DEF Insert
  <1>3. s \in VectorsOf(Characters) /\ Fit(s) /\ Junk \in Characters /\ s.cells[s.size] = NUL /\ Len(new) \in Nat
    BY CharactersKnown DEF StringCalled, VectorCalled, Ended
  <1>4. CASE new = <<>>
    <2>1. VectorReturned(Operation("insert", i, 0, new), Fails("INVALID_ARGUMENT", s))
      BY <1>2, <1>4 DEF VectorInsertRange
    <2>2. Turned("insert", i, 0, new, "INVALID_ARGUMENT") /\ StringInv' /\ kind' = kind
      BY <2>1, StringTurned
    <2>3. Abstract!Answered
      BY <1>4, <2>2, RefusedStep
    <2> QED  BY <2>2, <2>3
  <1>5. CASE new # <<>>
    <2>0. i \in 0..s.size
      BY <1>1
    <2>1. \/ \E w \in VectorsOf(Characters) :
                r = Success(w) /\ Kin(s, w) /\ Fit(w) /\ Inserted(s, w, i, new)
          \/ NoMemory(s, r)
          \/ NoRoomFor(s, r, s.size + Len(new))
      BY <1>3, <1>5, <2>0, InsertedRange
    <2> HIDE DEF r
    <2>2. ASSUME NEW w \in VectorsOf(Characters), r = Success(w), Kin(s, w), Fit(w), Inserted(s, w, i, new)
          PROVE  Abstract!Answered /\ StringInv' /\ kind' = kind
      <3>1. /\ w.size = s.size + Len(new)
            /\ \A k \in 1..w.size : w.cells[k] =
                    IF k <= i THEN s.cells[k] ELSE IF k <= i + Len(new) THEN new[k - i] ELSE s.cells[k - Len(new)]
        BY <2>2 DEF Inserted
      <3>2. Ended(w)
        <4>1. w.size \in 1..w.size /\ ~(w.size <= i) /\ ~(w.size <= i + Len(new)) /\ w.size - Len(new) = s.size
          BY <1>1, <1>3, <3>1
        <4>2. w.cells[w.size] = s.cells[s.size]
          BY <3>1, <4>1
        <4> QED  BY <1>1, <1>3, <4>1, <4>2 DEF Ended
      <3>3. r = Result("SUCCESS", w, <<>>)
        BY <2>2 DEF Success
      <3>4. Calls("insert", i, 0, new, "SUCCESS", <<>>) /\ StringLeft(w)
        BY <1>2, <2>2, <3>2, <3>3, StringLeaves
      <3>5. /\ Held' \in Seq(Characters) /\ Len(Held') = w.size - 1 /\ Steady
            /\ \A k \in 1 .. w.size - 1 : Held'[k] = w.cells[k]
        BY <3>4 DEF StringLeft
      <3>6. \A k \in 1..Len(Held') :
                Held'[k] = IF k <= i THEN Held[k] ELSE IF k <= i + Len(new) THEN new[k - i] ELSE Held[k - Len(new)]
        <4> TAKE k \in 1..Len(Held')
        <4>1. k \in 1 .. w.size - 1 /\ k \in 1..w.size
          BY <1>1, <1>3, <3>1, <3>5
        <4>2. (k <= i => k \in 1 .. s.size - 1) /\ (~(k <= i + Len(new)) => k - Len(new) \in 1 .. s.size - 1)
          BY <1>1, <1>3, <3>1, <4>1
        <4>3. w.cells[k] = IF k <= i THEN Held[k] ELSE IF k <= i + Len(new) THEN new[k - i] ELSE Held[k - Len(new)]
          BY <1>1, <1>3, <3>1, <4>1, <4>2
        <4> QED  BY <3>5, <4>1, <4>3
      <3>7. Len(Held') = Len(Held) + Len(new) /\ i <= Len(Held)
        <4>1. w.size = s.size + Len(new)
          BY <3>1
        <4>2. Len(Held) = s.size - 1 /\ s.size \in Nat /\ Len(Held') = w.size - 1
          BY <1>1, <3>5
        <4> QED  BY <1>3, <4>1, <4>2
      <3>8. Abstract!Answered
        BY <1>1, <3>4, <3>5, <3>6, <3>7, InsertStep
      <3> QED  BY <3>4, <3>8 DEF StringLeft
    <2>3. CASE NoMemory(s, r)
      BY <1>2, <2>3, StringNoMemory
    <2>4. CASE NoRoomFor(s, r, s.size + Len(new))
      <3>1. /\ Turned("insert", i, 0, new, "INSUFFICIENT_BUFFER_SIZE") /\ StringInv' /\ kind' = kind
            /\ Limit # Unlimited /\ Limit \in Nat /\ Limit < s.size + Len(new) - 1
        <4> DEFINE room == s.size + Len(new)
        <4>1. room \in Int /\ NoRoomFor(s, r, room)
          BY <1>1, <1>3, <2>4
        <4> HIDE DEF room
        <4>2. /\ Turned("insert", i, 0, new, "INSUFFICIENT_BUFFER_SIZE") /\ StringInv' /\ kind' = kind
              /\ Limit # Unlimited /\ Limit \in Nat /\ Limit < room - 1
          BY <1>2, <4>1, StringNoRoom
        <4>3. Limit < s.size + Len(new) - 1
          BY <1>1, <1>3, <4>2 DEF room
        <4> QED  BY <4>2, <4>3
      <3>2. Limit < Len(Held) + Len(new) /\ i <= Len(Held)
        BY <1>1, <1>3, <3>1
      <3>3. Abstract!Answered
        BY <1>1, <3>1, <3>2, NoRoomToInsert
      <3> QED  BY <3>1, <3>3
    <2> QED  BY <2>1, <2>2, <2>3, <2>4
  <1> QED  BY <1>4, <1>5

LEMMA StringAppendStep ==
    ASSUME NEW s, StringCalled(s), NEW new \in Seq(Characters),
           VectorReturned(Insert(s.size - 1, new), Appended(s, new))
    PROVE  Abstract!Answered /\ StringInv' /\ kind' = kind
  <1> DEFINE i == s.size - 1
             n == Len(new)
             more == s.size + n
             none == <<>>
             g == VectorResizeEx(s, more, none)
             r == Appended(s, new)
             Continue(t) == Success(NullTerminated([t EXCEPT !.cells = Written(t.cells, s.size - 1, new)]))
  <1>1. /\ Held \in Seq(Characters) /\ Len(Held) = s.size - 1 /\ s.size \in Nat /\ s.size >= 1
        /\ \A k \in 1 .. s.size - 1 : Held[k] = s.cells[k]
    BY StringHeld
  <1>2. VectorReturned(Operation("insert", i, 0, new), r)
    BY DEF Insert
  <1>3. /\ s \in VectorsOf(Characters) /\ Fit(s) /\ Junk \in Characters /\ s.cells[s.size] = NUL
        /\ s.cells \in Seq(Characters) /\ s.size <= Len(s.cells)
    BY CharactersKnown DEF StringCalled, VectorCalled, Ended, VectorsOf, VectorOf, Sound
  <1>4. r = IF g.status = "SUCCESS" THEN Continue(g.v) ELSE g
    BY DEF Appended, Check
  <1>5. n \in Nat /\ more \in Nat /\ more = s.size + n /\ i \in Nat /\ i = s.size - 1 /\ none \in Seq(Characters)
    BY <1>1
  <1> HIDE DEF more, none, r, n
  <1>6. \/ \E w \in VectorsOf(Characters) :
                /\ g = Result("SUCCESS", w, SubSeq(s.cells, more + 1, s.size))
                /\ Kin(s, w) /\ Fit(w) /\ Extends(s, w, more, none)
        \/ NoMemory(s, g) /\ more > s.size
        \/ NoRoomFor(s, g, more)
    BY <1>3, <1>5, ResizedVector
  <1> HIDE DEF g
  <1>7. ASSUME NEW w \in VectorsOf(Characters), g = Result("SUCCESS", w, SubSeq(s.cells, more + 1, s.size)),
               Kin(s, w), Fit(w), Extends(s, w, more, none)
        PROVE  Abstract!Answered /\ StringInv' /\ kind' = kind
    <2> DEFINE u == Overwritten(w, i, new, more)
               t == NullTerminated(u)
    <2>1. w.size = more /\ \A k \in 1..s.size : w.cells[k] = s.cells[k]
      BY <1>1, <1>5, <1>7 DEF Extends
    <2>2. w \in VectorOf(Characters) /\ more <= Len(w.cells) /\ Len(w.cells) \in Nat
      BY <1>7, <2>1 DEF VectorsOf, VectorOf, Sound
    <2>3. [w EXCEPT !.cells = Written(w.cells, i, new)] = u
      BY <2>1, <2>2 DEF Overwritten, VectorOf
    <2>4. r = Success(t)
      <3>1. g.status = "SUCCESS" /\ g.v = w
        BY <1>7 DEF Result
      <3>2. r = Continue(w)
        BY <1>4, <3>1
      <3> QED  BY <2>3, <3>2
    <2> HIDE DEF i
    <2>5. /\ u \in VectorsOf(Characters) /\ Fit(u) /\ Kin(w, u) /\ u.size = more /\ Len(u.cells) = Len(w.cells)
          /\ \A k \in 1..Len(w.cells) : u.cells[k] = IF i < k /\ k <= i + Len(new) THEN new[k - i] ELSE w.cells[k]
      <3>1. /\ w \in VectorsOf(Characters) /\ i \in Nat /\ new \in Seq(Characters) /\ more \in Nat /\ Fit(w)
            /\ more <= Len(w.cells)
        BY <1>5, <1>7, <2>2
      <3> QED  BY ONLY <3>1, OverwrittenVector
    <2> HIDE DEF u
    <2>6. /\ t \in VectorsOf(Characters) /\ Fit(t) /\ Kin(u, t) /\ Ended(t) /\ t.size = u.size
          /\ \A k \in 1..Len(u.cells) : k # u.size => t.cells[k] = u.cells[k]
      <3>1. u.size >= 1
        BY <1>1, <1>5, <2>5
      <3> QED  BY <2>5, <3>1, NullTerminatedVector
    <2> HIDE DEF t
    <2>7. Kin(s, t)
      BY <1>7, <2>5, <2>6, KinKin
    <2>8. r = Result("SUCCESS", t, <<>>)
      BY <2>4 DEF Success
    <2>9. Calls("insert", i, 0, new, "SUCCESS", <<>>) /\ StringLeft(t)
      BY <1>2, <2>6, <2>7, <2>8, StringLeaves
    <2>10. /\ Held' \in Seq(Characters) /\ Len(Held') = t.size - 1 /\ Steady
           /\ \A k \in 1 .. t.size - 1 : Held'[k] = t.cells[k]
      BY <2>9 DEF StringLeft
    <2>11. Len(Held') = Len(Held) + Len(new) /\ i <= Len(Held) /\ Len(Held') = i + n
      BY <1>1, <1>5, <2>5, <2>6, <2>10 DEF n
    <2>12. \A k \in 1..Len(Held') :
                Held'[k] = IF k <= i THEN Held[k] ELSE IF k <= i + Len(new) THEN new[k - i] ELSE Held[k - Len(new)]
      <3> TAKE k \in 1..Len(Held')
      <3>1. k \in 1 .. t.size - 1 /\ k \in 1..Len(w.cells) /\ k \in 1..Len(u.cells) /\ k # u.size /\ k <= i + Len(new)
        <4>1. Len(Held') = t.size - 1 /\ t.size = more /\ u.size = more /\ Len(u.cells) = Len(w.cells)
          BY <2>5, <2>6, <2>10
        <4>2. Len(Held') = i + n
          BY <2>11
        <4> QED  BY <1>5, <2>2, <4>1, <4>2 DEF n
      <3>2. Held'[k] = u.cells[k]
        BY <2>6, <2>10, <3>1
      <3>3. CASE k <= i
        <4>1. k \in 1..s.size /\ k \in 1 .. s.size - 1 /\ ~(i < k)
          BY <1>1, <1>5, <3>1, <3>3
        <4> QED  BY <1>1, <2>1, <2>5, <3>1, <3>2, <3>3, <4>1
      <3>4. CASE ~(k <= i)
        <4>1. i < k
          BY <1>5, <3>1, <3>4
        <4> QED  BY <2>5, <3>1, <3>2, <3>4, <4>1
      <3> QED  BY <3>3, <3>4
    <2>13. Abstract!Answered
      BY <1>1, <1>5, <2>9, <2>10, <2>11, <2>12, InsertStep
    <2> QED  BY <2>9, <2>13 DEF StringLeft
  <1>8. CASE NoMemory(s, g)
    <2>1. r = g
      BY <1>4, <1>8 DEF NoMemory, Fails, Result
    <2> HIDE DEF i
    <2> QED  BY <1>2, <1>8, <2>1, StringNoMemory
  <1>9. CASE NoRoomFor(s, g, more)
    <2>1. r = g
      BY <1>4, <1>9 DEF NoRoomFor, Fails, Result
    <2> HIDE DEF i
    <2>2. /\ Turned("insert", i, 0, new, "INSUFFICIENT_BUFFER_SIZE") /\ StringInv' /\ kind' = kind
          /\ Limit # Unlimited /\ Limit \in Nat /\ Limit < more - 1
      <3>1. more \in Int
        BY <1>5
      <3> QED  BY <1>2, <1>9, <2>1, <3>1, StringNoRoom
    <2>3. Limit < Len(Held) + Len(new) /\ i <= Len(Held)
      BY <1>1, <1>5, <2>2 DEF n
    <2>4. Abstract!Answered
      BY <1>1, <1>5, <2>2, <2>3, NoRoomToInsert
    <2> QED  BY <2>2, <2>4
  <1> QED  BY <1>6, <1>7, <1>8, <1>9

LEMMA View ==
    ASSUME NEW text \in Seq(Characters)
    PROVE  LET v == ViewInsideBuffer(text) IN
           /\ Text(v) = text /\ v.size = Len(text) + 1 /\ v \in VectorsOf(Characters) /\ Fit(v)
           /\ \A from, n \in Nat : from + n <= Len(text) =>
                SubSeq(v.cells, from + 1, from + n) = SubSeq(text, from + 1, from + n)
  <1> DEFINE m == Len(text) + 1
             all == Append(text, NUL)
             b == VectorInitCustomBuffer(m)
             v == Filled(b, all)
  <1>1. m \in Nat /\ m > 0 /\ NUL \in Characters /\ Junk \in Characters
    BY CharactersKnown
  <1>2. /\ all \in Seq(Characters) /\ Len(all) = m
        /\ \A k \in 1..Len(text) : all[k] = text[k]
    BY <1>1
  <1> HIDE DEF all
  <1>3. b \in VectorsOf(Characters) /\ Fit(b) /\ Len(b.cells) = m
    <2> HIDE DEF m
    <2> QED  BY <1>1, NewVectors
  <1>4. ViewInsideBuffer(text) = v
    BY DEF ViewInsideBuffer, all
  <1> HIDE DEF b
  <1>5. /\ v \in VectorsOf(Characters) /\ Fit(v) /\ v.size = Len(all)
        /\ Len(v.cells) = Len(b.cells) /\ \A k \in 1..Len(all) : v.cells[k] = all[k]
    <2>1. Len(all) <= Len(b.cells)
      BY <1>2, <1>3
    <2> QED  BY <1>2, <1>3, <2>1, FilledVector
  <1> HIDE DEF v
  <1> DEFINE c == v.cells
             n == Len(text)
  <1>6. c \in Seq(Characters) /\ Len(c) = n + 1 /\ n \in Nat /\ \A k \in 1..n : c[k] = text[k]
    BY <1>2, <1>3, <1>5 DEF VectorsOf, VectorOf
  <1>7. Text(v) = SubSeq(c, 1, n)
    BY <1>2, <1>5 DEF Text
  <1>8. v.size = n + 1
    BY <1>2, <1>5
  <1> HIDE DEF c, m
  <1>9. ASSUME NEW i \in Nat, NEW j \in Nat, i + j <= n
        PROVE  SubSeq(c, i + 1, i + j) = SubSeq(text, i + 1, i + j)
    <2> DEFINE a == SubSeq(c, i + 1, i + j)
               d == SubSeq(text, i + 1, i + j)
    <2>1. a \in Seq(Characters) /\ Len(a) = j /\ \A k \in 1..j : a[k] = c[i + k]
      BY <1>6, <1>9
    <2>2. d \in Seq(Characters) /\ Len(d) = j /\ \A k \in 1..j : d[k] = text[i + k]
      BY <1>6, <1>9
    <2>3. \A k \in 1..j : c[i + k] = text[i + k]
      BY <1>6, <1>9
    <2> HIDE DEF a, d
    <2>4. a = d
      BY <2>1, <2>2, <2>3, SameSequence
    <2> QED  BY <2>4 DEF a, d
  <1>10. SubSeq(c, 1, n) = text
    <2> DEFINE a == SubSeq(c, 1, n)
    <2>1. a \in Seq(Characters) /\ Len(a) = n /\ \A k \in 1..n : a[k] = c[k]
      BY <1>6
    <2> HIDE DEF a
    <2>2. \A k \in 1..Len(a) : a[k] = text[k]
      BY <1>6, <2>1
    <2>3. a = text
      BY <2>1, <2>2, SameSequence
    <2> QED  BY <2>3 DEF a
  <1> QED  BY <1>4, <1>5, <1>7, <1>8, <1>9, <1>10 DEF c

LEMMA StringInsertsSteps ==
    ASSUME NEW s, StringCalled(s), StringInserts(s)
    PROVE  Abstract!Answered /\ StringInv' /\ kind' = kind
  <1>1. /\ Held \in Seq(Characters) /\ Len(Held) = s.size - 1 /\ s.size \in Nat /\ s.size >= 1
    BY StringHeld
  <1>2. PICK text \in Texts, i \in 0 .. s.size + 1, from \in 0..2, n \in 0..2 :
        LET view == ViewInsideBuffer(text)
            part == SubSeq(text, from + 1, from + n)
        IN  \/ VectorReturned(Insert(Place(s, i), text), StringInsert(s, i, view))
            \/ VectorReturned(Insert(s.size - 1, text), StringAppend(s, view))
            \/ from + n <= Len(text) /\ VectorReturned(Insert(Place(s, i), part), StringInsertEx(s, i, view, from, n))
            \/ from + n <= Len(text) /\ VectorReturned(Insert(s.size - 1, part), StringAppendEx(s, view, from, n))
    BY DEF StringInserts
  <1> DEFINE view == ViewInsideBuffer(text)
             part == SubSeq(text, from + 1, from + n)
  <1>3. text \in Seq(Characters) /\ Len(text) \in Nat
    <2>1. PICK m \in 0..2 : text \in [1..m -> Values]
      BY DEF Texts
    <2>2. text \in [1..m -> Characters] /\ m \in Nat
      <3>1. Values \subseteq Characters
        BY CharactersKnown
      <3> QED  BY <2>1, <3>1
    <2> QED  BY <2>2
  <1>4. /\ Text(view) = text /\ view.size = Len(text) + 1
        /\ \A f, m \in Nat : f + m <= Len(text) =>
                SubSeq(view.cells, f + 1, f + m) = SubSeq(text, f + 1, f + m)
    BY <1>3, View
  <1> HIDE DEF view
  <1>5. i \in Nat /\ from \in Nat /\ n \in Nat
    BY <1>1
  <1>6. ASSUME from + n <= Len(text)
        PROVE  part \in Seq(Characters) /\ SubSeq(view.cells, from + 1, from + n) = part /\ ~(from + n >= view.size)
    <2>1. part \in Seq(Characters)
      BY <1>3, <1>5, <1>6
    <2>2. SubSeq(view.cells, from + 1, from + n) = part
      BY <1>4, <1>5, <1>6
    <2>3. ~(from + n >= view.size)
      BY <1>3, <1>4, <1>5, <1>6
    <2> QED  BY <2>1, <2>2, <2>3
  <1> HIDE DEF part
  (* Either way the text new is put where i says. *)
  <1>7. ASSUME NEW new \in Seq(Characters), NEW r, VectorReturned(Insert(Place(s, i), new), r),
               r = IF i = s.size THEN Appended(s, new) ELSE IF i > s.size THEN Fails("OUT_OF_RANGE", s)
                   ELSE VectorInsertRange(s, i, new)
        PROVE  Abstract!Answered /\ StringInv' /\ kind' = kind
    <2>1. CASE i = s.size
      <3>1. VectorReturned(Insert(s.size - 1, new), Appended(s, new))
        BY <1>7, <2>1 DEF Place
      <3> QED  BY <1>7, <3>1, StringAppendStep
    <2>2. CASE i > s.size
      <3>1. VectorReturned(Operation("insert", i, 0, new), Fails("OUT_OF_RANGE", s))
        BY <1>1, <1>5, <1>7, <2>2 DEF Place, Insert
      <3>2. Turned("insert", i, 0, new, "OUT_OF_RANGE") /\ StringInv' /\ kind' = kind
        BY <3>1, StringTurned
      <3>3. i > Len(Held) /\ Len(new) \in Nat /\ Len(Held) \in Nat
        BY <1>1, <1>5, <1>7, <2>2
      <3>4. Abstract!Answered
        BY <1>5, <3>2, <3>3, OutOfRangeStep
      <3> QED  BY <3>2, <3>4
    <2>3. CASE i < s.size
      <3>1. VectorReturned(Insert(i, new), VectorInsertRange(s, i, new))
        BY <1>1, <1>5, <1>7, <2>3 DEF Place
      <3> QED  BY <1>5, <1>7, <2>3, <3>1, StringInsertStep
    <2> QED  BY <1>1, <1>5, <2>1, <2>2, <2>3
  <1>8. CASE VectorReturned(Insert(Place(s, i), text), StringInsert(s, i, view))
    <2>1. StringInsert(s, i, view) = IF i = s.size THEN Appended(s, text) ELSE IF i > s.size
            THEN Fails("OUT_OF_RANGE", s)
                   ELSE VectorInsertRange(s, i, text)
      BY <1>4 DEF StringInsert, StringAppend
    <2> QED  BY <1>3, <1>7, <1>8, <2>1
  <1>9. CASE VectorReturned(Insert(s.size - 1, text), StringAppend(s, view))
    BY <1>3, <1>4, <1>9, StringAppendStep DEF StringAppend
  <1>10. CASE from + n <= Len(text) /\ VectorReturned(Insert(Place(s, i), part), StringInsertEx(s, i, view, from, n))
    <2>1. StringInsertEx(s, i, view, from, n) =
                IF i = s.size THEN Appended(s, part) ELSE IF i > s.size THEN Fails("OUT_OF_RANGE", s)
                ELSE VectorInsertRange(s, i, part)
      BY <1>6, <1>10 DEF StringInsertEx, StringAppendEx
    <2> QED  BY <1>6, <1>7, <1>10, <2>1
  <1>11. CASE from + n <= Len(text) /\ VectorReturned(Insert(s.size - 1, part), StringAppendEx(s, view, from, n))
    <2>1. StringAppendEx(s, view, from, n) = Appended(s, part)
      BY <1>6, <1>11 DEF StringAppendEx
    <2> QED  BY <1>6, <1>11, <2>1, StringAppendStep
  <1> QED  BY <1>2, <1>8, <1>9, <1>10, <1>11 DEF view, part

LEMMA StringDeleteStep ==
    ASSUME NEW s, StringCalled(s), NEW i \in Nat, NEW n \in Nat, i + n < s.size,
           VectorReturned(Delete(i, n), Terminated(VectorDeleteRange(s, i, n)))
    PROVE  Abstract!Answered /\ StringInv' /\ kind' = kind
  <1> DEFINE g == VectorDeleteRange(s, i, n)
             r == Terminated(g)
  <1>1. /\ Held \in Seq(Characters) /\ Len(Held) = s.size - 1 /\ s.size \in Nat /\ s.size >= 1
        /\ \A k \in 1 .. s.size - 1 : Held[k] = s.cells[k]
    BY StringHeld
  <1>2. VectorReturned(Operation("delete", i, n, <<>>), r)
    BY DEF Delete
  <1>3. s \in VectorsOf(Characters) /\ Fit(s) /\ Junk \in Characters
    BY CharactersKnown DEF StringCalled, VectorCalled
  <1>4. CASE n = 0
    <2>1. r = Fails("INVALID_ARGUMENT", s)
      BY <1>4 DEF VectorDeleteRange, Terminated, Fails, Result
    <2> HIDE DEF r
    <2>2. Turned("delete", i, n, <<>>, "INVALID_ARGUMENT") /\ StringInv' /\ kind' = kind
      BY <1>2, <2>1, StringTurned
    <2>3. Abstract!Answered
      BY <1>4, <2>2, RefusedStep
    <2> QED  BY <2>2, <2>3
  <1>5. CASE n # 0
    <2>1. PICK w \in VectorsOf(Characters) :
            /\ g = Result("SUCCESS", w, SubSeq(s.cells, i + 1, i + n))
            /\ Kin(s, w) /\ Fit(w) /\ Deleted(s, w, i, n)
      <3>1. n \in Nat \ {0} /\ i + n <= s.size
        BY <1>1, <1>5
      <3> QED  BY <1>3, <3>1, DeletedRange
    <2> DEFINE out == SubSeq(s.cells, i + 1, i + n)
               t == NullTerminated(w)
    <2> HIDE DEF out, g
    <2>2. r = Result("SUCCESS", t, out)
      BY <2>1 DEF Terminated, Result, out
    <2> HIDE DEF r
    <2>3. w.size = s.size - n /\ \A k \in 1..w.size : w.cells[k] = IF k <= i THEN s.cells[k] ELSE s.cells[k + n]
      BY <2>1 DEF Deleted
    <2>4. w.size >= 1 /\ w.size \in Nat /\ w.size <= Len(w.cells) /\ w.cells \in Seq(Characters)
      BY <1>1, <2>1, <2>3 DEF VectorsOf, VectorOf, Sound
    <2>5. /\ t \in VectorsOf(Characters) /\ Fit(t) /\ Kin(w, t) /\ Ended(t) /\ t.size = w.size
          /\ \A k \in 1..Len(w.cells) : k # w.size => t.cells[k] = w.cells[k]
      BY <2>1, <2>4, NullTerminatedVector
    <2> HIDE DEF t
    <2>6. Kin(s, t)
      BY <2>1, <2>5, KinKin
    <2>7. Calls("delete", i, n, <<>>, "SUCCESS", SubSeq(Held, i + 1, i + n)) /\ StringLeft(t)
      BY <1>2, <2>2, <2>5, <2>6, StringLeaves
    <2>8. /\ Held' \in Seq(Characters) /\ Len(Held') = t.size - 1 /\ Steady
          /\ \A k \in 1 .. t.size - 1 : Held'[k] = t.cells[k]
      BY <2>7 DEF StringLeft
    <2>9. \A k \in 1..Len(Held') : Held'[k] = IF k <= i THEN Held[k] ELSE Held[k + n]
      <3> TAKE k \in 1..Len(Held')
      <3>1. k \in 1 .. t.size - 1 /\ k \in 1..w.size /\ k \in 1..Len(w.cells) /\ k # w.size
        BY <2>4, <2>5, <2>8
      <3>2. (k <= i => k \in 1 .. s.size - 1) /\ k + n \in 1 .. s.size - 1
        <4>1. t.size - 1 = s.size - n - 1
          BY <2>3, <2>5
        <4> QED  BY <1>1, <3>1, <4>1
      <3>3. Held'[k] = IF k <= i THEN s.cells[k] ELSE s.cells[k + n]
        BY <2>3, <2>5, <2>8, <3>1
      <3> QED  BY <1>1, <3>2, <3>3
    <2>10. Len(Held') = Len(Held) - n /\ i + n <= Len(Held)
      <3>1. Len(Held') = w.size - 1 /\ w.size = s.size - n
        BY <2>3, <2>5, <2>8
      <3> QED  BY <1>1, <3>1
    <2>11. Abstract!Answered
      BY <1>1, <2>7, <2>8, <2>9, <2>10, DeleteStep
    <2> QED  BY <2>7, <2>11 DEF StringLeft
  <1> QED  BY <1>4, <1>5

LEMMA StringDeletesSteps ==
    ASSUME NEW s, StringCalled(s), StringDeletes(s)
    PROVE  Abstract!Answered /\ StringInv' /\ kind' = kind
  <1>1. /\ Held \in Seq(Characters) /\ Len(Held) = s.size - 1 /\ s.size \in Nat /\ s.size >= 1
    BY StringHeld
  <1>2. s \in VectorsOf(Characters) /\ Fit(s) /\ Junk \in Characters
    BY CharactersKnown DEF StringCalled, VectorCalled
  <1>3. ASSUME NEW i \in Nat, NEW n \in Nat, i + n = s.size, VectorReturned(Delete(i, n), Fails("OUT_OF_RANGE", s))
        PROVE  Abstract!Answered /\ StringInv' /\ kind' = kind
    <2>1. VectorReturned(Operation("delete", i, n, <<>>), Fails("OUT_OF_RANGE", s))
      BY <1>3 DEF Delete
    <2>2. Turned("delete", i, n, <<>>, "OUT_OF_RANGE") /\ StringInv' /\ kind' = kind
      BY <2>1, StringTurned
    <2>3. i + n > Len(Held) /\ Len(Held) \in Nat /\ Len(<<>>) \in Nat
      BY <1>1, <1>3
    <2>4. Abstract!Answered
      BY <2>2, <2>3, OutOfRangeStep
    <2> QED  BY <2>2, <2>4
  <1>4. ASSUME NEW i \in 0 .. s.size, NEW n \in 0 .. s.size, i + n <= s.size,
               VectorReturned(Delete(i, n), StringDelete(s, i, n))
        PROVE  Abstract!Answered /\ StringInv' /\ kind' = kind
    <2>1. i \in Nat /\ n \in Nat
      BY <1>1
    <2>2. CASE i + n >= s.size
      <3>1. StringDelete(s, i, n) = Fails("OUT_OF_RANGE", s) /\ i + n = s.size
        BY <1>1, <1>4, <2>1, <2>2 DEF StringDelete
      <3> QED  BY <1>3, <1>4, <2>1, <3>1
    <2>3. CASE ~(i + n >= s.size)
      <3>1. StringDelete(s, i, n) = Terminated(VectorDeleteRange(s, i, n)) /\ i + n < s.size
        BY <1>1, <2>1, <2>3 DEF StringDelete
      <3> QED  BY <1>4, <2>1, <3>1, StringDeleteStep
    <2> QED  BY <2>2, <2>3
  <1>5. ASSUME NEW i \in 0 .. s.size,
               VectorReturned(Delete(i, IF i < s.size THEN s.size - 1 - i ELSE 0), StringTruncate(s, i))
        PROVE  Abstract!Answered /\ StringInv' /\ kind' = kind
    <2>1. i \in Nat
      BY <1>1
    <2>2. CASE i >= s.size
      <3> DEFINE n == 0
      <3>1. n \in Nat /\ i + n = s.size /\ VectorReturned(Delete(i, n), Fails("OUT_OF_RANGE", s))
        BY <1>1, <1>5, <2>1, <2>2 DEF StringTruncate
      <3> HIDE DEF n
      <3> QED  BY <1>3, <2>1, <3>1
    <2>3. CASE ~(i >= s.size)
      <3> DEFINE n == s.size - i - 1
      <3>1. n \in Nat /\ i + n < s.size /\ s.size - 1 - i = n /\ i < s.size
        BY <1>1, <2>1, <2>3
      <3>2. VectorReturned(Delete(i, n), Terminated(VectorDeleteRange(s, i, n)))
        BY <1>5, <2>3, <3>1 DEF StringTruncate
      <3> HIDE DEF n
      <3> QED  BY <2>1, <3>1, <3>2, StringDeleteStep
    <2> QED  BY <2>2, <2>3
  <1>6. ASSUME VectorReturned(Resize(0, <<>>), StringClear(s))
        PROVE  Abstract!Answered /\ StringInv' /\ kind' = kind
    <2> DEFINE zero == 0
               one == 1
               none == <<>>
               g == VectorResizeEx(s, zero, none)
               r == StringClear(s)
    <2>1. zero \in Nat /\ none \in Seq(Characters) /\ zero = 0 /\ none = <<>> /\ one = 1 /\ one \in Nat
      OBVIOUS
    <2>2. r = IF g.status = "SUCCESS" THEN Success(Emptied(g.v)) ELSE g
      BY DEF StringClear, VectorClear, Check
    <2>3. VectorReturned(Operation("resize", 0, zero, none), r)
      BY <1>6 DEF Resize
    <2> HIDE DEF zero, none, r, one
    <2>4. \/ \E w \in VectorsOf(Characters) :
                /\ g = Result("SUCCESS", w, SubSeq(s.cells, zero + 1, s.size))
                /\ Kin(s, w) /\ Fit(w) /\ Extends(s, w, zero, none)
          \/ NoMemory(s, g) /\ zero > s.size
          \/ NoRoomFor(s, g, zero)
      BY <1>2, <2>1, ResizedVector
    <2> HIDE DEF g
    <2>5. ~(zero > s.size) /\ ~NoRoomFor(s, g, zero)
      BY <1>1, <1>2, <2>1 DEF NoRoomFor, VectorsOf, VectorOf, Sound
    <2>6. PICK w \in VectorsOf(Characters) : /\ g = Result("SUCCESS", w, SubSeq(s.cells, zero + 1, s.size))
                                             /\ Kin(s, w) /\ Fit(w)
      BY <2>4, <2>5
    <2> DEFINE u == Overwritten(w, zero, none, one)
               t == NullTerminated(u)
    <2>7. one <= Len(w.cells) /\ w.cells \in Seq(Characters) /\ w \in VectorOf(Characters)
      BY <2>1, <2>6 DEF VectorsOf, VectorOf, Sound, Settled, Fit
    <2>8. [w EXCEPT !.size = 1] = u
      <3>1. Written(w.cells, zero, none) = w.cells
        BY <2>1, <2>7 DEF Written
      <3> QED  BY <2>1, <2>7, <3>1 DEF Overwritten, VectorOf
    <2>9. r = Success(t)
      <3>1. g.status = "SUCCESS" /\ g.v = w
        BY <2>6 DEF Result
      <3> QED  BY <2>2, <2>8, <3>1 DEF Emptied
    <2>10. u \in VectorsOf(Characters) /\ Fit(u) /\ Kin(w, u) /\ u.size = one
      <3>1. /\ w \in VectorsOf(Characters) /\ one \in Nat /\ zero \in Nat /\ none \in Seq(Characters)
            /\ one <= Len(w.cells) /\ Fit(w)
        BY <2>1, <2>6, <2>7
      <3> QED  BY ONLY <3>1, OverwrittenVector
    <2> HIDE DEF u
    <2>11. t \in VectorsOf(Characters) /\ Fit(t) /\ Kin(u, t) /\ Ended(t) /\ t.size = u.size
      BY <2>1, <2>10, NullTerminatedVector
    <2> HIDE DEF t
    <2>12. Kin(s, t)
      BY <2>6, <2>10, <2>11, KinKin
    <2>13. r = Result("SUCCESS", t, <<>>)
      BY <2>9 DEF Success
    <2>14. Calls("resize", 0, zero, none, "SUCCESS", SubSeq(Held, zero + 1, Len(Held))) /\ StringLeft(t)
      BY <2>3, <2>11, <2>12, <2>13, StringLeaves
    <2>15. Held' \in Seq(Characters) /\ Len(Held') = zero /\ Steady
      BY <2>1, <2>10, <2>11, <2>14 DEF StringLeft
    <2>16. Held' \in Seq(Contained)
      BY <2>1, <2>15
    <2>17. Abstract!Answered
      BY <1>1, <2>1, <2>14, <2>15, <2>16, ResizeStep
    <2> QED  BY <2>14, <2>17 DEF StringLeft
  <1> QED  BY <1>4, <1>5, <1>6 DEF StringDeletes

LEMMA CaseClosed ==
    /\ \A c \in Characters \cap UpperCase : WithBit32(c) = c + 32 /\ c + 32 \in Characters
    /\ \A c \in Characters \cap LowerCase : Flipped(c) = c - 32 /\ c - 32 \in Characters
  <1> DEFINE C == Values \cup {Junk, NUL}
  <1>1. \A c \in 65..90 : c \div 32 = 2
    OBVIOUS
  <1>2. \A c \in 97..122 : c \div 32 = 3
    OBVIOUS
  <1>3. 2 % 2 = 0 /\ 3 % 2 = 1
    OBVIOUS
  <1>4. \A c \in UpperCase : WithBit32(c) = c + 32 /\ c + 32 \in LowerCase
    BY <1>1, <1>3 DEF WithBit32, Bit32, UpperCase, LowerCase
  <1>5. \A c \in LowerCase : Flipped(c) = c - 32 /\ c - 32 \in UpperCase
    BY <1>2, <1>3 DEF Flipped, Bit32, UpperCase, LowerCase
  <1>6. UpperCase \cap LowerCase = {}
    BY DEF UpperCase, LowerCase
  <1>7. Characters = C \cup {WithBit32(c) : c \in C \cap UpperCase} \cup {Flipped(c) : c \in C \cap LowerCase}
    BY DEF Characters
  <1> HIDE DEF C
  <1>8. ASSUME NEW c \in Characters, c \in UpperCase
        PROVE  c + 32 \in Characters
    <2>1. CASE c \in C
      BY <1>4, <1>7, <1>8, <2>1
    <2>2. ASSUME NEW d \in C \cap UpperCase, c = WithBit32(d)
          PROVE  FALSE
      BY <1>4, <1>6, <1>8, <2>2
    <2>3. ASSUME NEW d \in C \cap LowerCase, c = Flipped(d)
          PROVE  c + 32 \in Characters
      <3>1. c + 32 = d
        BY <1>5, <2>3 DEF LowerCase
      <3> QED  BY <1>7, <3>1
    <2> QED  BY <1>7, <2>1, <2>2, <2>3
  <1>9. ASSUME NEW c \in Characters, c \in LowerCase
        PROVE  c - 32 \in Characters
    <2>1. CASE c \in C
      BY <1>5, <1>7, <1>9, <2>1
    <2>2. ASSUME NEW d \in C \cap LowerCase, c = Flipped(d)
          PROVE  FALSE
      BY <1>5, <1>6, <1>9, <2>2
    <2>3. ASSUME NEW d \in C \cap UpperCase, c = WithBit32(d)
          PROVE  c - 32 \in Characters
      <3>1. c - 32 = d
        BY <1>4, <2>3 DEF UpperCase
      <3> QED  BY <1>7, <3>1
    <2> QED  BY <1>7, <2>1, <2>2, <2>3
  <1> QED  BY <1>4, <1>5, <1>8, <1>9

LEMMA RecasedStep ==
    ASSUME NEW s, StringCalled(s), NEW i \in Nat, NEW n \in Nat, i + n < s.size, NEW from, NEW by \in Int,
           NEW cells \in Seq(Characters), Len(cells) = Len(s.cells),
           \A k \in 1..Len(s.cells) :
              cells[k] = IF k \in i + 1 .. i + n /\ s.cells[k] \in from THEN s.cells[k] + by ELSE s.cells[k],
           VectorReturned(Overwrite(i, Cased(s, i, n, from, by)), Success([s EXCEPT !.cells = cells]))
    PROVE  Abstract!Answered /\ StringInv' /\ kind' = kind
  <1> DEFINE w == [s EXCEPT !.cells = cells]
             new == Cased(s, i, n, from, by)
             h == Held
             out == SubSeq(h, i + 1, i + Len(new))
  <1>1. /\ Held \in Seq(Characters) /\ Len(Held) = s.size - 1 /\ s.size \in Nat /\ s.size >= 1
        /\ \A k \in 1 .. s.size - 1 : Held[k] = s.cells[k]
    BY StringHeld
  <1>2. /\ s \in VectorsOf(Characters) /\ s \in VectorOf(Characters) /\ Sound(s) /\ Fit(s)
        /\ s.size <= Len(s.cells) /\ Len(s.cells) \in Nat /\ s.cells[s.size] = NUL
    BY DEF StringCalled, VectorCalled, VectorsOf, VectorOf, Sound, Ended
  <1>3. /\ w \in VectorOf(Characters) /\ w.cells = cells /\ w.size = s.size /\ w.capacity = s.capacity
        /\ w.growth = s.growth /\ w.threshold = s.threshold /\ w.dynamic = s.dynamic /\ w.memory = s.memory
    BY <1>2 DEF VectorOf
  <1>4. VectorReturned(Operation("overwrite", i, 0, new), Result("SUCCESS", w, <<>>))
    BY DEF Overwrite, Success
  <1> HIDE DEF w
  <1>5. Sound(w) /\ Fit(w) /\ Kin(s, w)
    BY <1>2, <1>3 DEF Sound, Settled, Fit, Kin
  <1>6. \A k \in 1..n : new[k] = cells[i + k]
    <2> TAKE k \in 1..n
    <2>1. i + k \in 1..Len(s.cells) /\ i + k \in i + 1 .. i + n
      BY <1>1, <1>2
    <2>2. cells[i + k] = IF s.cells[i + k] \in from THEN s.cells[i + k] + by ELSE s.cells[i + k]
      BY <2>1
    <2> QED  BY <2>2 DEF Cased
  <1>7. new \in Seq(Characters) /\ Len(new) = n
    <2>1. \A k \in 1..n : new[k] \in Characters
      <3> TAKE k \in 1..n
      <3>1. i + k \in 1..Len(cells)
        BY <1>1, <1>2
      <3> QED  BY <1>6, <3>1
    <2>2. new = [k \in 1..n |-> new[k]]
      BY DEF Cased
    <2> HIDE DEF new
    <2>3. new \in [1..n -> Characters]
      BY <2>1, <2>2
    <2>4. DOMAIN new = 1..n
      BY <2>3
    <2>5. new \in Seq(Characters)
      BY <2>3
    <2> QED  BY <2>4, <2>5
  <1> HIDE DEF new
  <1>8. Ended(w)
    <2>1. s.size \in 1..Len(s.cells) /\ ~(s.size \in i + 1 .. i + n)
      BY <1>1, <1>2
    <2>2. cells[s.size] = s.cells[s.size]
      BY <2>1
    <2> QED  BY <1>1, <1>2, <1>3, <2>2 DEF Ended
  <1>9. Calls("overwrite", i, 0, new, "SUCCESS", out) /\ StringLeft(w)
    <2> HIDE DEF out
    <2>1. w \in VectorsOf(Characters)
      BY <1>3, <1>5 DEF VectorsOf
    <2> QED  BY <1>4, <1>5, <1>8, <2>1, StringLeaves
  <1>10. /\ Held' \in Seq(Characters) /\ Len(Held') = w.size - 1 /\ Steady
         /\ \A k \in 1 .. w.size - 1 : Held'[k] = w.cells[k]
    BY <1>9 DEF StringLeft
  <1>11. \A k \in 1..Len(Held) : Held'[k] = IF i < k /\ k <= i + Len(new) THEN new[k - i] ELSE Held[k]
    <2> TAKE k \in 1..Len(Held)
    <2>1. k \in 1 .. s.size - 1 /\ k \in 1..Len(s.cells) /\ Held'[k] = cells[k]
      BY <1>1, <1>2, <1>3, <1>10
    <2>2. CASE i < k /\ k <= i + n
      <3>1. k - i \in 1..n /\ i + (k - i) = k
        BY <2>1, <2>2
      <3>2. new[k - i] = cells[k]
        BY <1>6, <3>1
      <3> QED  BY <1>7, <2>1, <2>2, <3>2
    <2>3. CASE ~(i < k /\ k <= i + n)
      <3>1. ~(k \in i + 1 .. i + n)
        BY <2>1, <2>3
      <3> QED  BY <1>1, <1>7, <2>1, <2>3, <3>1
    <2> QED  BY <2>2, <2>3
  <1>12. Len(Held') = Len(Held) /\ i + Len(new) <= Len(Held)
    BY <1>1, <1>3, <1>7, <1>10
  <1>13. Abstract!Answered
    BY <1>1, <1>7, <1>9, <1>10, <1>11, <1>12, OverwriteStep
  <1> QED  BY <1>9, <1>13 DEF StringLeft

LEMMA StringSetStep ==
    ASSUME NEW s, StringCalled(s), NEW i \in Nat, i + 1 < s.size, NEW c \in Characters,
           VectorReturned(Overwrite(i, <<c>>), VectorSet(s, i, c))
    PROVE  Abstract!Answered /\ StringInv' /\ kind' = kind
  <1> DEFINE r == VectorSet(s, i, c)
             new == <<c>>
             out == SubSeq(Held, i + 1, i + Len(new))
  <1>0. new \in Seq(Characters) /\ Len(new) = 1
    OBVIOUS
  <1>1. /\ Held \in Seq(Characters) /\ Len(Held) = s.size - 1 /\ s.size \in Nat /\ s.size >= 1
        /\ \A k \in 1 .. s.size - 1 : Held[k] = s.cells[k]
    BY StringHeld
  <1>2. s \in VectorsOf(Characters) /\ Fit(s) /\ s.cells[s.size] = NUL /\ i < s.size
    BY <1>1 DEF StringCalled, VectorCalled, Ended
  <1>3. PICK w \in VectorsOf(Characters) :
            r = Result("SUCCESS", w, <<s.cells[i + 1]>>) /\ Kin(s, w) /\ Fit(w) /\ Replaced(s, w, i, new)
    BY <1>2, SetElement
  <1>4. VectorReturned(Operation("overwrite", i, 0, new), r)
    BY DEF Overwrite
  <1> HIDE DEF new, r, out
  <1>5. /\ w.size = s.size
        /\ \A k \in 1..w.size : w.cells[k] = IF i < k /\ k <= i + Len(new) THEN new[k - i] ELSE s.cells[k]
    BY <1>3 DEF Replaced
  <1>6. Ended(w)
    <2>1. s.size \in 1..w.size /\ ~(s.size <= i + Len(new))
      BY <1>0, <1>1, <1>5
    <2> QED  BY <1>1, <1>2, <1>5, <2>1 DEF Ended
  <1>7. Calls("overwrite", i, 0, new, "SUCCESS", out) /\ StringLeft(w)
    BY <1>3, <1>4, <1>6, StringLeaves
  <1>8. /\ Held' \in Seq(Characters) /\ Len(Held') = w.size - 1 /\ Steady
        /\ \A k \in 1 .. w.size - 1 : Held'[k] = w.cells[k]
    BY <1>7 DEF StringLeft
  <1>9. \A k \in 1..Len(Held) : Held'[k] = IF i < k /\ k <= i + Len(new) THEN new[k - i] ELSE Held[k]
    <2> TAKE k \in 1..Len(Held)
    <2>1. k \in 1 .. w.size - 1 /\ k \in 1..w.size /\ k \in 1 .. s.size - 1
      BY <1>1, <1>5
    <2> QED  BY <1>1, <1>5, <1>8, <2>1
  <1>10. Len(Held') = Len(Held) /\ i + Len(new) <= Len(Held)
    BY <1>0, <1>1, <1>5, <1>8
  <1>11. Abstract!Answered
    BY <1>0, <1>1, <1>7, <1>8, <1>9, <1>10, OverwriteStep DEF out
  <1> QED  BY <1>7, <1>11 DEF StringLeft

LEMMA StringResizeStep ==
    ASSUME NEW s, StringCalled(s), NEW size \in Nat, VectorReturned(Resize(size, <<>>), StringResize(s, size))
    PROVE  Abstract!Answered /\ StringInv' /\ kind' = kind
  <1> DEFINE more == size + 1
             none == <<>>
             g == VectorResizeEx(s, more, none)
             r == StringResize(s, size)
             out == SubSeq(s.cells, more + 1, s.size)
  <1>1. /\ Held \in Seq(Characters) /\ Len(Held) = s.size - 1 /\ s.size \in Nat /\ s.size >= 1
        /\ \A k \in 1 .. s.size - 1 : Held[k] = s.cells[k]
    BY StringHeld
  <1>2. s \in VectorsOf(Characters) /\ Fit(s) /\ Junk \in Characters
    BY CharactersKnown DEF StringCalled, VectorCalled
  <1>3. VectorReturned(Operation("resize", 0, size, none), r) /\ r = Terminated(g)
    BY DEF Resize, StringResize
  <1>4. more \in Nat /\ more = size + 1 /\ none \in Seq(Characters) /\ none = <<>>
    OBVIOUS
  <1> HIDE DEF more, none, r
  <1>5. \/ \E w \in VectorsOf(Characters) :
                /\ g = Result("SUCCESS", w, out)
                /\ Kin(s, w) /\ Fit(w) /\ Extends(s, w, more, none)
        \/ NoMemory(s, g) /\ more > s.size
        \/ NoRoomFor(s, g, more)
    BY <1>2, <1>4, ResizedVector
  <1> HIDE DEF g, out
  <1>6. ASSUME NEW w \in VectorsOf(Characters), g = Result("SUCCESS", w, out),
               Kin(s, w), Fit(w), Extends(s, w, more, none)
        PROVE  Abstract!Answered /\ StringInv' /\ kind' = kind
    <2> DEFINE t == NullTerminated(w)
    <2>1. w.size = more /\ \A k \in 1..more : k <= s.size => w.cells[k] = s.cells[k]
      BY <1>6 DEF Extends
    <2>2. r = Result("SUCCESS", t, out)
      BY <1>3, <1>6 DEF Terminated, Result
    <2>3. w.size >= 1 /\ more <= Len(w.cells) /\ w.cells \in Seq(Characters)
      BY <1>4, <2>1 DEF VectorsOf, VectorOf, Sound
    <2>4. /\ t \in VectorsOf(Characters) /\ Fit(t) /\ Kin(w, t) /\ Ended(t) /\ t.size = w.size
          /\ \A k \in 1..Len(w.cells) : k # w.size => t.cells[k] = w.cells[k]
      BY <1>6, <2>3, NullTerminatedVector
    <2> HIDE DEF t
    <2>5. Kin(s, t)
      BY <1>6, <2>4, KinKin
    <2>6. Calls("resize", 0, size, none, "SUCCESS", SubSeq(Held, size + 1, Len(Held))) /\ StringLeft(t)
      BY <1>3, <2>2, <2>4, <2>5, StringLeaves
    <2>7. /\ Held' \in Seq(Characters) /\ Len(Held') = t.size - 1 /\ Steady
          /\ \A k \in 1 .. t.size - 1 : Held'[k] = t.cells[k]
      BY <2>6 DEF StringLeft
    <2>8. Len(Held') = size /\ t.size - 1 = size
      BY <1>4, <2>1, <2>4, <2>7
    <2>9. \A k \in 1..size : IF k <= Len(Held) THEN Held'[k] = Held[k] ELSE none # <<>> => Held'[k] = none[1]
      <3> TAKE k \in 1..size
      <3>1. k \in 1..more /\ k \in 1..Len(w.cells) /\ k # w.size
        BY <1>4, <2>1, <2>3
      <3>2. k <= Len(Held) => k \in 1 .. s.size - 1 /\ k <= s.size
        BY <1>1
      <3> QED  BY <1>1, <1>4, <2>1, <2>4, <2>7, <2>8, <3>1, <3>2
    <2>10. Held' \in Seq(Contained)
      <3> DEFINE h == Held'
      <3>1. h \in Seq(Characters) /\ Characters \subseteq Contained
        BY <2>7, CharactersKnown
      <3> HIDE DEF h
      <3>2. h \in Seq(Contained)
        BY <3>1, OfMore
      <3> QED  BY <3>2 DEF h
    <2>11. Abstract!Answered
      BY <1>1, <2>6, <2>7, <2>8, <2>9, <2>10, ResizeStep
    <2> QED  BY <2>6, <2>11 DEF StringLeft
  <1>7. CASE NoMemory(s, g)
    <2>1. r = g
      BY <1>3, <1>7 DEF NoMemory, Fails, Result, Terminated
    <2> QED  BY <1>3, <1>7, <2>1, StringNoMemory
  <1>8. CASE NoRoomFor(s, g, more)
    <2>1. r = g
      BY <1>3, <1>8 DEF NoRoomFor, Fails, Result, Terminated
    <2>2. /\ Turned("resize", 0, size, none, "INSUFFICIENT_BUFFER_SIZE") /\ StringInv' /\ kind' = kind
          /\ Limit # Unlimited /\ Limit \in Nat /\ Len(Held) <= Limit /\ Limit < more - 1
      <3>1. more \in Int
        BY <1>4
      <3> QED  BY <1>3, <1>8, <2>1, <3>1, StringNoRoom
    <2>3. Limit < size
      BY <1>4, <2>2
    <2>4. Abstract!Answered
      BY <1>1, <2>2, <2>3, NoRoomToResize
    <2> QED  BY <2>2, <2>4
  <1> QED  BY <1>5, <1>6, <1>7, <1>8

LEMMA StringChangesSteps ==
    ASSUME NEW s, StringCalled(s), StringChanges(s)
    PROVE  Abstract!Answered /\ StringInv' /\ kind' = kind
  <1>1. /\ Held \in Seq(Characters) /\ Len(Held) = s.size - 1 /\ s.size \in Nat /\ s.size >= 1
    BY StringHeld
  <1>2. Values \subseteq Characters /\ Characters \subseteq Int
    BY CharactersKnown
  <1>3. s.cells \in Seq(Characters) /\ Len(s.cells) \in Nat
    BY DEF StringCalled, VectorCalled, VectorsOf, VectorOf
  <1>4. ASSUME NEW i \in 0 .. s.size, NEW c \in Values, VectorReturned(Overwrite(i, <<c>>), StringSetChar(s, i, c))
        PROVE  Abstract!Answered /\ StringInv' /\ kind' = kind
    <2>1. i \in Nat /\ c \in Characters
      BY <1>1, <1>2
    <2>2. CASE i + 1 >= s.size
      <3> DEFINE new == <<c>>
      <3>1. VectorReturned(Operation("overwrite", i, 0, new), Fails("OUT_OF_RANGE", s))
        BY <1>4, <2>2 DEF StringSetChar, Overwrite
      <3>2. Len(new) = 1
        OBVIOUS
      <3> HIDE DEF new
      <3>3. Turned("overwrite", i, 0, new, "OUT_OF_RANGE") /\ StringInv' /\ kind' = kind
        BY <3>1, StringTurned
      <3>4. i + Len(new) > Len(Held) /\ Len(new) \in Nat /\ Len(Held) \in Nat
        BY <1>1, <2>1, <2>2, <3>2
      <3>5. Abstract!Answered
        BY <2>1, <3>3, <3>4, OutOfRangeStep
      <3> QED  BY <3>3, <3>5
    <2>3. CASE ~(i + 1 >= s.size)
      <3>1. VectorReturned(Overwrite(i, <<c>>), VectorSet(s, i, c)) /\ i + 1 < s.size
        BY <1>1, <1>4, <2>1, <2>3 DEF StringSetChar
      <3> QED  BY <2>1, <3>1, StringSetStep
    <2> QED  BY <2>2, <2>3
  <1>5. ASSUME NEW i \in 0 .. s.size - 1, NEW n \in 0 .. s.size - 1, i + n < s.size,
               VectorReturned(Overwrite(i, Cased(s, i, n, 65..90, 32)), StringToLowerCaseEx(s, i, n))
        PROVE  Abstract!Answered /\ StringInv' /\ kind' = kind
    <2> DEFINE cells == [k \in DOMAIN s.cells |->
                            IF k \in i + 1 .. i + n /\ s.cells[k] \in UpperCase THEN WithBit32(s.cells[k])
                              ELSE s.cells[k]]
               by == 32
    <2>1. i \in Nat /\ n \in Nat /\ by \in Int /\ ~(i + n >= s.size)
      BY <1>1, <1>5
    <2>2. StringToLowerCaseEx(s, i, n) = Success([s EXCEPT !.cells = cells])
      BY <2>1 DEF StringToLowerCaseEx, Recased
    <2>3. \A k \in 1..Len(s.cells) : s.cells[k] \in UpperCase =>
                WithBit32(s.cells[k]) = s.cells[k] + by /\ s.cells[k] + by \in Characters
      BY <1>3, CaseClosed
    <2>4. DOMAIN s.cells = 1..Len(s.cells) /\ \A k \in 1..Len(s.cells) : s.cells[k] \in Characters
      BY <1>3
    <2>5. \A k \in 1..Len(s.cells) :
                cells[k] = IF k \in i + 1 .. i + n /\ s.cells[k] \in UpperCase THEN s.cells[k] + by ELSE s.cells[k]
      BY <2>3, <2>4
    <2>6. cells \in Seq(Characters) /\ Len(cells) = Len(s.cells)
      <3>1. \A k \in 1..Len(s.cells) : cells[k] \in Characters
        BY <2>3, <2>4
      <3>2. cells = [k \in 1..Len(s.cells) |-> cells[k]]
        BY <2>4
      <3> HIDE DEF cells
      <3>3. cells \in [1..Len(s.cells) -> Characters]
        BY <3>1, <3>2
      <3>4. DOMAIN cells = 1..Len(s.cells)
        BY <3>3
      <3>5. cells \in Seq(Characters)
        BY <1>3, <3>3
      <3> QED  BY <1>3, <3>4, <3>5
    <2>7. VectorReturned(Overwrite(i, Cased(s, i, n, UpperCase, by)), Success([s EXCEPT !.cells = cells]))
      BY <1>5, <2>2 DEF UpperCase
    <2>8. i + n < s.size
      BY <1>5
    <2> HIDE DEF cells, by
    <2> QED  BY <2>1, <2>5, <2>6, <2>7, <2>8, RecasedStep
  <1>6. ASSUME NEW i \in 0 .. s.size - 1, NEW n \in 0 .. s.size - 1, i + n < s.size,
               VectorReturned(Overwrite(i, Cased(s, i, n, 97..122, -32)), StringToUpperCaseEx(s, i, n))
        PROVE  Abstract!Answered /\ StringInv' /\ kind' = kind
    <2> DEFINE cells == [k \in DOMAIN s.cells |->
                            IF k \in i + 1 .. i + n /\ s.cells[k] \in LowerCase THEN Flipped(s.cells[k])
                              ELSE s.cells[k]]
               by == -32
    <2>1. i \in Nat /\ n \in Nat /\ by \in Int /\ ~(i + n >= s.size)
      BY <1>1, <1>6
    <2>2. StringToUpperCaseEx(s, i, n) = Success([s EXCEPT !.cells = cells])
      BY <2>1 DEF StringToUpperCaseEx, Recased
    <2>3. \A k \in 1..Len(s.cells) : s.cells[k] \in LowerCase =>
                Flipped(s.cells[k]) = s.cells[k] + by /\ s.cells[k] + by \in Characters
      <3> TAKE k \in 1..Len(s.cells)
      <3>1. s.cells[k] \in Characters
        BY <1>3
      <3>2. s.cells[k] \in Int
        BY <1>2, <3>1
      <3>3. s.cells[k] - 32 = s.cells[k] + by
        BY <3>2
      <3>4. s.cells[k] \in LowerCase => Flipped(s.cells[k]) = s.cells[k] - 32 /\ Flipped(s.cells[k]) \in Characters
        BY <3>1, CaseClosed
      <3> HIDE DEF by
      <3> QED  BY <3>3, <3>4
    <2>4. DOMAIN s.cells = 1..Len(s.cells) /\ \A k \in 1..Len(s.cells) : s.cells[k] \in Characters
      BY <1>3
    <2> HIDE DEF by
    <2>5. \A k \in 1..Len(s.cells) :
                cells[k] = IF k \in i + 1 .. i + n /\ s.cells[k] \in LowerCase THEN s.cells[k] + by ELSE s.cells[k]
      BY <2>3, <2>4
    <2>6. cells \in Seq(Characters) /\ Len(cells) = Len(s.cells)
      <3>1. \A k \in 1..Len(s.cells) : cells[k] \in Characters
        BY <2>3, <2>4
      <3>2. cells = [k \in 1..Len(s.cells) |-> cells[k]]
        BY <2>4
      <3> HIDE DEF cells
      <3>3. cells \in [1..Len(s.cells) -> Characters]
        BY <3>1, <3>2
      <3>4. DOMAIN cells = 1..Len(s.cells)
        BY <3>3
      <3>5. cells \in Seq(Characters)
        BY <1>3, <3>3
      <3> QED  BY <1>3, <3>4, <3>5
    <2>7. VectorReturned(Overwrite(i, Cased(s, i, n, LowerCase, by)), Success([s EXCEPT !.cells = cells]))
      BY <1>6, <2>2 DEF LowerCase, by
    <2>8. i + n < s.size
      BY <1>6
    <2> HIDE DEF cells
    <2> QED  BY <2>1, <2>5, <2>6, <2>7, <2>8, RecasedStep
  <1>7. ASSUME NEW size \in 0 .. MaxItems, VectorReturned(Resize(size, <<>>), StringResize(s, size))
        PROVE  Abstract!Answered /\ StringInv' /\ kind' = kind
    <2>1. size \in Nat
      BY ContainerAssumption
    <2> QED  BY <1>7, <2>1, StringResizeStep
  <1>8. ASSUME NEW i \in 0 .. s.size - 1, NEW n \in 0 .. s.size - 1, i + n >= s.size,
               NEW r \in {StringToLowerCaseEx(s, i, n), StringToUpperCaseEx(s, i, n)},
               VectorReturned(Overwrite(i, [k \in 1..n |-> NUL]), r)
        PROVE  Abstract!Answered /\ StringInv' /\ kind' = kind
    <2> DEFINE new == [k \in 1..n |-> NUL]
    <2>1. i \in Nat /\ n \in Nat
      BY <1>1, <1>8
    <2>2. r = Fails("OUT_OF_RANGE", s)
      BY <1>8 DEF StringToLowerCaseEx, StringToUpperCaseEx, Recased
    <2>3. VectorReturned(Operation("overwrite", i, 0, new), Fails("OUT_OF_RANGE", s))
      BY <1>8, <2>2 DEF Overwrite
    <2>4. Len(new) = n
      BY <2>1
    <2> HIDE DEF new
    <2>5. Turned("overwrite", i, 0, new, "OUT_OF_RANGE") /\ StringInv' /\ kind' = kind
      BY <2>3, StringTurned
    <2>6. i + Len(new) > Len(Held) /\ Len(new) \in Nat /\ Len(Held) \in Nat
      BY <1>1, <1>8, <2>1, <2>4
    <2>7. Abstract!Answered
      BY <2>1, <2>5, <2>6, OutOfRangeStep
    <2> QED  BY <2>5, <2>7
  <1> QED  BY <1>4, <1>5, <1>6, <1>7, <1>8 DEF StringChanges

LEMMA StringReserveStep ==
    ASSUME NEW s, StringCalled(s), NEW size \in Int, NEW r, VectorReturned(Reserve(size - 1), r),
           \/ \E w \in VectorsOf(Characters) : r = Success(w) /\ Kin(s, w) /\ Fit(w) /\ Extends(s, w, s.size, <<>>)
           \/ NoMemory(s, r)
           \/ NoRoomFor(s, r, size)
    PROVE  Abstract!Answered /\ StringInv' /\ kind' = kind
  <1> DEFINE n == size - 1
  <1>1. /\ Held \in Seq(Characters) /\ Len(Held) = s.size - 1 /\ s.size \in Nat /\ s.size >= 1
        /\ \A k \in 1 .. s.size - 1 : Held[k] = s.cells[k]
    BY StringHeld
  <1>2. VectorReturned(Operation("reserve", 0, n, <<>>), r) /\ n = size - 1
    BY DEF Reserve
  <1> HIDE DEF n
  <1>3. ASSUME NEW w \in VectorsOf(Characters), r = Success(w), Kin(s, w), Fit(w), Extends(s, w, s.size, <<>>)
        PROVE  Abstract!Answered /\ StringInv' /\ kind' = kind
    <2>1. r = Result("SUCCESS", w, <<>>)
      BY <1>3 DEF Success
    <2>2. w.size = s.size /\ \A k \in 1..s.size : w.cells[k] = s.cells[k]
      BY <1>1, <1>3 DEF Extends
    <2>3. Ended(w)
      BY <1>1, <2>2 DEF Ended, StringCalled
    <2>4. Calls("reserve", 0, n, <<>>, "SUCCESS", <<>>) /\ StringLeft(w)
      BY <1>2, <1>3, <2>1, <2>3, StringLeaves
    <2> DEFINE h == Held
               t == Held'
    <2>5. h = t
      <3>1. h \in Seq(Characters) /\ t \in Seq(Characters) /\ Len(h) = Len(t) /\ \A k \in 1..Len(h) : h[k] = t[k]
        BY <1>1, <2>2, <2>4 DEF StringLeft
      <3> HIDE DEF h, t
      <3> QED  BY <3>1, SameSequence
    <2>6. Abstract!Answered
      BY <2>4, <2>5, ReserveStep DEF StringLeft
    <2> QED  BY <2>4, <2>6 DEF StringLeft
  <1>4. CASE NoMemory(s, r)
    BY <1>2, <1>4, StringNoMemory
  <1>5. CASE NoRoomFor(s, r, size)
    <2>1. /\ Turned("reserve", 0, n, <<>>, "INSUFFICIENT_BUFFER_SIZE") /\ StringInv' /\ kind' = kind
          /\ Limit # Unlimited /\ Limit \in Nat /\ Len(Held) <= Limit /\ Limit < size - 1
      BY <1>2, <1>5, StringNoRoom
    <2>2. Abstract!Answered
      BY <1>2, <2>1, NoRoomToReserve
    <2> QED  BY <2>1, <2>2
  <1> QED  BY <1>3, <1>4, <1>5

LEMMA StringFitsSteps ==
    ASSUME NEW s, StringCalled(s), StringFits(s)
    PROVE  Abstract!Answered /\ StringInv' /\ kind' = kind
  <1>1. s \in VectorsOf(Characters) /\ Fit(s) /\ Junk \in Characters
    BY CharactersKnown DEF StringCalled, VectorCalled
  <1>2. ASSUME NEW size \in Sizes, VectorReturned(Reserve(size - 1), StringReserve(s, size))
        PROVE  Abstract!Answered /\ StringInv' /\ kind' = kind
    <2> DEFINE r == VectorReserve(s, size)
    <2>1. size \in Nat /\ size \in Int
      BY ContainerAssumption DEF Sizes
    <2>2. \/ \E w \in VectorsOf(Characters) : r = Success(w) /\ Kin(s, w) /\ Fit(w) /\ Extends(s, w, s.size, <<>>)
          \/ NoMemory(s, r)
          \/ NoRoomFor(s, r, size)
      BY <1>1, <2>1, ReservedVector
    <2>3. VectorReturned(Reserve(size - 1), r)
      BY <1>2 DEF StringReserve
    <2> HIDE DEF r
    <2> QED  BY <2>1, <2>2, <2>3, StringReserveStep
  <1>3. ASSUME VectorReturned(Reserve(0), StringShrinkToFit(s))
        PROVE  Abstract!Answered /\ StringInv' /\ kind' = kind
    <2> DEFINE r == VectorShrinkToFit(s)
               one == 1
    <2>1. \E w \in VectorsOf(Characters) : r = Success(w) /\ Kin(s, w) /\ Fit(w) /\ Extends(s, w, s.size, <<>>)
      BY <1>1, FittedVector
    <2>2. VectorReturned(Reserve(one - 1), r) /\ one \in Int
      BY <1>3 DEF StringShrinkToFit
    <2> HIDE DEF r, one
    <2> QED  BY <2>1, <2>2, StringReserveStep
  <1> QED  BY <1>2, <1>3 DEF StringFits

LEMMA StringCallStep ==
    ASSUME StringInv, StringCall
    PROVE  Abstract!Answered /\ StringInv' /\ kind' = kind
  <1>1. kind = "string" /\ ~Spent(body) /\ VectorKept(Characters, body) /\ Ended(body) /\ watched = FALSE
    BY DEF StringCall, StringInv
  <1>2. PICK s \in MemoryFor(body) : StringInserts(s) \/ StringDeletes(s) \/ StringChanges(s) \/ StringFits(s)
    BY DEF StringCall
  <1>3. VectorCalled(Characters, s)
    BY <1>1, VectorForCall
  <1>4. StringCalled(s)
    BY <1>1, <1>3 DEF StringCalled, VectorCalled, Ended
  <1> QED  BY <1>2, <1>4, StringInsertsSteps, StringDeletesSteps, StringChangesSteps, StringFitsSteps

LEMMA DestroyStringStep ==
    ASSUME StringInv, kind = "string", Destroy
    PROVE  Abstract!Answered /\ kind' = "none"
  <1>1. watched = FALSE
    BY DEF StringInv
  <1>2. Calls("destroy", 0, 0, <<>>, "SUCCESS", Held)
    BY <1>1 DEF Destroy, Called, Calls
  <1>3. kind' = "none" /\ Held' = <<>>
    BY DEF Destroy, Held
  <1> QED  BY <1>2, <1>3, DestroyStep

LEMMA MadeString ==
    ASSUME NEW v \in VectorsOf(Characters), Fit(v), Ended(v), NEW new, Text(v) = new, Make("string", v, FALSE, new)
    PROVE  Abstract!Answered /\ StringInv' /\ kind' = "string"
  <1>1. /\ kind' = "string" /\ body' = v /\ watched' = FALSE
        /\ Calls("create", 0, 0, new, "SUCCESS", <<>>)
    BY MadeStep
  <1>2. Held' = new
    BY <1>1 DEF Held
  <1>3. Abstract!Answered
    BY <1>1, <1>2, CreateStep
  <1> QED  BY <1>1, <1>3 DEF StringInv, VectorKept

LEMMA EmptiedVector ==
    ASSUME NEW v \in VectorsOf(Characters), Fit(v)
    PROVE  LET w == Emptied(v) IN
           w \in VectorsOf(Characters) /\ Fit(w) /\ Ended(w) /\ Text(w) = <<>> /\ Len(w.cells) = Len(v.cells)
  <1> DEFINE zero == 0
             one == 1
             none == <<>>
             u == Overwritten(v, zero, none, one)
             w == NullTerminated(u)
  <1>1. zero \in Nat /\ one \in Nat /\ none \in Seq(Characters) /\ one = 1 /\ Len(none) = 0
    OBVIOUS
  <1>2. v \in VectorOf(Characters) /\ v.cells \in Seq(Characters) /\ 1 <= Len(v.cells) /\ Len(v.cells) \in Nat
    BY DEF VectorsOf, VectorOf, Sound, Settled, Fit
  <1>3. [v EXCEPT !.size = 1] = u
    <2>1. Written(v.cells, zero, none) = v.cells
      BY <1>1, <1>2 DEF Written
    <2> QED  BY <1>2, <2>1 DEF Overwritten, VectorOf
  <1>4. Emptied(v) = w
    BY <1>3 DEF Emptied
  <1> HIDE DEF zero, one, none
  <1>5. u \in VectorsOf(Characters) /\ Fit(u) /\ u.size = one /\ Len(u.cells) = Len(v.cells)
    <2>1. /\ v \in VectorsOf(Characters) /\ zero \in Nat /\ one \in Nat /\ none \in Seq(Characters)
          /\ one <= Len(v.cells) /\ Fit(v)
      BY <1>1, <1>2
    <2> QED  BY ONLY <2>1, OverwrittenVector
  <1> HIDE DEF u
  <1>6. w \in VectorsOf(Characters) /\ Fit(w) /\ Ended(w) /\ w.size = u.size /\ Len(w.cells) = Len(u.cells)
    <2>1. u.size >= 1
      BY <1>1, <1>5
    <2> QED  BY <1>5, <2>1, NullTerminatedVector
  <1> HIDE DEF w
  <1>7. Text(w) = <<>>
    <2>1. Text(w) \in Seq(Characters) /\ Len(Text(w)) = w.size - 1
      BY <1>1, <1>5, <1>6, TextOfVector
    <2> QED  BY <1>1, <1>5, <1>6, <2>1
  <1> QED  BY <1>4, <1>5, <1>6, <1>7

LEMMA HoldingVector ==
    ASSUME NEW v \in VectorsOf(Characters), Fit(v), NEW text \in Seq(Characters), Len(text) < Len(v.cells)
    PROVE  LET w == Holding(v, text) IN
           w \in VectorsOf(Characters) /\ Fit(w) /\ Ended(w) /\ Text(w) = text
  <1> DEFINE all == Append(text, NUL)
             u == Filled(v, all)
             w == NullTerminated(u)
             n == Len(text)
  <1>1. NUL \in Characters /\ n \in Nat
    BY CharactersKnown
  <1>2. all \in Seq(Characters) /\ Len(all) = n + 1 /\ \A k \in 1..n : all[k] = text[k]
    BY <1>1
  <1>3. Holding(v, text) = w
    BY DEF Holding
  <1> HIDE DEF all
  <1>4. /\ u \in VectorsOf(Characters) /\ Fit(u) /\ u.size = Len(all)
        /\ Len(u.cells) = Len(v.cells) /\ \A k \in 1..Len(all) : u.cells[k] = all[k]
    <2>1. Len(all) <= Len(v.cells)
      <3>1. Len(v.cells) \in Nat
        BY DEF VectorsOf, VectorOf
      <3> QED  BY <1>1, <1>2, <3>1
    <2> QED  BY <1>2, <2>1, FilledVector
  <1> HIDE DEF u
  <1>5. /\ w \in VectorsOf(Characters) /\ Fit(w) /\ Ended(w) /\ w.size = u.size
        /\ \A k \in 1..Len(u.cells) : k # u.size => w.cells[k] = u.cells[k]
    <2>1. u.size >= 1
      BY <1>1, <1>2, <1>4
    <2> QED  BY <1>4, <2>1, NullTerminatedVector
  <1> HIDE DEF w
  <1>6. /\ Text(w) \in Seq(Characters) /\ Len(Text(w)) = n
        /\ \A k \in 1..n : Text(w)[k] = w.cells[k]
    <2>1. w.size = n + 1 /\ w.size >= 1 /\ w.size - 1 = n
      BY <1>1, <1>2, <1>4, <1>5
    <2>2. /\ Text(w) \in Seq(Characters) /\ Len(Text(w)) = w.size - 1
          /\ \A k \in 1 .. w.size - 1 : Text(w)[k] = w.cells[k]
      BY <1>5, <2>1, TextOfVector
    <2> QED  BY <2>1, <2>2
  <1>7. \A k \in 1..n : Text(w)[k] = text[k]
    <2> TAKE k \in 1..n
    <2>1. k \in 1..Len(all) /\ k \in 1..Len(u.cells) /\ k # u.size
      <3>1. Len(u.cells) \in Nat /\ u.size <= Len(u.cells)
        BY <1>4 DEF VectorsOf, VectorOf, Sound
      <3> QED  BY <1>1, <1>2, <1>4, <3>1
    <2> QED  BY <1>2, <1>4, <1>5, <1>6, <2>1
  <1>8. Text(w) = text
    <2> DEFINE t == Text(w)
    <2>1. t \in Seq(Characters) /\ Len(t) = Len(text) /\ \A k \in 1..Len(t) : t[k] = text[k]
      BY <1>6, <1>7
    <2> HIDE DEF t
    <2>2. t = text
      BY <2>1, SameSequence
    <2> QED  BY <2>2 DEF t
  <1> QED  BY <1>3, <1>5, <1>8

LEMMA CreateStringStep ==
    ASSUME CreateString
    PROVE  Abstract!Answered /\ StringInv' /\ kind' = "string"
  <1>1. PICK capacity \in Sizes, a \in Texts, b \in Texts :
        \/ a = <<>> /\ b = <<>> /\ Make("string", StringInitEx(capacity, Growth, Threshold), FALSE, <<>>)
        \/ a = <<>> /\ b = <<>> /\ capacity > 0 /\ Make("string", StringInitCustomBuffer(capacity), FALSE, <<>>)
        \/ b = <<>> /\ Make("string", StringDuplicateEx(ViewInsideBuffer(a), capacity, Growth, Threshold), FALSE, a)
        \/ b = <<>> /\ MakeWith("string", StringDuplicateCustomBuffer(ViewInsideBuffer(a), capacity), FALSE, a)
        \/ Len(a \o b) <= MaxItems /\ LET v == ViewInsideBuffer(a)  w == ViewInsideBuffer(b) IN
            \/ Make("string", StringConcatEx(v, w, capacity, Growth, Threshold), FALSE, a \o b)
            \/ MakeWith("string", StringConcatCustomBuffer(v, w, capacity), FALSE, a \o b)
    BY DEF CreateString
  <1>2. capacity \in Nat /\ Junk \in Characters /\ Values \subseteq Characters
    BY ContainerAssumption, CharactersKnown DEF Sizes
  <1>3. ASSUME NEW t \in Texts
        PROVE  t \in Seq(Characters) /\ Len(t) \in Nat
    <2>1. PICK n \in 0..2 : t \in [1..n -> Values]
      BY DEF Texts
    <2>2. t \in [1..n -> Characters] /\ n \in Nat
      BY <1>2, <2>1
    <2> QED  BY <2>2
  <1> DEFINE av == ViewInsideBuffer(a)
             bv == ViewInsideBuffer(b)
             ab == a \o b
  <1>4. Text(av) = a /\ av.size = Len(a) + 1 /\ Text(bv) = b /\ a \in Seq(Characters) /\ Len(a) \in Nat
    BY <1>3, View
  <1>5. ab \in Seq(Characters) /\ Len(ab) \in Nat
    BY <1>3, ConcatProperties
  <1> HIDE DEF av, bv, ab
  <1>6. ASSUME NEW n \in Nat
        PROVE  LET w == StringInitEx(n, Growth, Threshold) IN
               w \in VectorsOf(Characters) /\ Fit(w) /\ Ended(w) /\ Text(w) = <<>> /\ n < Len(w.cells)
    <2> DEFINE m == AtLeast(MinStringCapacity, n) + 1
               e == VectorInitEx(m, Growth, Threshold)
    <2>1. m \in Nat /\ n < m
      BY DEF AtLeast, MinStringCapacity
    <2>2. StringInitEx(n, Growth, Threshold) = Emptied(e)
      BY DEF StringInitEx
    <2> HIDE DEF m
    <2>3. e \in VectorsOf(Characters) /\ Fit(e) /\ m <= Len(e.cells) /\ Len(e.cells) \in Nat
      <3>1. e \in VectorsOf(Characters) /\ Fit(e) /\ m <= Len(e.cells)
        BY <1>2, <2>1, NewVectors
      <3> QED  BY <3>1 DEF VectorsOf, VectorOf
    <2> HIDE DEF e
    <2> DEFINE w == Emptied(e)
    <2>4. w \in VectorsOf(Characters) /\ Fit(w) /\ Ended(w) /\ Text(w) = <<>> /\ Len(w.cells) = Len(e.cells)
      BY <2>3, EmptiedVector
    <2> HIDE DEF w
    <2>5. n < Len(w.cells)
      BY <2>1, <2>3, <2>4
    <2> QED  BY <2>2, <2>4, <2>5 DEF w
  <1>7. ASSUME NEW n \in Nat, n > 0
        PROVE  LET w == StringInitCustomBuffer(n) IN
               w \in VectorsOf(Characters) /\ Fit(w) /\ Ended(w) /\ Text(w) = <<>> /\ Len(w.cells) = n
    <2> DEFINE e == VectorInitCustomBuffer(n)
    <2>1. StringInitCustomBuffer(n) = Emptied(e)
      BY DEF StringInitCustomBuffer
    <2>2. e \in VectorsOf(Characters) /\ Fit(e) /\ Len(e.cells) = n
      BY <1>2, <1>7, NewVectors
    <2> HIDE DEF e
    <2> DEFINE w == Emptied(e)
    <2>3. w \in VectorsOf(Characters) /\ Fit(w) /\ Ended(w) /\ Text(w) = <<>> /\ Len(w.cells) = Len(e.cells)
      BY <2>2, EmptiedVector
    <2> HIDE DEF w
    <2> QED  BY <2>1, <2>2, <2>3 DEF w
  (* A new string of the text t, with room for n characters or in n cells *)
  <1>8. ASSUME NEW t \in Seq(Characters), NEW n \in Nat, Len(t) <= n,
               Make("string", Holding(StringInitEx(n, Growth, Threshold), t), FALSE, t)
        PROVE  Abstract!Answered /\ StringInv' /\ kind' = "string"
    <2> DEFINE e == StringInitEx(n, Growth, Threshold)
               w == Holding(e, t)
    <2>1. e \in VectorsOf(Characters) /\ Fit(e) /\ n < Len(e.cells) /\ Len(e.cells) \in Nat
      <3>1. e \in VectorsOf(Characters) /\ Fit(e) /\ n < Len(e.cells)
        BY <1>6
      <3> QED  BY <3>1 DEF VectorsOf, VectorOf
    <2>2. Make("string", w, FALSE, t)
      BY <1>8
    <2> HIDE DEF e
    <2>3. w \in VectorsOf(Characters) /\ Fit(w) /\ Ended(w) /\ Text(w) = t
      <3>1. Len(t) < Len(e.cells)
        BY <1>8, <2>1
      <3> QED  BY <2>1, <3>1, HoldingVector
    <2> HIDE DEF w
    <2> QED  BY <2>2, <2>3, MadeString
  <1>9. ASSUME NEW t \in Seq(Characters), NEW n \in Nat, Len(t) < n,
               Make("string", Holding(StringInitCustomBuffer(n), t), FALSE, t)
        PROVE  Abstract!Answered /\ StringInv' /\ kind' = "string"
    <2> DEFINE e == StringInitCustomBuffer(n)
               w == Holding(e, t)
    <2>1. e \in VectorsOf(Characters) /\ Fit(e) /\ Len(e.cells) = n
      <3>1. n > 0
        BY <1>9
      <3> QED  BY <1>7, <3>1
    <2>2. Make("string", w, FALSE, t)
      BY <1>9
    <2> HIDE DEF e
    <2>3. w \in VectorsOf(Characters) /\ Fit(w) /\ Ended(w) /\ Text(w) = t
      <3>1. Len(t) < Len(e.cells)
        BY <1>9, <2>1
      <3> QED  BY <2>1, <3>1, HoldingVector
    <2> HIDE DEF w
    <2> QED  BY <2>2, <2>3, MadeString
  <1>10. CASE Make("string", StringInitEx(capacity, Growth, Threshold), FALSE, <<>>)
    BY <1>2, <1>6, <1>10, MadeString
  <1>11. CASE capacity > 0 /\ Make("string", StringInitCustomBuffer(capacity), FALSE, <<>>)
    BY <1>2, <1>7, <1>11, MadeString
  <1>12. CASE Make("string", StringDuplicateEx(av, capacity, Growth, Threshold), FALSE, a)
    <2> DEFINE n == AtLeast(av.size - 1, capacity)
    <2>1. n \in Nat /\ Len(a) <= n
      BY <1>2, <1>4 DEF AtLeast
    <2>2. Make("string", Holding(StringInitEx(n, Growth, Threshold), a), FALSE, a)
      BY <1>4, <1>12 DEF StringDuplicateEx
    <2> HIDE DEF n
    <2> QED  BY <1>4, <1>8, <2>1, <2>2
  <1>13. CASE MakeWith("string", StringDuplicateCustomBuffer(av, capacity), FALSE, a)
    <2>1. ~(capacity < av.size) /\ Make("string", Holding(StringInitCustomBuffer(capacity), a), FALSE, a)
      BY <1>4, <1>13 DEF MakeWith, StringDuplicateCustomBuffer, Fails, Success, Result
    <2>2. Len(a) < capacity
      BY <1>2, <1>4, <2>1
    <2> QED  BY <1>2, <1>4, <1>9, <2>1, <2>2
  <1>14. CASE Make("string", StringConcatEx(av, bv, capacity, Growth, Threshold), FALSE, ab)
    <2> DEFINE n == AtLeast(Len(ab), capacity)
    <2>1. n \in Nat /\ Len(ab) <= n
      BY <1>2, <1>5 DEF AtLeast
    <2>2. Make("string", Holding(StringInitEx(n, Growth, Threshold), ab), FALSE, ab)
      BY <1>4, <1>14 DEF StringConcatEx, ab
    <2> HIDE DEF n
    <2> QED  BY <1>5, <1>8, <2>1, <2>2
  <1>15. CASE MakeWith("string", StringConcatCustomBuffer(av, bv, capacity), FALSE, ab)
    <2>1. ~(capacity <= Len(ab)) /\ Make("string", Holding(StringInitCustomBuffer(capacity), ab), FALSE, ab)
      BY <1>4, <1>15 DEF MakeWith, StringConcatCustomBuffer, Fails, Success, Result, ab
    <2>2. Len(ab) < capacity
      BY <1>2, <1>5, <2>1
    <2> QED  BY <1>2, <1>5, <1>9, <2>1, <2>2
  <1> QED  BY <1>1, <1>10, <1>11, <1>12, <1>13, <1>14, <1>15 DEF av, bv, ab

-----------------------------------------------------------------------------
(* Places of bits *)

LEMMA Products ==
    ASSUME NEW w \in Nat \ {0}, NEW a \in Nat, NEW b \in Nat
    PROVE  /\ w * a \in Nat
           /\ a <= b => w * a <= w * b
           /\ a < b => w * a + w <= w * b
           /\ w * (a + 1) = w * a + w
           /\ w * 0 = 0 /\ a * w = w * a
  <1>1. w * a \in Nat /\ w * (a + 1) = w * a + w /\ w * 0 = 0 /\ a * w = w * a
    OBVIOUS
  <1>2. ASSUME a <= b
        PROVE  w * a <= w * b
    BY <1>2
  <1>3. ASSUME a < b
        PROVE  w * a + w <= w * b
    <2>1. w * (a + 1) <= w * b
      BY <1>3
    <2> QED  BY <1>1, <2>1
  <1> QED  BY <1>1, <1>2, <1>3

LEMMA Division ==
    ASSUME NEW w \in Nat \ {0}, NEW n \in Nat
    PROVE  n \div w \in Nat /\ n % w \in Nat /\ n % w < w /\ n = w * (n \div w) + (n % w)
  <1>1. w \in Nat /\ w > 0
    OBVIOUS
  <1>2. n = w * (n \div w) + (n % w)
    BY <1>1
  <1>3. n % w \in Nat /\ n % w < w
    BY <1>1
  <1>4. n \div w \in Nat
    <2>1. n \div w \in Int
      BY <1>1
    <2>2. n \div w < 0 => w * (n \div w) <= -w
      BY <1>1
    <2>3. n \div w < 0 => n < 0
      <3> DEFINE x == w * (n \div w)
                 q == n \div w
      <3>1. x \in Int /\ (q < 0 => x <= -w) /\ n = x + (n % w)
        BY <1>1, <1>2, <2>1, <2>2
      <3> HIDE DEF x
      <3> QED  BY <1>1, <1>3, <3>1
    <2> QED  BY <2>1, <2>3
  <1> QED  BY <1>2, <1>3, <1>4

(* There is one quotient. *)
LEMMA OneQuotient ==
    ASSUME NEW w \in Nat \ {0}, NEW a \in Nat, NEW b \in Nat, NEW r \in Nat, r < w, NEW s \in Nat, s < w,
           w * a + r = w * b + s
    PROVE  a = b /\ r = s
  <1>1. a < b => w * a + w <= w * b
    BY Products
  <1>2. b < a => w * b + w <= w * a
    BY Products
  <1>3. w * a \in Nat /\ w * b \in Nat
    BY Products
  <1>4. a = b
    <2> DEFINE x == w * a
               y == w * b
    <2>1. x \in Nat /\ y \in Nat /\ (a < b => x + w <= y) /\ (b < a => y + w <= x) /\ x + r = y + s
      BY <1>1, <1>2, <1>3
    <2> HIDE DEF x, y
    <2> QED  BY <2>1
  <1> QED  BY <1>3, <1>4

LEMMA Quotient ==
    ASSUME NEW w \in Nat \ {0}, NEW q \in Nat, NEW r \in Nat, r < w
    PROVE  (w * q + r) \div w = q /\ (w * q + r) % w = r
  <1> DEFINE n == w * q + r
  <1>1. n \in Nat
    BY Products
  <1>2. n = w * q + r
    OBVIOUS
  <1> HIDE DEF n
  <1>3. n \div w \in Nat /\ n % w \in Nat /\ n % w < w /\ n = w * (n \div w) + (n % w)
    BY <1>1, Division
  <1> DEFINE b == n \div w
             s == n % w
  <1>4. b \in Nat /\ s \in Nat /\ s < w /\ w * q + r = w * b + s
    BY <1>2, <1>3
  <1> HIDE DEF b, s
  <1>5. q = b /\ r = s
    BY <1>4, OneQuotient
  <1> QED  BY <1>5 DEF b, s, n

(* The k-th bit is one of the bits of this byte. *)
ByteAt(k) == ((k - 1) \div Width) + 1
BitAt(k) == ((k - 1) % Width) + 1

LEMMA Places ==
    ASSUME NEW k \in Nat, k >= 1
    PROVE  /\ ByteAt(k) \in Nat /\ ByteAt(k) >= 1 /\ BitAt(k) \in 1..Width
           /\ k = Width * (ByteAt(k) - 1) + BitAt(k)
           /\ \A p \in Nat : k <= Width * p => ByteAt(k) <= p
  <1> DEFINE n == k - 1
             q == n \div Width
             r == n % Width
  <1>1. n \in Nat /\ Width \in Nat \ {0}
    BY ContainerAssumption
  <1>2. ByteAt(k) = q + 1 /\ BitAt(k) = r + 1 /\ k = n + 1
    BY DEF ByteAt, BitAt
  <1> HIDE DEF n
  <1>3. q \in Nat /\ r \in Nat /\ r < Width /\ n = Width * q + r
    BY <1>1, Division
  <1> HIDE DEF q, r
  <1>4. ByteAt(k) \in Nat /\ ByteAt(k) >= 1 /\ BitAt(k) \in 1..Width /\ ByteAt(k) - 1 = q
    BY <1>1, <1>2, <1>3
  <1>5. k = Width * (ByteAt(k) - 1) + BitAt(k)
    <2> DEFINE x == Width * q
    <2>1. x \in Nat /\ n = x + r
      BY <1>1, <1>3, Products
    <2> HIDE DEF x
    <2>2. k = x + BitAt(k)
      BY <1>1, <1>2, <1>3, <2>1
    <2> QED  BY <1>4, <2>2 DEF x
  <1>6. ASSUME NEW p \in Nat, k <= Width * p
        PROVE  ByteAt(k) <= p
    <2> DEFINE x == Width * q
               y == Width * p
    <2>1. x \in Nat /\ y \in Nat /\ (p <= q => y <= x) /\ n = x + r /\ k <= y
      BY <1>1, <1>3, <1>6, Products
    <2> HIDE DEF x, y
    <2> QED  BY <1>1, <1>2, <1>3, <2>1
  <1> QED  BY <1>4, <1>5, <1>6

Byte == [1..Width -> {0, 1}]
Bytes == Byte \cup {Junk}

(* A bitset, whether it can be used or not, all of whose bytes were written *)
BitsetsOf == [size : Nat, bits : VectorsOf(Bytes)]
Stored(v) == \A k \in 1..v.size : v.cells[k] \in Byte

(* As many bytes as the bits need *)
Covered(b) == b.size <= Width * b.bits.size /\ Width * b.bits.size < b.size + Width

BitsetKept(b) == b \in BitsetsOf /\ Stored(b.bits) /\ (b.bits.memory => Fit(b.bits))

BitsetInv == kind = "bitset" => BitsetKept(body) /\ Covered(body) /\ watched = FALSE

(* A set that has gone adrift is in its memory all the same. *)
AdriftInv == kind = "adrift" => BitsetKept(body) /\ watched = FALSE

(* The k-th bit of what a vector of bytes holds *)
BitIn(v, k) == v.cells[ByteAt(k)][BitAt(k)]

LEMMA BitsOfBitset ==
    ASSUME NEW b \in BitsetsOf, Stored(b.bits),
           NEW n, n = (IF b.size < Width * b.bits.size THEN b.size ELSE Width * b.bits.size)
    PROVE  /\ n \in Nat /\ Bits(b) \in Seq({0, 1}) /\ Len(Bits(b)) = n
           /\ \A k \in 1..n : Bits(b)[k] = BitIn(b.bits, k) /\ BitIn(b.bits, k) \in {0, 1}
  <1>1. b.size \in Nat /\ b.bits.size \in Nat
    BY DEF BitsetsOf, VectorsOf, VectorOf
  <1>2. Width * b.bits.size \in Nat
    BY <1>1, Products, ContainerAssumption
  <1>3. n \in Nat /\ n <= Width * b.bits.size
    BY <1>1, <1>2
  <1>4. Bits(b) = [k \in 1..n |-> BitIn(b.bits, k)]
    BY DEF Bits, BitIn, ByteAt, BitAt
  <1>5. \A k \in 1..n : BitIn(b.bits, k) \in {0, 1}
    <2> TAKE k \in 1..n
    <2>1. k \in Nat /\ k >= 1 /\ k <= Width * b.bits.size
      BY <1>2, <1>3
    <2>2. ByteAt(k) \in 1..b.bits.size /\ BitAt(k) \in 1..Width
      BY <1>1, <2>1, Places
    <2>3. b.bits.cells[ByteAt(k)] \in Byte
      BY <2>2 DEF Stored
    <2> QED  BY <2>2, <2>3 DEF BitIn, Byte
  <1> HIDE DEF Bits
  <1> QED  BY <1>3, <1>4, <1>5

(* The bitset that a call is made on *)
BitsetMeant(b) ==
    /\ watched = FALSE
    /\ b \in BitsetsOf /\ Stored(b.bits) /\ Fit(b.bits)
    /\ b.size = body.size /\ b.bits.cells = body.bits.cells /\ b.bits.size = body.bits.size
    /\ b.bits.capacity = body.bits.capacity /\ b.bits.dynamic = body.bits.dynamic

BitsetCalled(b) == kind = "bitset" /\ BitsetMeant(b) /\ Covered(b)
AdriftCalled(b) == kind = "adrift" /\ BitsetMeant(b)

LEMMA BitsetForCall ==
    ASSUME kind \in {"bitset", "adrift"}, BitsetInv, AdriftInv, ~Spent(body.bits), NEW v \in MemoryFor(body.bits)
    PROVE  LET b == WithBits(body, v) IN
           /\ BitsetMeant(b)
           /\ kind = "bitset" => BitsetCalled(b)
           /\ kind = "adrift" => AdriftCalled(b)
  <1> DEFINE b == WithBits(body, v)
  <1>1. BitsetKept(body) /\ watched = FALSE /\ (kind = "bitset" => Covered(body))
    BY DEF BitsetInv, AdriftInv
  <1>2. body \in BitsetsOf /\ body.bits \in VectorsOf(Bytes) /\ body.bits \in VectorOf(Bytes)
    BY <1>1 DEF BitsetKept, BitsetsOf, VectorsOf
  <1>3. Stored(body.bits) /\ Fit(body.bits)
    BY <1>1, <1>2 DEF BitsetKept, Spent
  <1>4. PICK m \in BOOLEAN : v = [body.bits EXCEPT !.memory = m] /\ (~body.bits.dynamic => m)
    BY <1>2 DEF MemoryFor
  <1>5. /\ v \in VectorOf(Bytes) /\ v.cells = body.bits.cells /\ v.size = body.bits.size
        /\ v.capacity = body.bits.capacity /\ v.dynamic = body.bits.dynamic
        /\ v.growth = body.bits.growth /\ v.threshold = body.bits.threshold /\ v.memory = m
    BY <1>2, <1>4 DEF VectorOf
  <1>6. v \in VectorsOf(Bytes) /\ Fit(v)
    BY <1>2, <1>3, <1>4, <1>5 DEF VectorsOf, Sound, Settled, Fit
  <1>7. b = [size |-> body.size, bits |-> v] /\ body.size \in Nat
    BY <1>2 DEF WithBits, BitsetsOf
  <1>8. Stored(v)
    BY <1>3, <1>5 DEF Stored
  <1>9. b.size = body.size /\ b.bits = v /\ b \in BitsetsOf
    BY <1>6, <1>7 DEF BitsetsOf
  <1> HIDE DEF b
  <1>10. BitsetMeant(b)
    BY <1>1, <1>5, <1>6, <1>8, <1>9 DEF BitsetMeant
  <1>11. Covered(b) <=> Covered(body)
    BY <1>5, <1>9 DEF Covered
  <1> QED  BY <1>1, <1>10, <1>11 DEF BitsetCalled, AdriftCalled, b

LEMMA BitsetHeld ==
    ASSUME NEW b, BitsetCalled(b)
    PROVE  /\ Held \in Seq({0, 1}) /\ Len(Held) = b.size /\ b.size \in Nat /\ b.bits.size \in Nat
           /\ Held = Bits(b)
           /\ \A k \in 1..b.size : Held[k] = BitIn(b.bits, k) /\ BitIn(b.bits, k) \in {0, 1} /\ Bits(b)[k] = Held[k]
           /\ b.bits.dynamic => Limit = Unlimited
           /\ ~b.bits.dynamic => /\ Limit = Width * b.bits.capacity /\ Limit # Unlimited
                                 /\ Limit \in Nat /\ Len(Held) <= Limit
  <1>1. /\ b \in BitsetsOf /\ Stored(b.bits) /\ b.size = body.size /\ b.size \in Nat
        /\ b.bits.size \in Nat /\ b.bits.capacity \in Nat /\ b.bits.size <= b.bits.capacity
        /\ b.bits.dynamic \in BOOLEAN
    BY DEF BitsetCalled, BitsetMeant, BitsetsOf, VectorsOf, VectorOf, Sound
  <1>2. Width \in Nat \ {0} /\ Unlimited \notin Nat
    BY ContainerAssumption
  <1>3. b.size <= Width * b.bits.size /\ Width * b.bits.size \in Nat
    BY <1>1, <1>2, Products DEF BitsetCalled, BitsetMeant, Covered
  <1>4. b.size = (IF b.size < Width * b.bits.size THEN b.size ELSE Width * b.bits.size)
    BY <1>1, <1>3
  <1>5. /\ Bits(b) \in Seq({0, 1}) /\ Len(Bits(b)) = b.size
        /\ \A k \in 1..b.size : Bits(b)[k] = BitIn(b.bits, k) /\ BitIn(b.bits, k) \in {0, 1}
    BY <1>1, <1>4, BitsOfBitset
  <1>6. Held = Bits(body) /\ Bits(body) = Bits(b)
    BY DEF BitsetCalled, BitsetMeant, Held, Bits
  <1>7. ASSUME ~b.bits.dynamic
        PROVE  Limit = Width * b.bits.capacity /\ Limit # Unlimited /\ Limit \in Nat /\ Len(Held) <= Limit
    <2>1. Limit = b.bits.capacity * Width
      BY <1>7 DEF Limit, BitsetCalled, BitsetMeant
    <2> DEFINE x == Width * b.bits.size
               y == Width * b.bits.capacity
    <2>2. x \in Nat /\ y \in Nat /\ x <= y /\ b.bits.capacity * Width = y
      BY <1>1, <1>2, Products
    <2> HIDE DEF y
    <2>3. b.size <= x
      BY <1>3
    <2> HIDE DEF x
    <2> QED  BY <1>1, <1>2, <1>5, <1>6, <2>1, <2>2, <2>3 DEF y
  <1>8. b.bits.dynamic => Limit = Unlimited
    BY DEF Limit, BitsetCalled, BitsetMeant
  <1> QED  BY <1>1, <1>5, <1>6, <1>7, <1>8

LEMMA BitsetReturns ==
    ASSUME NEW op, NEW at, NEW count, NEW new, NEW st, NEW w, NEW out, NEW r, r = Result(st, w, out),
           BitsetReturned(Operation(op, at, count, new), r)
    PROVE  /\ body' = [w EXCEPT !.bits.memory = st # "NOT_ENOUGH_MEMORY"]
           /\ Calls(op, at, count, new, st, out) /\ watched' = watched
           /\ kind' = IF Backed(w) THEN kind ELSE "adrift"
  BY DEF BitsetReturned, Called, Calls, Result

LEMMA CoveredBacked ==
    ASSUME NEW w, Covered(w)
    PROVE  Backed(w)
  BY DEF Covered, Backed

(* A set without a destructor gives nothing to one. *)
LEMMA NothingDropped ==
    ASSUME watched = FALSE, NEW op, NEW at, NEW count, NEW new, NEW st, NEW out, NEW other,
           Calls(op, at, count, new, st, out)
    PROVE  Calls(op, at, count, new, st, other)
  BY DEF Calls

(* A bitset of which only the memory changes *)
LEMMA BitsetAfter ==
    ASSUME NEW w \in BitsetsOf, NEW m \in BOOLEAN, ~w.bits.dynamic => m
    PROVE  LET u == [w EXCEPT !.bits.memory = m] IN
           /\ u \in BitsetsOf /\ u.size = w.size /\ (Fit(w.bits) => Fit(u.bits)) /\ (Stored(w.bits) => Stored(u.bits))
           /\ u.bits.cells = w.bits.cells /\ u.bits.size = w.bits.size /\ u.bits.capacity = w.bits.capacity
           /\ u.bits.dynamic = w.bits.dynamic /\ u.bits.memory = m
           /\ Covered(u) = Covered(w) /\ Bits(u) = Bits(w)
  <1> DEFINE v == w.bits
             x == [v EXCEPT !.memory = m]
             u == [w EXCEPT !.bits.memory = m]
  <1>1. w = [size |-> w.size, bits |-> v] /\ w.size \in Nat /\ v \in VectorsOf(Bytes) /\ v \in VectorOf(Bytes)
    BY DEF BitsetsOf, VectorsOf
  <1>2. u = [size |-> w.size, bits |-> x]
    BY <1>1
  <1>3. /\ x \in VectorOf(Bytes) /\ x.cells = v.cells /\ x.size = v.size /\ x.capacity = v.capacity
        /\ x.dynamic = v.dynamic /\ x.growth = v.growth /\ x.threshold = v.threshold /\ x.memory = m
    BY <1>1 DEF VectorOf
  <1>4. x \in VectorsOf(Bytes) /\ (Fit(v) => Fit(x))
    BY <1>1, <1>3 DEF VectorsOf, Sound, Settled, Fit
  <1>5. Stored(v) => Stored(x)
    BY <1>3 DEF Stored
  <1>6. u.size = w.size /\ u.bits = x /\ u \in BitsetsOf
    BY <1>1, <1>2, <1>4 DEF BitsetsOf
  <1> HIDE DEF u, x
  <1>7. Covered(u) = Covered(w) /\ Bits(u) = Bits(w)
    BY <1>3, <1>6 DEF Covered, Bits
  <1> QED  BY <1>3, <1>4, <1>5, <1>6, <1>7 DEF u

(* A call that leaves w *)
BitsetLeft(w) ==
    /\ Steady /\ BitsetInv' /\ kind' = kind
    /\ Held' \in Seq({0, 1}) /\ Len(Held') = w.size /\ w.size \in Nat
    /\ \A k \in 1..w.size : Held'[k] = BitIn(w.bits, k)

LEMMA BitsetLeaves ==
    ASSUME NEW b, BitsetCalled(b),
           NEW w \in BitsetsOf, Kin(b.bits, w.bits), Fit(w.bits), Stored(w.bits), Covered(w),
           NEW op, NEW at, NEW count, NEW new, NEW st, st # "NOT_ENOUGH_MEMORY", NEW r, r = Result(st, w, <<>>),
           BitsetReturned(Operation(op, at, count, new), r)
    PROVE  (\A out : Calls(op, at, count, new, st, out)) /\ BitsetLeft(w)
  <1> DEFINE m == st # "NOT_ENOUGH_MEMORY"
             u == [w EXCEPT !.bits.memory = m]
  <1>1. m = TRUE /\ m \in BOOLEAN
    OBVIOUS
  <1>2. body' = u /\ Calls(op, at, count, new, st, <<>>) /\ kind' = kind /\ watched' = watched
    BY CoveredBacked, BitsetReturns
  <1> HIDE DEF m
  <1>3. /\ u \in BitsetsOf /\ u.size = w.size /\ (Fit(w.bits) => Fit(u.bits)) /\ (Stored(w.bits) => Stored(u.bits))
        /\ u.bits.cells = w.bits.cells /\ u.bits.size = w.bits.size /\ u.bits.capacity = w.bits.capacity
        /\ u.bits.dynamic = w.bits.dynamic /\ u.bits.memory = m
        /\ Covered(u) = Covered(w) /\ Bits(u) = Bits(w)
    BY <1>1, BitsetAfter
  <1> HIDE DEF u
  <1>4. kind = "bitset" /\ watched = FALSE
    BY DEF BitsetCalled, BitsetMeant
  <1>5. BitsetInv'
    <2>1. BitsetKept(u) /\ Covered(u)
      BY <1>3 DEF BitsetKept
    <2> QED  BY <1>2, <1>4, <2>1 DEF BitsetInv
  <1>6. Limit' = Limit
    <2>1. w.bits.dynamic = body.bits.dynamic /\ (~body.bits.dynamic => w.bits.capacity = body.bits.capacity)
      BY DEF Kin, BitsetCalled, BitsetMeant
    <2> QED  BY <1>2, <1>3, <1>4, <2>1 DEF Limit
  <1>7. Held' = Bits(w) /\ Held' = Bits(u)
    BY <1>2, <1>3, <1>4 DEF Held
  <1>8. w.size \in Nat /\ w.size = (IF w.size < Width * w.bits.size THEN w.size ELSE Width * w.bits.size)
    <2>1. w.size \in Nat /\ w.bits.size \in Nat
      BY DEF BitsetsOf, VectorsOf, VectorOf
    <2>2. Width * w.bits.size \in Nat
      BY <2>1, Products, ContainerAssumption
    <2> QED  BY <2>1, <2>2 DEF Covered
  <1>9. /\ Bits(w) \in Seq({0, 1}) /\ Len(Bits(w)) = w.size
        /\ \A k \in 1..w.size : Bits(w)[k] = BitIn(w.bits, k)
    BY <1>8, BitsOfBitset
  <1>10. \A out : Calls(op, at, count, new, st, out)
    BY <1>2, <1>4, NothingDropped
  <1> QED  BY <1>2, <1>5, <1>6, <1>7, <1>8, <1>9, <1>10 DEF BitsetLeft, Steady

LEMMA BitsetTurned ==
    ASSUME NEW b, BitsetCalled(b), NEW op, NEW at, NEW count, NEW new, NEW st, st # "NOT_ENOUGH_MEMORY",
           BitsetReturned(Operation(op, at, count, new), Fails(st, b))
    PROVE  Turned(op, at, count, new, st) /\ BitsetInv' /\ kind' = kind
  <1> DEFINE r == Fails(st, b)
  <1>1. /\ Held \in Seq({0, 1}) /\ Len(Held) = b.size /\ \A k \in 1..b.size : Held[k] = BitIn(b.bits, k)
    BY BitsetHeld
  <1>2. r = Result(st, b, <<>>) /\ BitsetReturned(Operation(op, at, count, new), r)
    BY DEF Fails
  <1> HIDE DEF r
  <1>3. b \in BitsetsOf /\ Kin(b.bits, b.bits) /\ Fit(b.bits) /\ Stored(b.bits) /\ Covered(b)
    BY DEF BitsetCalled, BitsetMeant, Kin
  <1>4. (\A out : Calls(op, at, count, new, st, out)) /\ BitsetLeft(b)
    BY <1>2, <1>3, BitsetLeaves
  <1> DEFINE h == Held
             t == Held'
  <1>5. h \in Seq({0, 1}) /\ t \in Seq({0, 1}) /\ Len(h) = Len(t) /\ \A k \in 1..Len(h) : h[k] = t[k]
    BY <1>1, <1>4 DEF BitsetLeft
  <1> HIDE DEF h, t
  <1>6. h = t
    BY <1>5, SameSequence
  <1> QED  BY <1>4, <1>6 DEF h, t, Turned, BitsetLeft

(* A call for whose bytes there is no memory *)
LEMMA BitsetFails ==
    ASSUME NEW b, BitsetCalled(b), b.bits.dynamic, NEW w \in BitsetsOf, w.size = b.size,
           w.bits.cells = b.bits.cells, w.bits.size = b.bits.size, w.bits.dynamic = b.bits.dynamic,
           NEW op, NEW at, NEW count, NEW new,
           NEW r, r = Result("NOT_ENOUGH_MEMORY", w, <<>>), BitsetReturned(Operation(op, at, count, new), r)
    PROVE  Turned(op, at, count, new, "NOT_ENOUGH_MEMORY") /\ BitsetInv' /\ kind' = kind
  <1> DEFINE st == "NOT_ENOUGH_MEMORY"
             m == st # "NOT_ENOUGH_MEMORY"
             u == [w EXCEPT !.bits.memory = m]
  <1>0. Covered(w) /\ st = "NOT_ENOUGH_MEMORY"
    BY DEF BitsetCalled, Covered
  <1>1. m = FALSE /\ m \in BOOLEAN /\ (~w.bits.dynamic => m)
    OBVIOUS
  <1> HIDE DEF st
  <1>2. body' = u /\ Calls(op, at, count, new, st, <<>>) /\ kind' = kind /\ watched' = watched
    BY <1>0, CoveredBacked, BitsetReturns
  <1> HIDE DEF m
  <1>4. /\ u \in BitsetsOf /\ u.size = w.size /\ (Stored(w.bits) => Stored(u.bits))
        /\ u.bits.cells = w.bits.cells /\ u.bits.size = w.bits.size
        /\ u.bits.dynamic = w.bits.dynamic /\ u.bits.memory = m
        /\ Covered(u) = Covered(w) /\ Bits(u) = Bits(w)
    BY <1>1, BitsetAfter
  <1> HIDE DEF u
  <1>5. kind = "bitset" /\ watched = FALSE /\ Stored(b.bits) /\ b.bits.dynamic = body.bits.dynamic
    BY DEF BitsetCalled, BitsetMeant
  <1>6. BitsetKept(u) /\ Covered(u)
    <2>1. Stored(w.bits)
      BY <1>5 DEF Stored
    <2> QED  BY <1>0, <1>1, <1>4, <2>1 DEF BitsetKept
  <1>7. BitsetInv'
    BY <1>2, <1>5, <1>6 DEF BitsetInv
  <1>8. Limit' = Limit
    BY <1>2, <1>4, <1>5 DEF Limit
  <1>9. Held' = Held
    <2>1. Held = Bits(body) /\ Bits(body) = Bits(w)
      BY DEF BitsetCalled, BitsetMeant, Held, Bits
    <2>2. Held' = Bits(u)
      BY <1>2, <1>5 DEF Held
    <2> QED  BY <1>4, <2>1, <2>2
  <1> QED  BY <1>0, <1>2, <1>7, <1>8, <1>9 DEF Turned, Steady

(* A call that comes to nothing, except that the bit is counted that there is no *)
(* byte for                                                                      *)
LEMMA BitsetMiscounts ==
    ASSUME NEW b, BitsetCalled(b), b.size = Width * b.bits.size, NEW w \in BitsetsOf, w.size = b.size + 1,
           w.bits.cells = b.bits.cells, w.bits.size = b.bits.size, w.bits.dynamic = b.bits.dynamic,
           NEW at, NEW count, NEW new, NEW st,
           \/ st = "NOT_ENOUGH_MEMORY" /\ b.bits.dynamic
           \/ st = "INSUFFICIENT_BUFFER_SIZE" /\ ~b.bits.dynamic /\ w.bits = b.bits,
           NEW r, r = Result(st, w, <<>>), BitsetReturned(Operation("insert", at, count, new), r),
           Turned("insert", at, count, new, st) => Abstract!Full(call')
    PROVE  Abstract!Miscounted /\ AdriftInv' /\ kind' = "adrift"
  <1> DEFINE m == st # "NOT_ENOUGH_MEMORY"
             u == [w EXCEPT !.bits.memory = m]
  <1>1. m \in BOOLEAN /\ (~w.bits.dynamic => m) /\ (m => w.bits = b.bits)
    OBVIOUS
  <1>2. /\ kind = "bitset" /\ watched = FALSE /\ b.size \in Nat /\ b.bits.size \in Nat /\ Fit(b.bits)
        /\ Stored(b.bits) /\ Width * b.bits.size \in Nat
    BY Products, ContainerAssumption DEF BitsetCalled, BitsetMeant, BitsetsOf, VectorsOf, VectorOf
  <1>3. ~Backed(w)
    BY <1>2 DEF Backed
  <1>4. body' = u /\ Calls("insert", at, count, new, st, <<>>) /\ kind' = "adrift" /\ watched' = watched
    BY <1>3, BitsetReturns
  <1> HIDE DEF m
  <1>5. /\ u \in BitsetsOf /\ u.size = w.size /\ (Fit(w.bits) => Fit(u.bits)) /\ (Stored(w.bits) => Stored(u.bits))
        /\ u.bits.cells = w.bits.cells /\ u.bits.size = w.bits.size /\ u.bits.capacity = w.bits.capacity
        /\ u.bits.dynamic = w.bits.dynamic /\ u.bits.memory = m
        /\ Covered(u) = Covered(w) /\ Bits(u) = Bits(w)
    BY <1>1, BitsetAfter
  <1> HIDE DEF u
  <1>6. AdriftInv'
    <2>1. Stored(w.bits)
      BY <1>2 DEF Stored
    <2>2. m => Fit(w.bits)
      BY <1>1, <1>2
    <2>3. BitsetKept(u)
      BY <1>5, <2>1, <2>2 DEF BitsetKept
    <2> QED  BY <1>2, <1>4, <2>3 DEF AdriftInv
  <1>7. Limit' = Limit
    <2>1. b.bits.dynamic = body.bits.dynamic /\ b.bits.capacity = body.bits.capacity
      BY DEF BitsetCalled, BitsetMeant
    <2>2. ~b.bits.dynamic => w.bits.capacity = b.bits.capacity
      OBVIOUS
    <2> QED  BY <1>2, <1>4, <1>5, <2>1, <2>2 DEF Limit
  <1>8. Bits(w) = Bits(b)
    <2> DEFINE x == Width * b.bits.size
               n == IF b.size < x THEN b.size ELSE x
    <2>1. x \in Nat /\ b.size = x /\ w.size = b.size + 1 /\ Width * w.bits.size = x
      BY <1>2
    <2> HIDE DEF x
    <2>2. (IF w.size < x THEN w.size ELSE x) = n
      BY <1>2, <2>1
    <2> QED  BY <2>1, <2>2 DEF Bits, x
  <1>9. Held' = Held
    <2>1. Held = Bits(body) /\ Bits(body) = Bits(b)
      BY DEF BitsetCalled, BitsetMeant, Held, Bits
    <2>2. Held' = Bits(u)
      BY <1>4 DEF Held
    <2> QED  BY <1>5, <1>8, <2>1, <2>2
  <1>10. Turned("insert", at, count, new, st)
    BY <1>4, <1>7, <1>9 DEF Turned, Steady
  <1>11. Abstract!Full(call')
    BY <1>10
  <1>12. Told' = Told + 1
    <2>1. Told = b.size
      BY <1>2 DEF Told, BitsetCalled, BitsetMeant
    <2>2. Told' = w.size
      BY <1>4, <1>5 DEF Told
    <2> QED  BY <2>1, <2>2
  <1>13. Sort = "bits" /\ Sort' = "adrift"
    BY <1>2, <1>4 DEF Sort
  <1>14. Abstract!Dropped(<<>>)
    BY <1>4, DroppedStep
  <1>15. call'.op = "insert"
    BY <1>4, CallFields
  <1>16. Abstract!Miscounted
    BY <1>4, <1>7, <1>9, <1>11, <1>12, <1>13, <1>14, <1>15 DEF Abstract!Miscounted
  <1> QED  BY <1>4, <1>6, <1>16

(* What a call on a bitset comes to: it does what it is to do, or the set goes *)
(* adrift.                                                                     *)
BitsetDone ==
    /\ Abstract!Answered /\ BitsetInv' /\ kind' = "bitset"
    /\ call'.op = "insert" => call'.status = "SUCCESS"
BitsetAstray == Abstract!Miscounted /\ AdriftInv' /\ kind' = "adrift"

LEMMA BitsetGoes ==
    ASSUME kind = "bitset", Abstract!Answered, BitsetInv', kind' = kind, NEW op, op # "insert", NEW at, NEW count,
           NEW new, NEW r, BitsetReturned(Operation(op, at, count, new), r)
    PROVE  BitsetDone
  BY DEF BitsetDone, BitsetReturned, Called, Operation

-----------------------------------------------------------------------------
(* Bitsets, called *)

WithBit(w, i, x) == [w EXCEPT !.bits.cells[(i \div Width) + 1][(i % Width) + 1] = x]

LEMMA StoredBit ==
    ASSUME NEW w \in BitsetsOf, Fit(w.bits), Stored(w.bits), NEW i \in Nat, i \div Width < w.bits.size, NEW x \in {0, 1}
    PROVE  LET u == WithBit(w, i, x) IN
           /\ u \in BitsetsOf /\ Kin(w.bits, u.bits) /\ Fit(u.bits) /\ Stored(u.bits) /\ Covered(u) = Covered(w)
           /\ u.size = w.size
           /\ \A k \in 1 .. Width * w.bits.size : BitIn(u.bits, k) = IF k = i + 1 THEN x ELSE BitIn(w.bits, k)
  <1> DEFINE a == ByteAt(i + 1)
             c == BitAt(i + 1)
             v == w.bits
             byte == [v.cells[a] EXCEPT ![c] = x]
             cells == [v.cells EXCEPT ![a] = byte]
             z == [v EXCEPT !.cells = cells]
             u == WithBit(w, i, x)
  <1>1. a = (i \div Width) + 1 /\ c = (i % Width) + 1
    <2>1. (i + 1) - 1 = i
      OBVIOUS
    <2> QED  BY <2>1 DEF ByteAt, BitAt
  <1>2. /\ v \in VectorsOf(Bytes) /\ v \in VectorOf(Bytes) /\ v.cells \in Seq(Bytes) /\ Len(v.cells) \in Nat
        /\ w.size \in Nat /\ v.size \in Nat /\ v.size <= Len(v.cells) /\ w = [size |-> w.size, bits |-> v]
        /\ DOMAIN v.cells = 1..Len(v.cells)
    BY DEF BitsetsOf, VectorsOf, VectorOf, Sound
  <1>3. Width * v.size \in Nat /\ Width \in Nat \ {0}
    BY <1>2, Products, ContainerAssumption
  <1>4. ASSUME NEW k \in 1 .. Width * v.size
        PROVE  ByteAt(k) \in 1..v.size /\ BitAt(k) \in 1..Width /\ k = Width * (ByteAt(k) - 1) + BitAt(k)
    <2>1. k \in Nat /\ k >= 1 /\ k <= Width * v.size
      BY <1>2, <1>3, <1>4
    <2> QED  BY <1>2, <2>1, Places
  <1>5. i + 1 \in 1 .. Width * v.size
    <2> DEFINE q == i \div Width
               r == i % Width
               n == Width * q
               all == Width * v.size
    <2>1. q \in Nat /\ r \in Nat /\ r < Width /\ i = n + r /\ q < v.size
      BY <1>3, Division
    <2>2. n \in Nat /\ all \in Nat /\ n + Width <= all
      BY <1>2, <1>3, <2>1, Products
    <2> HIDE DEF q, r, n, all
    <2>3. i + 1 \in 1..all
      BY <1>3, <2>1, <2>2
    <2> QED  BY <2>3 DEF all
  <1>6. a \in 1..v.size /\ c \in 1..Width /\ i + 1 = Width * (a - 1) + c
    BY <1>4, <1>5
  <1>8. u = [size |-> w.size, bits |-> z]
    BY <1>1, <1>2 DEF WithBit
  <1> HIDE DEF a, c, u
  <1>9. byte \in Byte /\ \A j \in 1..Width : byte[j] = IF j = c THEN x ELSE v.cells[a][j]
    <2>1. v.cells[a] \in Byte
      BY <1>6 DEF Stored
    <2> QED  BY <1>6, <2>1 DEF Byte
  <1> HIDE DEF byte
  <1>10. /\ cells \in Seq(Bytes) /\ Len(cells) = Len(v.cells)
         /\ \A j \in 1..Len(v.cells) : cells[j] = IF j = a THEN byte ELSE v.cells[j]
    <2>1. byte \in Bytes /\ a \in 1..Len(v.cells)
      BY <1>2, <1>6, <1>9 DEF Bytes
    <2> QED  BY <1>2, <2>1
  <1> HIDE DEF cells
  <1>11. /\ z \in VectorOf(Bytes) /\ z.cells = cells /\ z.size = v.size /\ z.capacity = v.capacity
         /\ z.growth = v.growth /\ z.threshold = v.threshold /\ z.dynamic = v.dynamic /\ z.memory = v.memory
    BY <1>2, <1>10 DEF VectorOf
  <1> HIDE DEF z
  <1>12. z \in VectorsOf(Bytes) /\ Fit(z) /\ Kin(v, z)
    BY <1>2, <1>10, <1>11 DEF VectorsOf, Sound, Settled, Fit, Kin
  <1>13. Stored(z)
    BY <1>2, <1>9, <1>10, <1>11 DEF Stored
  <1>14. u.size = w.size /\ u.bits = z /\ u \in BitsetsOf
    BY <1>2, <1>8, <1>12 DEF BitsetsOf
  <1>15. Covered(u) = Covered(w)
    BY <1>11, <1>14 DEF Covered
  <1>16. \A k \in 1 .. Width * v.size : BitIn(u.bits, k) = IF k = i + 1 THEN x ELSE BitIn(v, k)
    <2> TAKE k \in 1 .. Width * v.size
    <2>1. ByteAt(k) \in 1..Len(v.cells) /\ BitAt(k) \in 1..Width
      BY <1>2, <1>4
    <2>2. CASE k = i + 1
      BY <1>6, <1>9, <1>10, <1>11, <1>14, <2>1, <2>2 DEF BitIn, a, c
    <2>3. CASE k # i + 1
      <3>1. ~(ByteAt(k) = a /\ BitAt(k) = c)
        BY <1>4, <1>6, <2>3
      <3>2. CASE ByteAt(k) # a
        BY <1>10, <1>11, <1>14, <2>1, <2>3, <3>2 DEF BitIn
      <3>3. CASE ByteAt(k) = a /\ BitAt(k) # c
        BY <1>9, <1>10, <1>11, <1>14, <2>1, <2>3, <3>3 DEF BitIn
      <3> QED  BY <3>1, <3>2, <3>3
    <2> QED  BY <2>2, <2>3
  <1> QED  BY <1>12, <1>13, <1>14, <1>15, <1>16 DEF u

LEMMA OneBit ==
    ASSUME NEW w \in BitsetsOf, Fit(w.bits), Stored(w.bits), Covered(w), NEW i \in Nat, i < w.size, NEW x \in {0, 1}
    PROVE  LET u == WithBit(w, i, x) IN
           /\ u \in BitsetsOf /\ Kin(w.bits, u.bits) /\ Fit(u.bits) /\ Stored(u.bits) /\ Covered(u)
           /\ u.size = w.size /\ VectorGet(w.bits, i \div Width) # <<>>
           /\ \A k \in 1..w.size : BitIn(u.bits, k) = IF k = i + 1 THEN x ELSE BitIn(w.bits, k)
  <1> DEFINE p == w.bits.size
             q == i \div Width
             all == Width * p
  <1>1. w.size \in Nat /\ p \in Nat /\ Width \in Nat \ {0} /\ w.size <= all
    BY ContainerAssumption DEF BitsetsOf, VectorsOf, VectorOf, Covered
  <1>2. q \in Nat /\ i >= Width * q /\ all \in Nat
    <2> DEFINE n == Width * q
               r == i % Width
    <2>1. q \in Nat /\ r \in Nat /\ i = n + r
      BY <1>1, Division
    <2>2. n \in Nat /\ all \in Nat
      BY <1>1, <2>1, Products
    <2> HIDE DEF n, r, q
    <2>3. i >= n
      BY <2>1, <2>2
    <2> QED  BY <2>1, <2>2, <2>3 DEF n
  <1>3. q < p
    <2> DEFINE n == Width * q
    <2>1. p <= q => all <= n
      BY <1>1, <1>2, Products
    <2>2. n \in Nat /\ i >= n
      BY <1>1, <1>2, Products
    <2> HIDE DEF n, all, q
    <2> QED  BY <1>1, <1>2, <2>1, <2>2
  <1>4. VectorGet(w.bits, q) # <<>>
    BY <1>3 DEF VectorGet
  <1>5. \A k \in 1..w.size : k \in 1..all
    BY <1>1, <1>2
  <1> HIDE DEF all
  <1> QED  BY <1>3, <1>4, <1>5, StoredBit DEF all

LEMMA BitChangesStep ==
    ASSUME NEW b, BitsetCalled(b), NEW i \in Nat, NEW x \in {0, 1}, NEW r, BitsetReturned(Overwrite(i, <<x>>), r),
           i >= b.size => r = Fails("OUT_OF_RANGE", b),
           i < b.size => r = Success(WithBit(b, i, x))
    PROVE  Abstract!Answered /\ BitsetInv' /\ kind' = kind
  <1> DEFINE new == <<x>>
  <1>1. new \in Seq({0, 1}) /\ Len(new) = 1 /\ new[1] = x
    OBVIOUS
  <1>2. BitsetReturned(Operation("overwrite", i, 0, new), r)
    BY DEF Overwrite
  <1> HIDE DEF new
  <1>3. /\ Held \in Seq({0, 1}) /\ Len(Held) = b.size /\ b.size \in Nat
        /\ \A k \in 1..b.size : Held[k] = BitIn(b.bits, k)
    BY BitsetHeld
  <1>4. CASE i >= b.size
    <2>1. Turned("overwrite", i, 0, new, "OUT_OF_RANGE") /\ BitsetInv' /\ kind' = kind
      BY <1>2, <1>4, BitsetTurned
    <2>2. i + Len(new) > Len(Held) /\ Len(new) \in Nat /\ Len(Held) \in Nat
      BY <1>1, <1>3, <1>4
    <2>3. Abstract!Answered
      BY <2>1, <2>2, OutOfRangeStep
    <2> QED  BY <2>1, <2>3
  <1>5. CASE i < b.size
    <2> DEFINE w == WithBit(b, i, x)
    <2>1. b \in BitsetsOf /\ Fit(b.bits) /\ Stored(b.bits) /\ Covered(b)
      BY DEF BitsetCalled, BitsetMeant
    <2>2. /\ w \in BitsetsOf /\ Kin(b.bits, w.bits) /\ Fit(w.bits) /\ Stored(w.bits) /\ Covered(w) /\ w.size = b.size
          /\ \A k \in 1..b.size : BitIn(w.bits, k) = IF k = i + 1 THEN x ELSE BitIn(b.bits, k)
      BY <1>5, <2>1, OneBit
    <2>3. r = Result("SUCCESS", w, <<>>)
      BY <1>5 DEF Success
    <2> HIDE DEF w
    <2>4. (\A out : Calls("overwrite", i, 0, new, "SUCCESS", out)) /\ BitsetLeft(w)
      BY <1>2, <2>2, <2>3, BitsetLeaves
    <2> DEFINE out == SubSeq(Held, i + 1, i + Len(new))
    <2>5. Calls("overwrite", i, 0, new, "SUCCESS", out)
      BY <2>4
    <2>6. /\ Steady /\ Held' \in Seq({0, 1}) /\ Len(Held') = Len(Held)
          /\ \A k \in 1..Len(Held) : Held'[k] = IF i < k /\ k <= i + Len(new) THEN new[k - i] ELSE Held[k]
      <3>1. /\ Steady /\ Held' \in Seq({0, 1}) /\ Len(Held') = b.size
            /\ \A k \in 1..b.size : Held'[k] = BitIn(w.bits, k)
        BY <2>2, <2>4 DEF BitsetLeft
      <3>2. ASSUME NEW k \in 1..b.size
            PROVE  Held'[k] = IF i < k /\ k <= i + Len(new) THEN new[k - i] ELSE Held[k]
        <4>1. CASE k = i + 1
          BY <1>1, <1>3, <2>2, <3>1, <4>1
        <4>2. CASE k # i + 1
          <5>1. ~(i < k /\ k <= i + Len(new))
            BY <1>1, <1>3, <4>2
          <5> QED  BY <1>3, <2>2, <3>1, <4>2, <5>1
        <4> QED  BY <4>1, <4>2
      <3> QED  BY <1>3, <3>1, <3>2
    <2>7. i + Len(new) <= Len(Held)
      BY <1>1, <1>3, <1>5
    <2>8. Abstract!Answered
      BY <1>1, <1>3, <2>5, <2>6, <2>7, OverwriteStep
    <2> QED  BY <2>4, <2>8 DEF BitsetLeft
  <1> QED  BY <1>3, <1>4, <1>5

LEMMA BitChangesSteps ==
    ASSUME NEW b, BitsetCalled(b), BitChanges(b)
    PROVE  Abstract!Answered /\ BitsetInv' /\ kind' = kind
  <1>1. /\ b.size \in Nat /\ Len(Bits(b)) = b.size
        /\ \A k \in 1..b.size : BitIn(b.bits, k) \in {0, 1} /\ Bits(b)[k] = BitIn(b.bits, k)
        /\ b \in BitsetsOf /\ Fit(b.bits) /\ Stored(b.bits) /\ Covered(b)
    BY BitsetHeld DEF BitsetCalled, BitsetMeant
  <1>2. PICK i \in 0 .. b.size :
        \/ BitsetReturned(Overwrite(i, <<1>>), BitsetSet(b, i))
        \/ BitsetReturned(Overwrite(i, <<0>>), BitsetReset(b, i))
        \/ BitsetReturned(Overwrite(i, <<IF i < Len(Bits(b)) THEN 1 - Bits(b)[i + 1] ELSE 0>>), BitsetToggle(b, i))
        \/ \E bit \in {0, 1} : BitsetReturned(Overwrite(i, <<bit>>), BitsetAssign(b, i, bit))
    BY DEF BitChanges
  <1>3. i \in Nat
    BY <1>1
  <1>4. i < b.size => VectorGet(b.bits, i \div Width) # <<>>
    BY <1>1, <1>3, OneBit
  <1>5. ASSUME NEW x \in {0, 1}, NEW r, r = BitsetAssign(b, i, x)
        PROVE  /\ i >= b.size => r = Fails("OUT_OF_RANGE", b)
               /\ i < b.size => r = Success(WithBit(b, i, x))
    <2>1. CASE x = 1
      BY <1>1, <1>3, <1>4, <1>5, <2>1 DEF BitsetAssign, BitsetSet, BitChanged, WithBit
    <2>2. CASE x = 0
      BY <1>1, <1>3, <1>4, <1>5, <2>2 DEF BitsetAssign, BitsetReset, BitChanged, WithBit
    <2> QED  BY <2>1, <2>2
  <1>6. ASSUME NEW x \in {0, 1}, BitsetReturned(Overwrite(i, <<x>>), BitsetAssign(b, i, x))
        PROVE  Abstract!Answered /\ BitsetInv' /\ kind' = kind
    <2> DEFINE r == BitsetAssign(b, i, x)
    <2>1. /\ BitsetReturned(Overwrite(i, <<x>>), r)
          /\ i >= b.size => r = Fails("OUT_OF_RANGE", b)
          /\ i < b.size => r = Success(WithBit(b, i, x))
      BY <1>5, <1>6
    <2> HIDE DEF r
    <2> QED  BY <1>3, <2>1, BitChangesStep
  <1>7. CASE BitsetReturned(Overwrite(i, <<1>>), BitsetSet(b, i))
    <2>1. BitsetAssign(b, i, 1) = BitsetSet(b, i)
      BY DEF BitsetAssign
    <2> QED  BY <1>6, <1>7, <2>1
  <1>8. CASE BitsetReturned(Overwrite(i, <<0>>), BitsetReset(b, i))
    <2>1. BitsetAssign(b, i, 0) = BitsetReset(b, i)
      BY DEF BitsetAssign
    <2> QED  BY <1>6, <1>8, <2>1
  <1>9. CASE BitsetReturned(Overwrite(i, <<IF i < Len(Bits(b)) THEN 1 - Bits(b)[i + 1] ELSE 0>>), BitsetToggle(b, i))
    <2> DEFINE x == IF i < Len(Bits(b)) THEN 1 - Bits(b)[i + 1] ELSE 0
               r == BitsetToggle(b, i)
    <2>1. x \in {0, 1}
      <3>1. i < b.size => i + 1 \in 1..b.size
        BY <1>1, <1>3
      <3> QED  BY <1>1, <1>2, <3>1
    <2>2. i >= b.size => r = Fails("OUT_OF_RANGE", b)
      BY DEF BitsetToggle, BitChanged
    <2>3. ASSUME i < b.size
          PROVE  r = Success(WithBit(b, i, x))
      <3>1. i + 1 \in 1..b.size /\ i < Len(Bits(b)) /\ (i + 1) - 1 = i
        BY <1>1, <1>3, <2>3
      <3>2. x = 1 - b.bits.cells[(i \div Width) + 1][(i % Width) + 1]
        BY <1>1, <3>1 DEF BitIn, ByteAt, BitAt
      <3>3. r = Success(WithBit(b, i, 1 - b.bits.cells[(i \div Width) + 1][(i % Width) + 1]))
        BY <1>1, <1>3, <1>4, <2>3 DEF BitsetToggle, BitChanged, WithBit
      <3> QED  BY <3>2, <3>3
    <2>4. BitsetReturned(Overwrite(i, <<x>>), r)
      BY <1>9
    <2> HIDE DEF x, r
    <2> QED  BY <1>3, <2>1, <2>2, <2>3, <2>4, BitChangesStep
  <1> QED  BY <1>2, <1>6, <1>7, <1>8, <1>9

(* New values for the bytes *)
ByteCells(b, cells) ==
    /\ cells = [k \in DOMAIN b.bits.cells |-> cells[k]]
    /\ \A k \in 1..Len(b.bits.cells) : IF k <= b.bits.size THEN cells[k] \in Byte ELSE cells[k] = b.bits.cells[k]

LEMMA StoredBytes ==
    ASSUME NEW b \in BitsetsOf, Fit(b.bits), NEW cells, ByteCells(b, cells)
    PROVE  LET w == [b EXCEPT !.bits.cells = cells] IN
           /\ w \in BitsetsOf /\ Kin(b.bits, w.bits) /\ Fit(w.bits) /\ Stored(w.bits)
           /\ w.size = b.size /\ w.bits.size = b.bits.size /\ w.bits.cells = cells
           /\ \A k \in 1..b.bits.size : cells[k] \in Byte
  <1> DEFINE v == b.bits
             z == [v EXCEPT !.cells = cells]
             w == [b EXCEPT !.bits.cells = cells]
  <1>1. /\ v \in VectorsOf(Bytes) /\ v \in VectorOf(Bytes) /\ v.cells \in Seq(Bytes) /\ Len(v.cells) \in Nat
        /\ b.size \in Nat /\ v.size \in Nat /\ v.size <= Len(v.cells) /\ b = [size |-> b.size, bits |-> v]
        /\ DOMAIN v.cells = 1..Len(v.cells) /\ Fit(v)
    BY DEF BitsetsOf, VectorsOf, VectorOf, Sound
  <1>4. w = [size |-> b.size, bits |-> z]
    BY <1>1
  <1>5. cells \in Seq(Bytes) /\ Len(cells) = Len(v.cells) /\ \A k \in 1..v.size : cells[k] \in Byte
    <2>1. /\ \A k \in 1..Len(v.cells) : cells[k] \in Bytes
          /\ \A k \in 1..v.size : cells[k] \in Byte
      <3>1. \A k \in 1..Len(v.cells) : IF k <= v.size THEN cells[k] \in Byte ELSE cells[k] = v.cells[k]
        BY DEF ByteCells
      <3>2. \A k \in 1..Len(v.cells) : v.cells[k] \in Bytes
        BY <1>1
      <3>3. \A k \in 1..v.size : k \in 1..Len(v.cells) /\ k <= v.size
        BY <1>1
      <3> QED  BY <3>1, <3>2, <3>3 DEF Bytes
    <2>2. cells = [k \in 1..Len(v.cells) |-> cells[k]]
      BY <1>1 DEF ByteCells
    <2>3. cells \in [1..Len(v.cells) -> Bytes]
      BY <2>1, <2>2
    <2>4. DOMAIN cells = 1..Len(v.cells)
      BY <2>3
    <2>5. cells \in Seq(Bytes)
      BY <1>1, <2>3
    <2> QED  BY <1>1, <2>1, <2>4, <2>5
  <1>6. /\ z \in VectorOf(Bytes) /\ z.cells = cells /\ z.size = v.size /\ z.capacity = v.capacity
        /\ z.growth = v.growth /\ z.threshold = v.threshold /\ z.dynamic = v.dynamic /\ z.memory = v.memory
    BY <1>1, <1>5 DEF VectorOf
  <1> HIDE DEF z, w
  <1>7. z \in VectorsOf(Bytes) /\ Fit(z) /\ Kin(v, z) /\ Stored(z)
    BY <1>1, <1>5, <1>6 DEF VectorsOf, Sound, Settled, Fit, Kin, Stored
  <1>8. w \in BitsetsOf /\ w.size = b.size /\ w.bits = z
    BY <1>1, <1>4, <1>7 DEF BitsetsOf
  <1> QED  BY <1>5, <1>6, <1>7, <1>8 DEF w

(* New values for all the bytes, of which new are the bits *)
NewBytes(b, cells, new) ==
    /\ cells = [k \in DOMAIN b.bits.cells |-> cells[k]]
    /\ \A k \in 1..Len(b.bits.cells) : IF k <= b.bits.size THEN cells[k] \in Byte ELSE cells[k] = b.bits.cells[k]
    /\ new = [k \in 1..b.size |-> new[k]]
    /\ \A k \in 1..b.size : new[k] = cells[ByteAt(k)][BitAt(k)]

LEMMA BytesChangeStep ==
    ASSUME NEW b, BitsetCalled(b), NEW cells, NEW new, NewBytes(b, cells, new),
           NEW r, r = Success([b EXCEPT !.bits.cells = cells]), BitsetReturned(Overwrite(0, new), r)
    PROVE  Abstract!Answered /\ BitsetInv' /\ kind' = kind
  <1> DEFINE v == b.bits
             w == [b EXCEPT !.bits.cells = cells]
             zero == 0
  <1>1. /\ v \in VectorsOf(Bytes) /\ v \in VectorOf(Bytes) /\ v.cells \in Seq(Bytes) /\ Len(v.cells) \in Nat
        /\ b.size \in Nat /\ v.size \in Nat /\ v.size <= Len(v.cells) /\ b = [size |-> b.size, bits |-> v]
        /\ DOMAIN v.cells = 1..Len(v.cells) /\ Fit(v) /\ Covered(b)
    BY DEF BitsetCalled, BitsetMeant, BitsetsOf, VectorsOf, VectorOf, Sound
  <1>2. Width * v.size \in Nat /\ b.size <= Width * v.size
    BY <1>1, Products, ContainerAssumption DEF Covered
  <1>3. ASSUME NEW k \in 1..b.size
        PROVE  ByteAt(k) \in 1..v.size /\ BitAt(k) \in 1..Width
    <2>1. k \in Nat /\ k >= 1 /\ k <= Width * v.size
      BY <1>1, <1>2, <1>3
    <2> QED  BY <1>1, <2>1, Places
  <1>4. ByteCells(b, cells) /\ b \in BitsetsOf
    BY DEF NewBytes, ByteCells, BitsetCalled, BitsetMeant
  <1>5. /\ w \in BitsetsOf /\ Kin(b.bits, w.bits) /\ Fit(w.bits) /\ Stored(w.bits)
        /\ w.size = b.size /\ w.bits.size = b.bits.size /\ w.bits.cells = cells
        /\ \A k \in 1..b.bits.size : cells[k] \in Byte
    BY <1>1, <1>4, StoredBytes
  <1> HIDE DEF w
  <1>9. Covered(w)
    BY <1>1, <1>5 DEF Covered
  <1>10. BitsetReturned(Operation("overwrite", zero, 0, new), r) /\ r = Result("SUCCESS", w, <<>>) /\ zero \in Nat
    BY DEF Overwrite, Success, w
  <1>11. /\ Held \in Seq({0, 1}) /\ Len(Held) = b.size
    BY BitsetHeld
  <1>12. (\A out : Calls("overwrite", zero, 0, new, "SUCCESS", out)) /\ BitsetLeft(w)
    BY <1>5, <1>9, <1>10, BitsetLeaves
  <1>13. new \in Seq({0, 1}) /\ Len(new) = b.size
    <2>1. \A k \in 1..b.size : new[k] \in {0, 1}
      <3> TAKE k \in 1..b.size
      <3>1. cells[ByteAt(k)] \in Byte /\ BitAt(k) \in 1..Width
        BY <1>3, <1>5
      <3>2. new[k] = cells[ByteAt(k)][BitAt(k)]
        BY DEF NewBytes
      <3> QED  BY <3>1, <3>2 DEF Byte
    <2>2. new = [k \in 1..b.size |-> new[k]]
      BY DEF NewBytes
    <2>3. new \in [1..b.size -> {0, 1}]
      BY <2>1, <2>2
    <2> QED  BY <1>1, <2>3
  <1>14. /\ Steady /\ Held' \in Seq({0, 1}) /\ Len(Held') = b.size
         /\ \A k \in 1..b.size : Held'[k] = new[k]
    BY <1>5, <1>12 DEF BitsetLeft, BitIn, NewBytes
  <1> DEFINE out == SubSeq(Held, zero + 1, zero + Len(new))
  <1>15. Calls("overwrite", zero, 0, new, "SUCCESS", out)
    BY <1>12
  <1>16. /\ Len(Held') = Len(Held) /\ zero + Len(new) <= Len(Held)
         /\ \A k \in 1..Len(Held) : Held'[k] = IF zero < k /\ k <= zero + Len(new) THEN new[k - zero] ELSE Held[k]
    BY <1>1, <1>11, <1>13, <1>14
  <1> HIDE DEF zero
  <1>17. Abstract!Answered
    BY <1>10, <1>11, <1>13, <1>14, <1>15, <1>16, OverwriteStep
  <1> QED  BY <1>12, <1>17 DEF BitsetLeft

LEMMA ByteChangesSteps ==
    ASSUME NEW b, BitsetCalled(b), ByteChanges(b)
    PROVE  Abstract!Answered /\ BitsetInv' /\ kind' = kind
  <1> DEFINE v == b.bits
             o == Other(b)
             altered == [k \in DOMAIN v.cells |-> [j \in 1..Width |-> j % 2]]
  <1>0. Len(Bits(b)) = b.size
    BY BitsetHeld
  <1>1. /\ v \in VectorOf(Bytes) /\ v.cells \in Seq(Bytes) /\ Len(v.cells) \in Nat
        /\ b.size \in Nat /\ v.size \in Nat /\ v.size <= Len(v.cells) /\ b = [size |-> b.size, bits |-> v]
        /\ DOMAIN v.cells = 1..Len(v.cells) /\ Stored(v) /\ Covered(b)
    BY DEF BitsetCalled, BitsetMeant, BitsetsOf, VectorsOf, VectorOf, Sound
  <1>2. Width * v.size \in Nat /\ b.size <= Width * v.size
    BY <1>1, Products, ContainerAssumption DEF Covered
  <1>3. ASSUME NEW k \in 1..b.size
        PROVE  ByteAt(k) \in 1..v.size /\ ByteAt(k) \in DOMAIN v.cells /\ ByteAt(k) <= v.size /\ BitAt(k) \in 1..Width
    <2>1. k \in Nat /\ k >= 1 /\ k <= Width * v.size
      BY <1>1, <1>2, <1>3
    <2>2. ByteAt(k) \in 1..v.size /\ BitAt(k) \in 1..Width
      BY <1>1, <2>1, Places
    <2> QED  BY <1>1, <2>2
  <1>4. \A k \in 1..b.size : Bits(b)[k] = v.cells[ByteAt(k)][BitAt(k)]
    BY BitsetHeld DEF BitIn
  <1>5. \A k \in 1..v.size : v.cells[k] \in Byte
    BY <1>1 DEF Stored
  <1>6. \A j \in 1..Width : j % 2 \in {0, 1}
    BY ContainerAssumption
  <1>7. o.bits.cells = altered /\ o.bits.size = v.size /\ o.size = b.size
    BY <1>1 DEF Other, VectorOf
  <1>8. \A k \in 1..b.size : Bits(o)[k] = altered[ByteAt(k)][BitAt(k)]
    <2>1. b.size = (IF b.size < Width * v.size THEN b.size ELSE Width * v.size)
      BY <1>1, <1>2
    <2>2. Bits(o) = [k \in 1..b.size |-> altered[ByteAt(k)][BitAt(k)]]
      BY <1>7, <2>1 DEF Bits, ByteAt, BitAt
    <2> QED  BY <2>2
  <1>9. \A k \in 1..v.size : altered[k] \in Byte
    BY <1>1, <1>6 DEF Byte
  <1> HIDE DEF altered, o
  <1>10. CASE BitsetReturned(Overwrite(0, [k \in 1 .. Len(Bits(b)) |-> 1 - Bits(b)[k]]), BitsetFlip(b))
    <2> DEFINE cells == [k \in DOMAIN v.cells |-> IF k <= v.size
      THEN [j \in 1..Width |-> 1 - v.cells[k][j]] ELSE v.cells[k]]
               new == [k \in 1 .. b.size |-> 1 - Bits(b)[k]]
               r == BitsetFlip(b)
    <2>1. r = Success([b EXCEPT !.bits.cells = cells])
      BY DEF BitsetFlip, BytesChanged
    <2>2. cells = [k \in DOMAIN b.bits.cells |-> cells[k]] /\ new = [k \in 1..b.size |-> new[k]]
      OBVIOUS
    <2>3. ASSUME NEW k \in 1..Len(v.cells)
          PROVE  IF k <= v.size THEN cells[k] \in Byte ELSE cells[k] = v.cells[k]
      <3>1. CASE k <= v.size
        <4>1. v.cells[k] \in Byte
          BY <1>1, <1>5, <3>1
        <4>2. [j \in 1..Width |-> 1 - v.cells[k][j]] \in Byte
          <5>1. \A j \in 1..Width : v.cells[k][j] \in {0, 1}
            BY <4>1 DEF Byte
          <5>2. \A j \in 1..Width : 1 - v.cells[k][j] \in {0, 1}
            BY <5>1
          <5> QED  BY <5>2 DEF Byte
        <4> QED  BY <1>1, <3>1, <4>2
      <3> QED  BY <1>1, <3>1
    <2>4. \A k \in 1..b.size : new[k] = cells[ByteAt(k)][BitAt(k)]
      BY <1>3, <1>4
    <2>5. BitsetReturned(Overwrite(0, new), r)
      BY <1>0, <1>10
    <2> HIDE DEF cells, new, r
    <2>6. NewBytes(b, cells, new)
      BY <2>2, <2>3, <2>4 DEF NewBytes
    <2> QED  BY <2>1, <2>5, <2>6, BytesChangeStep
  <1>11. ASSUME NEW x \in {0, 1}, NEW r,
                r = Success([b EXCEPT !.bits.cells =
                                [k \in DOMAIN v.cells |-> IF k <= v.size THEN [j \in 1..Width |-> x]
                                  ELSE v.cells[k]]]),
                BitsetReturned(Overwrite(0, [k \in 1 .. Len(Bits(b)) |-> x]), r)
         PROVE  Abstract!Answered /\ BitsetInv' /\ kind' = kind
    <2> DEFINE cells == [k \in DOMAIN v.cells |-> IF k <= v.size THEN [j \in 1..Width |-> x] ELSE v.cells[k]]
               new == [k \in 1 .. b.size |-> x]
    <2>1. r = Success([b EXCEPT !.bits.cells = cells])
      BY <1>11
    <2>2. cells = [k \in DOMAIN b.bits.cells |-> cells[k]] /\ new = [k \in 1..b.size |-> new[k]]
      OBVIOUS
    <2>3. ASSUME NEW k \in 1..Len(v.cells)
          PROVE  IF k <= v.size THEN cells[k] \in Byte ELSE cells[k] = v.cells[k]
      <3>1. [j \in 1..Width |-> x] \in Byte
        BY DEF Byte
      <3> QED  BY <1>1, <3>1
    <2>4. \A k \in 1..b.size : new[k] = cells[ByteAt(k)][BitAt(k)]
      BY <1>3
    <2>5. BitsetReturned(Overwrite(0, new), r)
      BY <1>0, <1>11
    <2> HIDE DEF cells, new
    <2>6. NewBytes(b, cells, new)
      BY <2>2, <2>3, <2>4 DEF NewBytes
    <2> QED  BY <2>1, <2>5, <2>6, BytesChangeStep
  <1>12. CASE BitsetReturned(Overwrite(0, [k \in 1 .. Len(Bits(b)) |-> 1]), BitsetSetAll(b))
    <2>1. BitsetSetAll(b) = Success([b EXCEPT !.bits.cells =
                                [k \in DOMAIN v.cells |-> IF k <= v.size THEN [j \in 1..Width |-> 1]
                                  ELSE v.cells[k]]])
      BY DEF BitsetSetAll, BytesChanged
    <2> QED  BY <1>11, <1>12, <2>1
  <1>13. CASE BitsetReturned(Overwrite(0, [k \in 1 .. Len(Bits(b)) |-> 0]), BitsetResetAll(b))
    <2>1. BitsetResetAll(b) = Success([b EXCEPT !.bits.cells =
                                [k \in DOMAIN v.cells |-> IF k <= v.size THEN [j \in 1..Width |-> 0]
                                  ELSE v.cells[k]]])
      BY DEF BitsetResetAll, BytesChanged
    <2> QED  BY <1>11, <1>13, <2>1
  <1>14. ASSUME NEW op \in [{0, 1} -> [{0, 1} -> {0, 1}]],
                BitsetReturned(Overwrite(0, Combined(b, op)), PerformByteOperation(b, Other(b), op))
         PROVE  Abstract!Answered /\ BitsetInv' /\ kind' = kind
    <2> DEFINE cells == [k \in DOMAIN v.cells |->
                            IF k <= v.size THEN [j \in 1..Width |-> op[v.cells[k][j]][altered[k][j]]] ELSE v.cells[k]]
               new == [k \in 1 .. b.size |-> op[Bits(b)[k]][Bits(o)[k]]]
               r == PerformByteOperation(b, Other(b), op)
    <2>1. r = Success([b EXCEPT !.bits.cells = cells])
      <3>1. (IF v.size < o.bits.size THEN v.size ELSE o.bits.size) = v.size
        BY <1>1, <1>7
      <3>2. r = Success(BytesChanged(b, v.size, LAMBDA k, j : op[v.cells[k][j]][o.bits.cells[k][j]]))
        BY <3>1 DEF PerformByteOperation, o
      <3> QED  BY <1>7, <3>2 DEF BytesChanged
    <2>2. cells = [k \in DOMAIN b.bits.cells |-> cells[k]] /\ new = [k \in 1..b.size |-> new[k]]
      OBVIOUS
    <2>3. ASSUME NEW k \in 1..Len(v.cells)
          PROVE  IF k <= v.size THEN cells[k] \in Byte ELSE cells[k] = v.cells[k]
      <3>1. CASE k <= v.size
        <4>1. v.cells[k] \in Byte /\ altered[k] \in Byte
          BY <1>1, <1>5, <1>9, <3>1
        <4>2. [j \in 1..Width |-> op[v.cells[k][j]][altered[k][j]]] \in Byte
          <5>1. \A j \in 1..Width : v.cells[k][j] \in {0, 1} /\ altered[k][j] \in {0, 1}
            BY <4>1 DEF Byte
          <5>2. \A j \in 1..Width : op[v.cells[k][j]][altered[k][j]] \in {0, 1}
            BY <5>1
          <5> QED  BY <5>2 DEF Byte
        <4> QED  BY <1>1, <3>1, <4>2
      <3> QED  BY <1>1, <3>1
    <2>4. \A k \in 1..b.size : new[k] = cells[ByteAt(k)][BitAt(k)]
      BY <1>3, <1>4, <1>8
    <2>5. BitsetReturned(Overwrite(0, new), r)
      BY <1>0, <1>14 DEF Combined, o
    <2> HIDE DEF cells, new, r
    <2>6. NewBytes(b, cells, new)
      BY <2>2, <2>3, <2>4 DEF NewBytes
    <2> QED  BY <2>1, <2>5, <2>6, BytesChangeStep
  <1>15. BitAnd \in [{0, 1} -> [{0, 1} -> {0, 1}]] /\ BitOr \in [{0, 1} -> [{0, 1} -> {0, 1}]]
           /\ BitXor \in [{0, 1} -> [{0, 1} -> {0, 1}]]
    BY DEF BitAnd, BitOr, BitXor
  <1> QED  BY <1>10, <1>12, <1>13, <1>14, <1>15 DEF ByteChanges

LEMMA AssignedBit ==
    ASSUME NEW w \in BitsetsOf, Fit(w.bits), Stored(w.bits), Covered(w), NEW i \in Nat, i < w.size, NEW x \in {0, 1}
    PROVE  BitsetAssign(w, i, x) = Success(WithBit(w, i, x))
  <1>1. ~(i >= w.size)
    BY DEF BitsetsOf
  <1>2. VectorGet(w.bits, i \div Width) # <<>>
    BY OneBit
  <1>3. CASE x = 1
    BY <1>1, <1>2, <1>3 DEF BitsetAssign, BitsetSet, BitChanged, WithBit
  <1>4. CASE x = 0
    BY <1>1, <1>2, <1>4 DEF BitsetAssign, BitsetReset, BitChanged, WithBit
  <1> QED  BY <1>3, <1>4

(* The same bytes as far as v has any hold the same bits. *)
Enough(n, p) == n <= Width * p

LEMMA SameBits ==
    ASSUME NEW p \in Nat, NEW n \in Nat, Enough(n, p), NEW v, NEW w, \A k \in 1..p : w.cells[k] = v.cells[k]
    PROVE  \A k \in 1..n : BitIn(w, k) = BitIn(v, k)
  <1> TAKE k \in 1..n
  <1>1. Width * p \in Nat
    BY Products, ContainerAssumption
  <1>2. k \in Nat /\ k >= 1 /\ k <= Width * p
    BY <1>1 DEF Enough
  <1>3. ByteAt(k) \in 1..p
    BY <1>2, Places
  <1> QED  BY <1>3 DEF BitIn

(* A bitset with other bytes *)
LEMMA OtherBytes ==
    ASSUME NEW n \in Nat, NEW v \in VectorsOf(Bytes), Stored(v), n <= Width * v.size, Width * v.size < n + Width,
           NEW w, w = [size |-> n, bits |-> v]
    PROVE  w \in BitsetsOf /\ Stored(w.bits) /\ Covered(w) /\ w.size = n /\ w.bits = v
  BY DEF BitsetsOf, Covered

(* When the bits fill their bytes *)
LEMMA Full ==
    ASSUME NEW n \in Nat, NEW p \in Nat, n <= Width * p, Width * p < n + Width
    PROVE  n % Width = 0 <=> n = Width * p
  <1> DEFINE q == n \div Width
             r == n % Width
             zero == 0
  <1>1. Width \in Nat \ {0} /\ q \in Nat /\ r \in Nat /\ r < Width /\ n = Width * q + r
    BY ContainerAssumption, Division
  <1>2. (Width * p + zero) % Width = zero
    BY <1>1, Quotient
  <1>3. Width * p \in Nat /\ Width * q \in Nat
    BY <1>1, Products
  <1>4. ASSUME n = Width * p
        PROVE  r = 0
    <2>1. Width * p + zero = n
      BY <1>3, <1>4
    <2> QED  BY <1>2, <2>1
  <1> HIDE DEF q, r
  <1>5. ASSUME r = 0
        PROVE  n = Width * p
    <2>1. (p < q => Width * p + Width <= Width * q) /\ (q < p => Width * q + Width <= Width * p)
      BY <1>1, Products
    <2> DEFINE x == Width * p
               y == Width * q
    <2>2. x \in Nat /\ y \in Nat /\ n = y /\ n <= x /\ x < n + Width /\ (p < q => x + Width <= y) /\ (q < p
            => y + Width <= x)
      BY <1>1, <1>3, <1>5, <2>1
    <2>3. p = q => x = y
      OBVIOUS
    <2> HIDE DEF x, y
    <2>4. n = x
      BY <1>1, <2>2, <2>3
    <2> QED  BY <2>4 DEF x
  <1> QED  BY <1>4, <1>5 DEF r

LEMMA PushedBitStep ==
    ASSUME NEW b, BitsetCalled(b), NEW x \in {0, 1}, NEW r, BitsetReturned(Insert(b.size, <<x>>), r),
           NEW y \in BitsetsOf, Kin(b.bits, y.bits), Fit(y.bits), Stored(y.bits), Covered(y), y.size = b.size + 1,
           \A k \in 1..b.size : BitIn(y.bits, k) = BitIn(b.bits, k),
           r = BitsetAssign(y, b.size, x)
    PROVE  BitsetDone
  <1> DEFINE new == <<x>>
             i == b.size
             w == WithBit(y, i, x)
  <1>1. new \in Seq({0, 1}) /\ Len(new) = 1 /\ new[1] = x
    OBVIOUS
  <1>2. BitsetReturned(Operation("insert", i, 0, new), r)
    BY DEF Insert
  <1> HIDE DEF new
  <1>3. /\ Held \in Seq({0, 1}) /\ Len(Held) = i /\ i \in Nat
        /\ \A k \in 1..i : Held[k] = BitIn(b.bits, k)
    BY BitsetHeld
  <1>4. i < y.size /\ y.size = i + 1
    BY <1>3
  <1>5. r = Success(w)
    BY <1>3, <1>4, AssignedBit
  <1>6. /\ w \in BitsetsOf /\ Kin(y.bits, w.bits) /\ Fit(w.bits) /\ Stored(w.bits) /\ Covered(w) /\ w.size = y.size
        /\ \A k \in 1..y.size : BitIn(w.bits, k) = IF k = i + 1 THEN x ELSE BitIn(y.bits, k)
    BY <1>3, <1>4, OneBit
  <1>7. r = Result("SUCCESS", w, <<>>) /\ Kin(b.bits, w.bits)
    BY <1>5, <1>6 DEF Success, Kin
  <1> HIDE DEF w
  <1>8. (\A out : Calls("insert", i, 0, new, "SUCCESS", out)) /\ BitsetLeft(w)
    BY <1>2, <1>6, <1>7, BitsetLeaves
  <1>9. /\ Steady /\ Held' \in Seq({0, 1}) /\ Len(Held') = i + 1
        /\ \A k \in 1 .. i + 1 : Held'[k] = BitIn(w.bits, k)
    BY <1>4, <1>6, <1>8 DEF BitsetLeft
  <1>10. /\ Len(Held') = Len(Held) + Len(new) /\ i <= Len(Held)
         /\ \A k \in 1..Len(Held') :
              Held'[k] = IF k <= i THEN Held[k] ELSE IF k <= i + Len(new) THEN new[k - i] ELSE Held[k - Len(new)]
    <2>1. ASSUME NEW k \in 1 .. i + 1
          PROVE  Held'[k] = IF k <= i THEN Held[k] ELSE IF k <= i + Len(new) THEN new[k - i] ELSE Held[k - Len(new)]
      <3>1. CASE k = i + 1
        BY <1>1, <1>3, <1>4, <1>6, <1>9, <3>1
      <3>2. CASE k # i + 1
        <4>1. k \in 1..i
          BY <1>3, <3>2
        <4> QED  BY <1>3, <1>4, <1>6, <1>9, <3>2, <4>1
      <3> QED  BY <3>1, <3>2
    <2> QED  BY <1>1, <1>3, <1>9, <2>1
  <1>11. Calls("insert", i, 0, new, "SUCCESS", <<>>)
    BY <1>8
  <1>12. Abstract!Answered
    BY <1>1, <1>3, <1>9, <1>10, <1>11, InsertStep
  <1>13. call'.status = "SUCCESS"
    BY <1>11, CallFields
  <1> QED  BY <1>8, <1>12, <1>13 DEF BitsetLeft, BitsetDone, BitsetCalled

LEMMA PushBitStep ==
    ASSUME NEW b, BitsetCalled(b), b.size <= MaxItems, NEW x \in {0, 1},
           BitsetReturned(Insert(b.size, <<x>>), BitsetPush(b, x))
    PROVE  BitsetDone \/ BitsetAstray
  <1> DEFINE v == b.bits
             p == v.size
             more == [b EXCEPT !.size = Above(@)]
             r == BitsetPush(b, x)
             i == b.size
  <1>1. /\ v \in VectorsOf(Bytes) /\ v \in VectorOf(Bytes) /\ i \in Nat /\ p \in Nat /\ b = [size |-> i, bits |-> v]
        /\ Fit(v) /\ Stored(v) /\ Sound(v) /\ i <= Width * p /\ Width * p < i + Width /\ v.capacity \in Nat
        /\ Width \in Nat \ {0}
    BY ContainerAssumption DEF BitsetCalled, BitsetMeant, BitsetsOf, VectorsOf, VectorOf, Covered
  <1>2. Width * p \in Nat /\ Width * (p + 1) = Width * p + Width
    BY <1>1, Products
  <1>3. i % Width = 0 <=> i = Width * p
    BY <1>1, Full
  <1>4. more = [size |-> i + 1, bits |-> v]
    <2>1. Above(i) = i + 1
      BY <1>1, ContainerAssumption DEF Above
    <2> QED  BY <1>1, <2>1
  <1>5. Junk \in Bytes /\ ZeroByte \in Byte /\ ZeroByte \in Bytes
    BY DEF Bytes, Byte, ZeroByte
  <1>6. BitsetReturned(Insert(i, <<x>>), r)
    OBVIOUS
  <1>7. CASE i % Width # 0
    <2>1. r = BitsetAssign(more, i, x)
      BY <1>7 DEF BitsetPush
    <2> HIDE DEF r
    <2>2. i + 1 \in Nat /\ i + 1 <= Width * p /\ Width * p < (i + 1) + Width
      BY <1>1, <1>2, <1>3, <1>7
    <2>3. more \in BitsetsOf /\ Stored(more.bits) /\ Covered(more) /\ more.size = i + 1 /\ more.bits = v
      BY <1>1, <1>4, <2>2, OtherBytes
    <2> HIDE DEF more
    <2>4. Kin(b.bits, more.bits) /\ Fit(more.bits) /\ \A k \in 1..b.size : BitIn(more.bits, k) = BitIn(b.bits, k)
      BY <1>1, <2>3 DEF Kin
    <2> QED  BY <1>6, <2>1, <2>3, <2>4, PushedBitStep
  <1>8. CASE i % Width = 0
    <2> DEFINE g == VectorPushBack(v, ZeroByte)
    <2>1. \/ \E z \in VectorsOf(Bytes) : g = Success(z) /\ Kin(v, z) /\ Fit(z) /\ Inserted(v, z, v.size, <<ZeroByte>>)
          \/ NoMemory(v, g)
          \/ NoRoomFor(v, g, p + 1)
      BY <1>1, <1>5, PushedBack
    <2>2. r = IF g.status = "SUCCESS" THEN BitsetAssign(WithBits(more, g.v), i, x)
              ELSE Result(g.status, WithBits(more, g.v), <<>>)
      BY <1>8 DEF BitsetPush, Check, OnBits, Result
    <2> HIDE DEF g, r, more
    <2>3. \A z : WithBits(more, z) = [size |-> i + 1, bits |-> z]
      BY <1>4 DEF WithBits
    <2>4. i = Width * p
      BY <1>3, <1>8
    <2>5. ASSUME NEW z \in VectorsOf(Bytes), g = Success(z), Kin(v, z), Fit(z), Inserted(v, z, v.size, <<ZeroByte>>)
          PROVE  BitsetDone
      <3> DEFINE y == [size |-> i + 1, bits |-> z]
      <3>1. z.size = p + 1 /\ \A k \in 1 .. p + 1 : z.cells[k] = IF k <= p THEN v.cells[k] ELSE ZeroByte
        <4> DEFINE one == <<ZeroByte>>
        <4>1. Len(one) = 1 /\ one[1] = ZeroByte
          OBVIOUS
        <4>2. z.size = p + Len(one) /\ \A k \in 1..z.size :
                z.cells[k] = IF k <= p THEN v.cells[k] ELSE IF k <= p + Len(one) THEN one[k - p]
                  ELSE v.cells[k - Len(one)]
          BY <2>5 DEF Inserted
        <4> HIDE DEF one
        <4> QED  BY <1>1, <4>1, <4>2
      <3>2. r = BitsetAssign(y, i, x)
        BY <2>2, <2>3, <2>5 DEF Success, Result
      <3>3. Stored(z)
        BY <1>1, <1>5, <3>1 DEF Stored
      <3>4. i + 1 \in Nat /\ i + 1 <= Width * z.size /\ Width * z.size < (i + 1) + Width
        <4> DEFINE t == Width * p
        <4>1. Width * z.size = t + Width /\ t \in Nat /\ i = t
          BY <1>2, <2>4, <3>1
        <4> HIDE DEF t
        <4> QED  BY <1>1, <4>1
      <3>5. y \in BitsetsOf /\ Stored(y.bits) /\ Covered(y) /\ y.size = i + 1 /\ y.bits = z
        BY <3>3, <3>4, OtherBytes
      <3> HIDE DEF y
      <3>6. \A k \in 1..p : z.cells[k] = v.cells[k]
        BY <1>1, <3>1
      <3>7. \A k \in 1..i : BitIn(z, k) = BitIn(v, k)
        <4>1. i \in Nat /\ p \in Nat /\ Enough(i, p)
          BY <1>1 DEF Enough
        <4> HIDE DEF i, p, v
        <4> QED  BY <3>6, <4>1, SameBits
      <3> QED  BY <1>6, <2>5, <3>2, <3>5, <3>7, PushedBitStep
    <2> DEFINE w == [size |-> i + 1, bits |-> g.v]
               new == <<x>>
    <2>6. CASE NoMemory(v, g)
      <3>1. PICK n \in Nat : n > v.capacity /\ g = Fails("NOT_ENOUGH_MEMORY", [v EXCEPT !.capacity = n]) /\ v.dynamic
        BY <2>6 DEF NoMemory
      <3>2. g.status = "NOT_ENOUGH_MEMORY" /\ g.v = [v EXCEPT !.capacity = n]
        BY <3>1 DEF Fails, Result
      <3>3. g.v \in VectorsOf(Bytes) /\ g.v.cells = v.cells /\ g.v.size = v.size /\ g.v.dynamic = v.dynamic
        <4> DEFINE z == [v EXCEPT !.capacity = n]
        <4>1. /\ z \in VectorOf(Bytes) /\ z.cells = v.cells /\ z.size = v.size /\ z.capacity = n
              /\ z.growth = v.growth /\ z.threshold = v.threshold /\ z.dynamic = v.dynamic /\ z.memory = v.memory
          BY <1>1 DEF VectorOf
        <4> HIDE DEF z
        <4>2. /\ v.capacity \in Nat /\ n \in Nat /\ n > v.capacity /\ v.size \in Nat /\ v.dynamic
              /\ Settled(v) /\ v.size <= v.capacity /\ v.size <= Len(v.cells)
          BY <1>1, <3>1 DEF Sound
        <4>3. Sound(z)
          BY <4>1, <4>2 DEF Sound, Settled
        <4>4. z \in VectorsOf(Bytes)
          BY <4>1, <4>3 DEF VectorsOf
        <4> QED  BY <3>2, <4>1, <4>4 DEF z
      <3>4. w \in BitsetsOf /\ w.bits = g.v /\ w.size = i + 1
        BY <1>1, <3>3 DEF BitsetsOf
      <3>5. r = Result("NOT_ENOUGH_MEMORY", w, <<>>)
        BY <2>2, <2>3, <3>2
      <3> HIDE DEF w
      <3>6. BitsetReturned(Operation("insert", i, 0, new), r)
        BY <1>6 DEF Insert
      <3> HIDE DEF new
      <3>7. ASSUME Turned("insert", i, 0, new, "NOT_ENOUGH_MEMORY")
            PROVE  Abstract!Full(call')
        <4>1. Limit = Unlimited
          BY <3>1, BitsetHeld
        <4>2. call'.status = "NOT_ENOUGH_MEMORY"
          BY <3>7, CallFields DEF Turned
        <4> QED  BY <4>1, <4>2 DEF Abstract!Full
      <3>8. /\ w.bits.cells = b.bits.cells /\ w.bits.size = b.bits.size /\ w.bits.dynamic = b.bits.dynamic
            /\ b.size = Width * b.bits.size /\ w.size = b.size + 1 /\ b.bits.dynamic
        BY <2>4, <3>1, <3>3, <3>4
      <3>9. Abstract!Miscounted /\ AdriftInv' /\ kind' = "adrift"
        BY <3>4, <3>5, <3>6, <3>7, <3>8, BitsetMiscounts
      <3> QED  BY <3>9 DEF BitsetAstray
    <2>7. CASE NoRoomFor(v, g, p + 1)
      <3>1. g.status = "INSUFFICIENT_BUFFER_SIZE" /\ g.v = v /\ ~v.dynamic /\ v.capacity < p + 1
        BY <2>7 DEF NoRoomFor, Fails, Result
      <3>2. w \in BitsetsOf /\ w.bits = v /\ w.size = i + 1
        BY <1>1, <3>1 DEF BitsetsOf
      <3>3. r = Result("INSUFFICIENT_BUFFER_SIZE", w, <<>>)
        BY <2>2, <2>3, <3>1
      <3> HIDE DEF w
      <3>4. BitsetReturned(Operation("insert", i, 0, new), r) /\ new \in Seq({0, 1}) /\ Len(new) = 1
        BY <1>6 DEF Insert
      <3> HIDE DEF new
      <3>5. /\ Held \in Seq({0, 1}) /\ Len(Held) = i /\ Limit = Width * v.capacity /\ Limit # Unlimited
            /\ Limit \in Nat
        BY <3>1, BitsetHeld
      <3>6. Limit < Len(Held) + Len(new) /\ i <= Len(Held)
        <4>1. v.capacity = p
          BY <1>1, <3>1 DEF Sound
        <4> QED  BY <1>1, <2>4, <3>4, <3>5, <4>1
      <3>7. ASSUME Turned("insert", i, 0, new, "INSUFFICIENT_BUFFER_SIZE")
            PROVE  Abstract!Full(call')
        <4>1. call'.op = "insert" /\ call'.at = i /\ call'.new = new /\ call'.status = "INSUFFICIENT_BUFFER_SIZE"
          BY <3>7, CallFields DEF Turned
        <4>2. Abstract!NoRoom(call') /\ Abstract!Legal(call')
          BY <1>1, <3>4, <3>5, <3>6, <4>1, TooMuchToInsert
        <4> QED  BY <4>1, <4>2 DEF Abstract!Full
      <3>8. /\ w.bits.cells = b.bits.cells /\ w.bits.size = b.bits.size /\ w.bits.dynamic = b.bits.dynamic
            /\ b.size = Width * b.bits.size /\ w.size = b.size + 1 /\ ~b.bits.dynamic /\ w.bits = b.bits
        BY <2>4, <3>1, <3>2
      <3>9. Abstract!Miscounted /\ AdriftInv' /\ kind' = "adrift"
        BY <3>2, <3>3, <3>4, <3>7, <3>8, BitsetMiscounts
      <3> QED  BY <3>9 DEF BitsetAstray
    <2> QED  BY <2>1, <2>5, <2>6, <2>7
  <1> QED  BY <1>7, <1>8

LEMMA PoppedBitStep ==
    ASSUME NEW b, BitsetCalled(b), b.size > 0, NEW r, BitsetReturned(Delete(LastOf(b.size), 1), r),
           NEW w \in BitsetsOf, Kin(b.bits, w.bits), Fit(w.bits), Stored(w.bits), Covered(w), w.size = b.size - 1,
           \A k \in 1..w.size : BitIn(w.bits, k) = BitIn(b.bits, k),
           r = Result("SUCCESS", w, <<>>)
    PROVE  BitsetDone
  <1> DEFINE i == b.size - 1
             n == 1
             out == SubSeq(Held, i + 1, i + n)
  <1>1. /\ Held \in Seq({0, 1}) /\ Len(Held) = b.size /\ b.size \in Nat
        /\ \A k \in 1..b.size : Held[k] = BitIn(b.bits, k)
    BY BitsetHeld
  <1>2. i \in Nat /\ i + n = b.size /\ n \in Nat /\ LastOf(b.size) = i
    BY <1>1 DEF LastOf
  <1>3. BitsetReturned(Operation("delete", i, n, <<>>), r)
    BY <1>2 DEF Delete
  <1> HIDE DEF n
  <1>4. (\A o : Calls("delete", i, n, <<>>, "SUCCESS", o)) /\ BitsetLeft(w)
    BY <1>3, BitsetLeaves
  <1>5. /\ Steady /\ Held' \in Seq({0, 1}) /\ Len(Held') = i
        /\ \A k \in 1..i : Held'[k] = BitIn(w.bits, k)
    BY <1>4 DEF BitsetLeft
  <1>6. Calls("delete", i, n, <<>>, "SUCCESS", out)
    BY <1>4
  <1>7. \A k \in 1..Len(Held') : Held'[k] = IF k <= i THEN Held[k] ELSE Held[k + n]
    <2>1. \A k \in 1..i : k \in 1..b.size /\ k <= i /\ k \in 1..w.size
      BY <1>1, <1>2
    <2> QED  BY <1>1, <1>5, <2>1
  <1>8. Len(Held') = Len(Held) - n /\ i + n <= Len(Held)
    BY <1>1, <1>2, <1>5
  <1> HIDE DEF i
  <1>9. Abstract!Answered
    BY <1>1, <1>2, <1>5, <1>6, <1>7, <1>8, DeleteStep
  <1>10. call'.op = "delete"
    BY <1>6, CallFields
  <1> QED  BY <1>4, <1>9, <1>10 DEF BitsetLeft, BitsetDone, BitsetCalled

LEMMA PopBitStep ==
    ASSUME NEW b, BitsetCalled(b), b.size > 0, BitsetReturned(Delete(LastOf(b.size), 1), BitsetPop(b))
    PROVE  BitsetDone
  <1> DEFINE v == b.bits
             p == v.size
             fewer == [b EXCEPT !.size = Below(@)]
             r == BitsetPop(b)
             i == b.size
             n == i - 1
  <1>1. /\ v \in VectorsOf(Bytes) /\ v \in VectorOf(Bytes) /\ i \in Nat /\ p \in Nat /\ b = [size |-> i, bits |-> v]
        /\ Fit(v) /\ Stored(v) /\ i <= Width * p /\ Width * p < i + Width /\ Width \in Nat \ {0}
    BY ContainerAssumption DEF BitsetCalled, BitsetMeant, BitsetsOf, VectorsOf, VectorOf, Covered
  <1>2. fewer = [size |-> n, bits |-> v] /\ n \in Nat /\ i = n + 1
    <2>1. Below(i) = n
      BY <1>1 DEF Below
    <2> QED  BY <1>1, <2>1
  <1>3. BitsetReturned(Delete(LastOf(b.size), 1), r)
    OBVIOUS
  <1>4. r = IF n % Width = 0 THEN Result(VectorPopBack(v).status, WithBits(fewer, VectorPopBack(v).v), <<>>)
            ELSE Success(fewer)
    BY <1>2 DEF BitsetPop, OnBits
  <1>5. \A z : WithBits(fewer, z) = [size |-> n, bits |-> z]
    <2> HIDE DEF fewer
    <2> QED  BY <1>2 DEF WithBits
  <1> HIDE DEF r, fewer
  <1>6. p > 0 /\ Width * p \in Nat /\ p - 1 \in Nat /\ Width * ((p - 1) + 1) = Width * (p - 1) + Width
          /\ Width * (p - 1) \in Nat
    <2>1. Width * 0 = 0 /\ Width * p \in Nat
      BY <1>1, Products
    <2>2. p # 0
      BY <1>1, <2>1
    <2>3. p > 0 /\ p - 1 \in Nat
      BY <1>1, <2>2
    <2> QED  BY <1>1, <2>1, <2>3, Products
  <1>7. Width * p = Width * (p - 1) + Width
    <2>1. (p - 1) + 1 = p
      BY <1>1
    <2> QED  BY <1>6, <2>1
  <1>8. n % Width = 0 <=> n = Width * (p - 1)
    <2> DEFINE q == n \div Width
               s == n % Width
               t == p - 1
               x == Width * q
               y == Width * t
    <2>1. q \in Nat /\ s \in Nat /\ s < Width /\ n = x + s
      BY <1>1, <1>2, Division
    <2>2. x \in Nat /\ y \in Nat /\ (q < t => x + Width <= y) /\ (t < q => y + Width <= x) /\ (q = t => x = y)
      BY <1>1, <1>6, <2>1, Products
    <2>3. n + 1 <= y + Width /\ y + Width < (n + 1) + Width
      BY <1>1, <1>2, <1>7
    <2> HIDE DEF x, y, q, t, s
    <2>4. n = y => s = 0
      <3>1. (~(q < t) /\ ~(t < q)) \/ n # y
        BY <1>1, <1>2, <2>1, <2>2, <2>3
      <3>2. t \in Nat
        BY <1>6 DEF t
      <3> QED  BY <1>2, <2>1, <2>2, <3>1, <3>2
    <2>5. s = 0 => n = y
      <3>1. t \in Nat
        BY <1>6 DEF t
      <3>2. s = 0 => ~(q < t) /\ ~(t < q)
        BY <1>1, <1>2, <2>1, <2>2, <2>3
      <3> QED  BY <1>2, <2>1, <2>2, <3>1, <3>2
    <2> QED  BY <2>4, <2>5 DEF s, y, t
  <1>9. CASE n % Width # 0
    <2>1. r = Result("SUCCESS", fewer, <<>>)
      BY <1>4, <1>9 DEF Success
    <2>2. n <= Width * p /\ Width * p < n + Width
      <3> DEFINE y == Width * (p - 1)
      <3>1. y \in Nat /\ Width * p = y + Width /\ n # y
        BY <1>6, <1>7, <1>8, <1>9
      <3> HIDE DEF y
      <3> QED  BY <1>1, <1>2, <3>1
    <2>3. fewer \in BitsetsOf /\ Stored(fewer.bits) /\ Covered(fewer) /\ fewer.size = n /\ fewer.bits = v
      BY <1>1, <1>2, <2>2, OtherBytes
    <2>4. Kin(v, fewer.bits) /\ Fit(fewer.bits) /\ \A k \in 1..fewer.size : BitIn(fewer.bits, k) = BitIn(b.bits, k)
      BY <1>1, <2>3 DEF Kin
    <2> QED  BY <1>3, <2>1, <2>3, <2>4, PoppedBitStep
  <1>10. CASE n % Width = 0
    <2> DEFINE g == VectorPopBack(v)
    <2>1. PICK z \in VectorsOf(Bytes) :
            /\ g = Result("SUCCESS", z, <<v.cells[v.size]>>)
            /\ Kin(v, z) /\ Fit(z) /\ Deleted(v, z, p - 1, 1)
      <3>1. Junk \in Bytes /\ v.size > 0
        BY <1>6 DEF Bytes
      <3> QED  BY <1>1, <3>1, PoppedBack
    <2>2. g.status = "SUCCESS" /\ g.v = z
      BY <2>1 DEF Result
    <2> DEFINE w == [size |-> n, bits |-> z]
    <2>3. r = Result("SUCCESS", w, <<>>)
      BY <1>4, <1>5, <1>10, <2>2
    <2>4. z.size = p - 1 /\ \A k \in 1 .. p - 1 : z.cells[k] = v.cells[k]
      BY <2>1 DEF Deleted
    <2>5. Stored(z)
      BY <1>1, <2>4 DEF Stored
    <2>6. n <= Width * z.size /\ Width * z.size < n + Width
      BY <1>1, <1>2, <1>8, <1>10, <2>4
    <2>7. w \in BitsetsOf /\ Stored(w.bits) /\ Covered(w) /\ w.size = n /\ w.bits = z
      BY <1>2, <2>5, <2>6, OtherBytes
    <2> HIDE DEF w
    <2>8. \A k \in 1..n : BitIn(z, k) = BitIn(v, k)
      <3> DEFINE t == p - 1
      <3>1. t \in Nat /\ n \in Nat /\ Enough(n, t) /\ \A k \in 1..t : z.cells[k] = v.cells[k]
        BY <1>2, <1>6, <2>4, <2>6 DEF Enough
      <3> HIDE DEF t, n, v
      <3> QED  BY <3>1, SameBits
    <2> QED  BY <1>3, <2>1, <2>3, <2>7, <2>8, PoppedBitStep
  <1> QED  BY <1>9, <1>10

(* There is no bit in an empty set, and it is counted down from 0. *)
LEMMA EmptyPopStep ==
    ASSUME NEW b, BitsetCalled(b), b.size = 0, BitsetReturned(Delete(LastOf(b.size), 1), BitsetPop(b))
    PROVE  BitsetAstray
  <1> DEFINE v == b.bits
             w == [size |-> Wrap - 1, bits |-> v]
             u == [w EXCEPT !.bits.memory = TRUE]
  <1>1. /\ v \in VectorsOf(Bytes) /\ v \in VectorOf(Bytes) /\ v.size \in Nat /\ b = [size |-> 0, bits |-> v]
        /\ Fit(v) /\ Stored(v) /\ Width * v.size < 0 + Width /\ Width \in Nat \ {0} /\ b \in BitsetsOf
        /\ kind = "bitset" /\ watched = FALSE
    BY ContainerAssumption DEF BitsetCalled, BitsetMeant, BitsetsOf, VectorsOf, VectorOf, Covered
  <1>2. Wrap - 1 \in Nat /\ Wrap - 1 > 0 /\ (Wrap - 1) % Width # 0
    BY ContainerAssumption
  <1>3. v.size = 0 /\ Width * v.size = 0
    <2> DEFINE p == v.size
    <2>1. p \in Nat /\ Width * 0 = 0 /\ (0 < p => Width * 0 + Width <= Width * p)
      BY <1>1, Products
    <2> DEFINE x == Width * p
    <2>2. x \in Nat /\ x < Width /\ (0 < p => Width <= x)
      BY <1>1, <2>1, Products
    <2> HIDE DEF x
    <2>3. p = 0
      BY <1>1, <2>1, <2>2
    <2> QED  BY <2>1, <2>3
  <1>4. BitsetPop(b) = Result("SUCCESS", w, <<>>)
    <2> DEFINE fewer == [b EXCEPT !.size = Below(@)]
    <2>1. Below(0) = Wrap - 1
      BY DEF Below
    <2>2. fewer = w
      BY <1>1, <2>1
    <2>3. fewer.size = Wrap - 1
      BY <2>2
    <2>4. BitsetPop(b) = Success(fewer)
      BY <1>2, <2>3 DEF BitsetPop
    <2> QED  BY <2>2, <2>4 DEF Success
  <1>5. w \in BitsetsOf /\ w.size = Wrap - 1 /\ w.bits = v
    BY <1>1, <1>2 DEF BitsetsOf
  <1> HIDE DEF w
  <1>6. ~Backed(w)
    BY <1>2, <1>3, <1>5 DEF Backed
  <1>7. LastOf(b.size) = 0
    BY DEF LastOf
  <1>8. BitsetReturned(Operation("delete", 0, 1, <<>>), BitsetPop(b))
    BY <1>7 DEF Delete
  <1>9. body' = u /\ Calls("delete", 0, 1, <<>>, "SUCCESS", <<>>) /\ watched' = watched /\ kind' = "adrift"
    <2> DEFINE st == "SUCCESS"
    <2>1. (st # "NOT_ENOUGH_MEMORY") = TRUE /\ st = "SUCCESS"
      OBVIOUS
    <2> HIDE DEF st
    <2>2. /\ body' = [w EXCEPT !.bits.memory = st # "NOT_ENOUGH_MEMORY"]
          /\ Calls("delete", 0, 1, <<>>, st, <<>>) /\ watched' = watched
          /\ kind' = IF Backed(w) THEN kind ELSE "adrift"
      BY <1>4, <1>8, <2>1, BitsetReturns
    <2> QED  BY <1>6, <2>1, <2>2
  <1>10. /\ u \in BitsetsOf /\ u.size = w.size /\ Fit(u.bits) /\ Stored(u.bits)
         /\ u.bits.capacity = w.bits.capacity /\ u.bits.dynamic = w.bits.dynamic /\ u.bits.memory = TRUE
         /\ u.bits.size = w.bits.size /\ Bits(u) = Bits(w)
    BY <1>1, <1>5, BitsetAfter
  <1> HIDE DEF u
  <1>11. AdriftInv'
    BY <1>1, <1>9, <1>10 DEF AdriftInv, BitsetKept
  <1>12. Limit' = Limit
    <2>1. b.bits.dynamic = body.bits.dynamic /\ b.bits.capacity = body.bits.capacity
      BY DEF BitsetCalled, BitsetMeant
    <2> QED  BY <1>1, <1>5, <1>9, <1>10, <2>1 DEF Limit
  <1>13. Held = <<>> /\ Held' = <<>>
    <2>1. Held \in Seq({0, 1}) /\ Len(Held) = 0
      BY BitsetHeld
    <2> DEFINE n == IF u.size < Width * u.bits.size THEN u.size ELSE Width * u.bits.size
    <2>2. n = 0
      BY <1>2, <1>3, <1>5, <1>10
    <2>3. Bits(u) \in Seq({0, 1}) /\ Len(Bits(u)) = n
      BY <1>10, BitsOfBitset
    <2>4. Held' = Bits(u)
      BY <1>9 DEF Held
    <2> DEFINE h == Held
               y == Bits(u)
    <2>5. h \in Seq({0, 1}) /\ Len(h) = 0 /\ y \in Seq({0, 1}) /\ Len(y) = 0
      BY <2>1, <2>2, <2>3
    <2> HIDE DEF h, y, n
    <2>6. h = <<>> /\ y = <<>>
      BY <2>5
    <2> QED  BY <2>4, <2>6 DEF h, y
  <1>14. Told' = Wrap - 1
    BY <1>5, <1>9, <1>10 DEF Told
  <1>15. Sort = "bits" /\ Sort' = "adrift"
    BY <1>1, <1>9 DEF Sort
  <1>16. Abstract!Dropped(<<>>)
    BY <1>9, DroppedStep
  <1>17. call'.op = "delete" /\ call'.status = "SUCCESS"
    BY <1>9, CallFields
  <1>18. Abstract!Miscounted
    BY <1>9, <1>12, <1>13, <1>14, <1>15, <1>16, <1>17 DEF Abstract!Miscounted
  <1> QED  BY <1>9, <1>11, <1>18 DEF BitsetAstray

LEMMA ClearBitsStep ==
    ASSUME NEW b, BitsetMeant(b), kind \in {"bitset", "adrift"}, ClearBits(b)
    PROVE  Abstract!Answered /\ BitsetInv' /\ kind' = "bitset" /\ call'.op = "resize" /\ call'.count = 0
  <1> DEFINE v == b.bits
             zero == 0
             none == <<>>
             g == VectorResizeEx(v, zero, none)
             r == BitsetClear(b)
             op == "resize"
  <1>1. /\ v \in VectorsOf(Bytes) /\ Fit(v) /\ v.size \in Nat /\ v.capacity \in Nat
           /\ b = [size |-> b.size, bits |-> v]
        /\ v.size <= v.capacity
    BY DEF BitsetMeant, BitsetsOf, VectorsOf, VectorOf, Sound
  <1>2. r = Result(g.status, [size |-> zero, bits |-> g.v], <<>>)
    <2> DEFINE none_left == [b EXCEPT !.size = 0]
    <2>1. none_left = [size |-> 0, bits |-> v]
      BY <1>1
    <2>2. r = Result(g.status, WithBits(none_left, g.v), <<>>)
      BY DEF BitsetClear, OnBits, VectorClear
    <2> HIDE DEF none_left, g
    <2> QED  BY <2>1, <2>2 DEF WithBits
  <1>3. zero \in Nat /\ none \in Seq(Bytes) /\ Junk \in Bytes /\ ~(zero > v.size) /\ ~(v.capacity < zero)
          /\ Width * zero = 0
        /\ zero = 0
    BY <1>1, Products, ContainerAssumption DEF Bytes
  <1>4. /\ body' = [r.v EXCEPT !.bits.memory = TRUE] /\ kind' = "bitset" /\ watched' = watched
        /\ Called(Operation(op, zero, zero, none), r.status, <<>>)
    BY DEF ClearBits, Resize
  <1>5. op \in {"resize", "fill"}
    OBVIOUS
  <1> HIDE DEF zero, none, r, op
  <1>6. PICK z \in VectorsOf(Bytes) :
            /\ g = Result("SUCCESS", z, SubSeq(v.cells, zero + 1, v.size))
            /\ Kin(v, z) /\ Fit(z) /\ Extends(v, z, zero, none)
    <2>1. \/ \E z \in VectorsOf(Bytes) :
                /\ g = Result("SUCCESS", z, SubSeq(v.cells, zero + 1, v.size))
                /\ Kin(v, z) /\ Fit(z) /\ Extends(v, z, zero, none)
          \/ NoMemory(v, g) /\ zero > v.size
          \/ NoRoomFor(v, g, zero)
      BY <1>1, <1>3, ResizedVector
    <2> QED  BY <1>3, <2>1 DEF NoRoomFor
  <1>7. g.status = "SUCCESS" /\ g.v = z /\ z.size = zero
    BY <1>6 DEF Result, Extends
  <1> DEFINE w == [size |-> zero, bits |-> z]
  <1>8. r = Result("SUCCESS", w, <<>>)
    BY <1>2, <1>7
  <1>9. Stored(z) /\ zero <= Width * z.size /\ Width * z.size < zero + Width
    BY <1>3, <1>7, ContainerAssumption DEF Stored
  <1>10. w \in BitsetsOf /\ Stored(w.bits) /\ Covered(w) /\ w.size = zero /\ w.bits = z
    BY <1>3, <1>9, OtherBytes
  <1> DEFINE u == [w EXCEPT !.bits.memory = TRUE]
  <1>11. body' = u /\ Calls(op, zero, zero, none, "SUCCESS", <<>>) /\ watched = FALSE
    BY <1>4, <1>8 DEF Result, Calls, Called, BitsetMeant
  <1> HIDE DEF w
  <1>17. /\ u \in BitsetsOf /\ u.size = w.size /\ (Fit(w.bits) => Fit(u.bits)) /\ (Stored(w.bits) => Stored(u.bits))
         /\ u.bits.capacity = w.bits.capacity /\ u.bits.size = w.bits.size /\ u.bits.dynamic = w.bits.dynamic
         /\ Covered(u) = Covered(w)
    BY <1>10, BitsetAfter
  <1> HIDE DEF u
  <1>18. BitsetInv'
    BY <1>4, <1>6, <1>10, <1>11, <1>17 DEF BitsetInv, BitsetKept
  <1>19. Steady
    <2>1. v.dynamic = body.bits.dynamic /\ v.capacity = body.bits.capacity
      BY DEF BitsetMeant
    <2>2. z.dynamic = v.dynamic /\ (~v.dynamic => z.capacity = v.capacity)
      BY <1>6 DEF Kin
    <2>3. Limit' = Limit
      BY <1>4, <1>10, <1>11, <1>17, <2>1, <2>2 DEF Limit
    <2> QED  BY <1>4, <2>3 DEF Steady
  <1> DEFINE out == SubSeq(Held, zero + 1, Len(Held))
             h == Held'
  <1>12. Calls(op, zero, zero, none, "SUCCESS", out)
    BY <1>11, NothingDropped
  <1>13. /\ h \in Seq(Contained) /\ Len(h) = zero
    <2> DEFINE n == IF u.size < Width * u.bits.size THEN u.size ELSE Width * u.bits.size
    <2>1. n = zero
      BY <1>3, <1>7, <1>10, <1>17
    <2>2. Bits(u) \in Seq({0, 1}) /\ Len(Bits(u)) = n
      BY <1>10, <1>17, BitsOfBitset
    <2>3. h = Bits(u)
      BY <1>4, <1>11 DEF Held
    <2>4. h \in Seq({0, 1}) /\ Len(h) = zero /\ {0, 1} \subseteq Contained
      BY <2>1, <2>2, <2>3 DEF Contained
    <2> HIDE DEF h
    <2> QED  BY <2>4, OfMore
  <1>14. \A k \in 1..zero : IF k <= Len(Held) THEN h[k] = Held[k] ELSE none # <<>> => h[k] = none[1]
    BY <1>3
  <1>15. Held \in Seq({0, 1})
    <2> DEFINE n == IF b.size < Width * b.bits.size THEN b.size ELSE Width * b.bits.size
    <2>1. Held = Bits(body) /\ Bits(body) = Bits(b)
      BY DEF BitsetMeant, Held, Bits
    <2>2. b \in BitsetsOf /\ Stored(b.bits)
      BY DEF BitsetMeant
    <2>3. Bits(b) \in Seq({0, 1})
      BY <2>2, BitsOfBitset
    <2> QED  BY <2>1, <2>3
  <1>16. Abstract!Answered
    <2>1. Calls(op, 0, zero, none, "SUCCESS", out)
      BY <1>3, <1>12
    <2> QED  BY <1>3, <1>5, <1>13, <1>14, <1>15, <1>19, <2>1, ResizeStep
  <1>20. call'.op = "resize" /\ call'.count = 0
    BY <1>3, <1>11, CallFields DEF op
  <1> QED  BY <1>4, <1>16, <1>18, <1>20

LEMMA BitsetOutOfMemory ==
    ASSUME NEW b, BitsetCalled(b), b.bits.dynamic, NEW c \in Nat, c > b.bits.capacity,
           NEW op, NEW at, NEW count, NEW new, NEW r,
           r = Result("NOT_ENOUGH_MEMORY", [size |-> b.size, bits |-> [b.bits EXCEPT !.capacity = c]], <<>>),
           BitsetReturned(Operation(op, at, count, new), r)
    PROVE  Turned(op, at, count, new, "NOT_ENOUGH_MEMORY") /\ BitsetInv' /\ kind' = kind
  <1> DEFINE v == b.bits
             z == [v EXCEPT !.capacity = c]
             w == [size |-> b.size, bits |-> z]
             st == "NOT_ENOUGH_MEMORY"
  <1>1. v \in VectorsOf(Bytes) /\ v \in VectorOf(Bytes) /\ Sound(v) /\ v.capacity \in Nat /\ b.size \in Nat
    BY DEF BitsetCalled, BitsetMeant, BitsetsOf, VectorsOf, VectorOf
  <1>2. /\ z \in VectorOf(Bytes) /\ z.cells = v.cells /\ z.size = v.size /\ z.capacity = c
        /\ z.growth = v.growth /\ z.threshold = v.threshold /\ z.dynamic = v.dynamic /\ z.memory = v.memory
    BY <1>1 DEF VectorOf
  <1>3. r = Result(st, w, <<>>) /\ st = "NOT_ENOUGH_MEMORY"
    OBVIOUS
  <1> HIDE DEF z, st
  <1>4. Sound(z)
    <2>1. /\ v.capacity \in Nat /\ c \in Nat /\ c > v.capacity /\ v.size \in Nat /\ v.dynamic
          /\ Settled(v) /\ v.size <= v.capacity /\ v.size <= Len(v.cells)
      BY <1>1 DEF Sound, VectorOf
    <2> QED  BY <1>2, <2>1 DEF Sound, Settled
  <1>5. z \in VectorsOf(Bytes)
    BY <1>2, <1>4 DEF VectorsOf
  <1>6. w \in BitsetsOf /\ w.bits = z /\ w.size = b.size
    BY <1>1, <1>5 DEF BitsetsOf
  <1> HIDE DEF w
  <1>7. w.bits.cells = b.bits.cells /\ w.bits.size = b.bits.size /\ w.bits.dynamic = b.bits.dynamic
    BY <1>2, <1>6
  <1>8. w \in BitsetsOf /\ r = Result("NOT_ENOUGH_MEMORY", w, <<>>) /\ w.size = b.size
    BY <1>3, <1>6
  <1> HIDE DEF v
  <1> QED  BY <1>7, <1>8, BitsetFails

(* What comes of making room for n bytes *)
Refitted(v, g, n, size) ==
    \/ \E z \in VectorsOf(Bytes) : g = Success(z) /\ Kin(v, z) /\ Fit(z) /\ Extends(v, z, v.size, <<>>)
    \/ NoMemory(v, g)
    \/ NoRoomFor(v, g, n) /\ Width * n <= size

LEMMA ReserveBitsStep ==
    ASSUME NEW b, BitsetCalled(b), NEW size \in Nat, NEW n \in Nat, NEW g,
           BitsetReturned(Reserve(size), OnBits(b, g)), Refitted(b.bits, g, n, size)
    PROVE  BitsetDone
  <1> DEFINE v == b.bits
             p == v.size
             i == b.size
             r == OnBits(b, g)
  <1>1. /\ v \in VectorsOf(Bytes) /\ v \in VectorOf(Bytes) /\ i \in Nat /\ p \in Nat /\ b = [size |-> i, bits |-> v]
        /\ Fit(v) /\ Stored(v) /\ Sound(v) /\ i <= Width * p /\ Width * p < i + Width /\ v.capacity \in Nat
        /\ Width \in Nat \ {0} /\ b \in BitsetsOf
    BY ContainerAssumption DEF BitsetCalled, BitsetMeant, BitsetsOf, VectorsOf, VectorOf, Covered
  <1>2. r = Result(g.status, [size |-> i, bits |-> g.v], <<>>)
    <2>1. r = Result(g.status, WithBits(b, g.v), <<>>)
      BY DEF OnBits
    <2> HIDE DEF i, v
    <2>2. WithBits(b, g.v) = [size |-> i, bits |-> g.v]
      BY <1>1 DEF WithBits
    <2> QED  BY <2>1, <2>2
  <1>3. BitsetReturned(Operation("reserve", 0, size, <<>>), r)
    BY DEF Reserve
  <1>4. /\ Held \in Seq({0, 1}) /\ Len(Held) = i
        /\ \A k \in 1..i : Held[k] = BitIn(v, k)
    BY BitsetHeld
  <1> HIDE DEF r
  <1>5. ASSUME NEW z \in VectorsOf(Bytes), g = Success(z), Kin(v, z), Fit(z), Extends(v, z, p, <<>>)
        PROVE  Abstract!Answered /\ BitsetInv' /\ kind' = kind
    <2> DEFINE w == [size |-> i, bits |-> z]
    <2>1. r = Result("SUCCESS", w, <<>>)
      BY <1>2, <1>5 DEF Success, Result
    <2>2. z.size = p /\ \A k \in 1..p : z.cells[k] = v.cells[k]
      BY <1>1, <1>5 DEF Extends
    <2>3. Stored(z)
      BY <1>1, <2>2 DEF Stored
    <2>4. w \in BitsetsOf /\ Stored(w.bits) /\ Covered(w) /\ w.size = i /\ w.bits = z
      BY <1>1, <2>2, <2>3, OtherBytes
    <2> HIDE DEF w
    <2>5. \A k \in 1..i : BitIn(z, k) = BitIn(v, k)
      <3>1. i \in Nat /\ p \in Nat /\ Enough(i, p)
        BY <1>1 DEF Enough
      <3> HIDE DEF i, p, v
      <3> QED  BY <2>2, <3>1, SameBits
    <2>6. (\A o : Calls("reserve", 0, size, <<>>, "SUCCESS", o)) /\ BitsetLeft(w)
      BY <1>3, <1>5, <2>1, <2>4, BitsetLeaves
    <2> DEFINE h == Held
               t == Held'
    <2>7. t = h
      <3>1. h \in Seq({0, 1}) /\ t \in Seq({0, 1}) /\ Len(h) = Len(t) /\ \A k \in 1..Len(h) : h[k] = t[k]
        BY <1>4, <2>4, <2>5, <2>6 DEF BitsetLeft
      <3> HIDE DEF h, t
      <3> QED  BY <3>1, SameSequence
    <2>8. Calls("reserve", 0, size, <<>>, "SUCCESS", <<>>) /\ Steady
      BY <2>6 DEF BitsetLeft
    <2>9. Abstract!Answered
      BY <2>7, <2>8, ReserveStep
    <2> QED  BY <2>6, <2>9 DEF BitsetLeft
  <1>6. ASSUME NoMemory(v, g)
        PROVE  Abstract!Answered /\ BitsetInv' /\ kind' = kind
    <2>1. PICK c \in Nat : c > v.capacity /\ g = Fails("NOT_ENOUGH_MEMORY", [v EXCEPT !.capacity = c]) /\ v.dynamic
      BY <1>6 DEF NoMemory
    <2>2. g.status = "NOT_ENOUGH_MEMORY" /\ g.v = [v EXCEPT !.capacity = c]
      BY <2>1 DEF Fails, Result
    <2>3. r = Result("NOT_ENOUGH_MEMORY", [size |-> i, bits |-> [v EXCEPT !.capacity = c]], <<>>)
      BY <1>2, <2>2
    <2> HIDE DEF i, v
    <2>6. Turned("reserve", 0, size, <<>>, "NOT_ENOUGH_MEMORY") /\ BitsetInv' /\ kind' = kind
      BY <1>3, <2>1, <2>3, BitsetOutOfMemory DEF i, v
    <2>7. Limit = Unlimited
      BY <2>1, BitsetHeld DEF v
    <2>8. Abstract!Answered
      BY <2>6, <2>7, RefusedStep
    <2> QED  BY <2>6, <2>8
  <1>7. ASSUME NoRoomFor(v, g, n) /\ Width * n <= size
        PROVE  Abstract!Answered /\ BitsetInv' /\ kind' = kind
    <2>1. g = Fails("INSUFFICIENT_BUFFER_SIZE", v) /\ ~v.dynamic /\ v.capacity < n
      BY <1>7 DEF NoRoomFor
    <2>2. r = Fails("INSUFFICIENT_BUFFER_SIZE", b)
      BY <1>1, <1>2, <2>1 DEF Fails, Result
    <2>3. Turned("reserve", 0, size, <<>>, "INSUFFICIENT_BUFFER_SIZE") /\ BitsetInv' /\ kind' = kind
      BY <1>3, <2>2, BitsetTurned
    <2>4. Limit = Width * v.capacity /\ Limit # Unlimited
      BY <2>1, BitsetHeld
    <2>5. Limit < size
      <3>1. Width * v.capacity + Width <= Width * n /\ Width * n \in Nat /\ Width * v.capacity \in Nat
        BY <1>1, <2>1, Products
      <3> DEFINE x == Width * v.capacity
                 y == Width * n
      <3>2. x + Width <= y /\ x \in Nat /\ y \in Nat /\ y <= size /\ Limit = x
        BY <1>7, <2>4, <3>1
      <3> HIDE DEF x, y
      <3> QED  BY <1>1, <3>2
    <2>6. Abstract!Answered
      BY <2>3, <2>4, <2>5, NoRoomToReserve
    <2> QED  BY <2>3, <2>6
  <1>8. Abstract!Answered /\ BitsetInv' /\ kind' = kind
    BY <1>5, <1>6, <1>7 DEF Refitted
  <1> QED  BY <1>3, <1>8, BitsetGoes DEF BitsetCalled

LEMMA SizeChangesSteps ==
    ASSUME NEW b, BitsetCalled(b), SizeChanges(b)
    PROVE  BitsetDone \/ BitsetAstray
  <1>1. b.bits \in VectorsOf(Bytes) /\ Fit(b.bits) /\ Junk \in Bytes /\ b.size \in Nat
    BY DEF BitsetCalled, BitsetMeant, BitsetsOf, Bytes
  <1>2. ASSUME NEW bit \in {0, 1}, b.size <= MaxItems, BitsetReturned(Insert(b.size, <<bit>>), BitsetPush(b, bit))
        PROVE  BitsetDone \/ BitsetAstray
    BY <1>2, PushBitStep
  <1>3. CASE BitsetReturned(Delete(LastOf(b.size), 1), BitsetPop(b))
    <2>1. CASE b.size > 0
      BY <1>3, <2>1, PopBitStep
    <2>2. CASE b.size = 0
      BY <1>3, <2>2, EmptyPopStep
    <2> QED  BY <1>1, <2>1, <2>2
  <1>4. ~BelowNothing(b)
    BY DEF BelowNothing, BitsetCalled
  <1>5. ASSUME NEW count \in Sizes, BitsetReturned(Reserve(count), BitsetReserve(b, count))
        PROVE  BitsetDone
    <2> DEFINE n == count \div Width
               g == VectorReserve(b.bits, n)
    <2>1. count \in Nat /\ Width \in Nat \ {0}
      BY ContainerAssumption DEF Sizes
    <2>2. n \in Nat /\ Width * n <= count
      <3> DEFINE r == count % Width
                 x == Width * n
      <3>1. n \in Nat /\ r \in Nat /\ count = x + r
        BY <2>1, Division
      <3>2. x \in Nat
        BY <2>1, <3>1, Products
      <3> HIDE DEF x, r
      <3>3. x <= count
        BY <3>1, <3>2
      <3> QED  BY <3>1, <3>3 DEF x
    <2>3. BitsetReturned(Reserve(count), OnBits(b, g))
      BY <1>5 DEF BitsetReserve, BitsToBytes
    <2> HIDE DEF n
    <2>4. \/ \E w \in VectorsOf(Bytes) : g = Success(w) /\ Kin(b.bits, w) /\ Fit(w)
             /\ Extends(b.bits, w, b.bits.size, <<>>)
          \/ NoMemory(b.bits, g)
          \/ NoRoomFor(b.bits, g, n)
      BY <1>1, <2>2, ReservedVector
    <2> HIDE DEF g
    <2>5. Refitted(b.bits, g, n, count)
      BY <2>2, <2>4 DEF Refitted
    <2> QED  BY <2>1, <2>2, <2>3, <2>5, ReserveBitsStep
  <1>6. CASE BitsetReturned(Reserve(0), BitsetShrinkToFit(b))
    <2> DEFINE g == VectorShrinkToFit(b.bits)
               zero == 0
    <2>1. \E w \in VectorsOf(Bytes) : g = Success(w) /\ Kin(b.bits, w) /\ Fit(w)
            /\ Extends(b.bits, w, b.bits.size, <<>>)
      BY <1>1, FittedVector
    <2>2. BitsetReturned(Reserve(zero), OnBits(b, g)) /\ zero \in Nat
      BY <1>6 DEF BitsetShrinkToFit
    <2> HIDE DEF g, zero
    <2>3. Refitted(b.bits, g, zero, zero)
      BY <2>1 DEF Refitted
    <2> QED  BY <2>2, <2>3, ReserveBitsStep
  <1> QED  BY <1>2, <1>3, <1>4, <1>5, <1>6 DEF SizeChanges

-----------------------------------------------------------------------------
(* Sets that have gone adrift *)

(* A result that stays in the memory it has *)
Afloat(b, r) ==
    /\ r.v \in BitsetsOf /\ Stored(r.v.bits) /\ r.v.bits.dynamic = b.bits.dynamic
    /\ ~b.bits.dynamic => r.v.bits.capacity = b.bits.capacity
    /\ IF r.status = "NOT_ENOUGH_MEMORY" THEN b.bits.dynamic ELSE Fit(r.v.bits)

AdriftDone == Abstract!Adrift /\ AdriftInv' /\ kind' = "adrift"

LEMMA AdriftReturns ==
    ASSUME NEW b, AdriftCalled(b), NEW c, NEW r, Afloat(b, r), BitsetReturned(c, r)
    PROVE  AdriftDone
  <1> DEFINE m == r.status # "NOT_ENOUGH_MEMORY"
             w == r.v
             u == [w EXCEPT !.bits.memory = m]
  <1>1. /\ w \in BitsetsOf /\ Stored(w.bits) /\ w.bits.dynamic = b.bits.dynamic
        /\ ~b.bits.dynamic => w.bits.capacity = b.bits.capacity /\ m
        /\ m => Fit(w.bits)
    BY DEF Afloat
  <1>2. kind = "adrift" /\ watched = FALSE
    BY DEF AdriftCalled, BitsetMeant
  <1>3. body' = u /\ kind' = "adrift" /\ watched' = FALSE /\ dropped' = Tally(IF watched THEN r.out ELSE <<>>)
    BY <1>2 DEF BitsetReturned, Called
  <1>4. m \in BOOLEAN /\ (~w.bits.dynamic => m)
    BY <1>1
  <1> HIDE DEF m, w
  <1>5. /\ u \in BitsetsOf /\ (Fit(w.bits) => Fit(u.bits)) /\ (Stored(w.bits) => Stored(u.bits))
        /\ u.bits.capacity = w.bits.capacity /\ u.bits.dynamic = w.bits.dynamic /\ u.bits.memory = m
    BY <1>1, <1>4, BitsetAfter
  <1> HIDE DEF u
  <1>6. AdriftInv'
    BY <1>1, <1>3, <1>5 DEF AdriftInv, BitsetKept
  <1>7. Limit' = Limit
    <2>1. b.bits.dynamic = body.bits.dynamic /\ b.bits.capacity = body.bits.capacity
      BY DEF AdriftCalled, BitsetMeant
    <2> QED  BY <1>1, <1>2, <1>3, <1>5, <2>1 DEF Limit
  <1>8. Sort = "adrift" /\ Sort' = "adrift"
    BY <1>2, <1>3 DEF Sort
  <1>9. Abstract!Dropped(<<>>)
    BY <1>2, <1>3, SameTally DEF Abstract!Dropped
  <1>10. Abstract!Adrift
    BY <1>2, <1>3, <1>7, <1>8, <1>9 DEF Abstract!Adrift
  <1> QED  BY <1>3, <1>6, <1>10 DEF AdriftDone

LEMMA AssignedAfloat ==
    ASSUME NEW b, NEW w \in BitsetsOf, Fit(w.bits), Stored(w.bits), Kin(b.bits, w.bits), NEW i \in Nat, NEW x \in {0, 1}
    PROVE  Afloat(b, BitsetAssign(w, i, x))
  <1> DEFINE r == BitsetAssign(w, i, x)
  <1>1. r = Fails("OUT_OF_RANGE", w) \/ (VectorGet(w.bits, i \div Width) # <<>> /\ r = Success(WithBit(w, i, x)))
    <2>1. CASE x = 1
      BY <2>1 DEF BitsetAssign, BitsetSet, BitChanged, WithBit
    <2>2. CASE x = 0
      BY <2>2 DEF BitsetAssign, BitsetReset, BitChanged, WithBit
    <2> QED  BY <2>1, <2>2
  <1> HIDE DEF r
  <1>2. CASE r = Fails("OUT_OF_RANGE", w)
    <2>1. r.status = "OUT_OF_RANGE" /\ r.v = w
      BY <1>2 DEF Fails, Result
    <2> QED  BY <2>1 DEF Afloat, Kin, r
  <1>3. CASE VectorGet(w.bits, i \div Width) # <<>> /\ r = Success(WithBit(w, i, x))
    <2> DEFINE u == WithBit(w, i, x)
    <2>1. i \div Width < w.bits.size
      BY <1>3 DEF VectorGet
    <2>2. u \in BitsetsOf /\ Kin(w.bits, u.bits) /\ Fit(u.bits) /\ Stored(u.bits)
      BY <2>1, StoredBit
    <2>3. r.status = "SUCCESS" /\ r.v = u
      BY <1>3 DEF Success, Result
    <2> HIDE DEF u
    <2> QED  BY <2>2, <2>3 DEF Afloat, Kin, r
  <1> QED  BY <1>1, <1>2, <1>3

LEMMA BitChangesAdrift ==
    ASSUME NEW b, AdriftCalled(b), BitChanges(b)
    PROVE  AdriftDone
  <1>1. b \in BitsetsOf /\ Fit(b.bits) /\ Stored(b.bits) /\ Kin(b.bits, b.bits) /\ b.size \in Nat
    BY DEF AdriftCalled, BitsetMeant, BitsetsOf, Kin
  <1>2. PICK i \in 0 .. b.size :
        \/ BitsetReturned(Overwrite(i, <<1>>), BitsetSet(b, i))
        \/ BitsetReturned(Overwrite(i, <<0>>), BitsetReset(b, i))
        \/ BitsetReturned(Overwrite(i, <<IF i < Len(Bits(b)) THEN 1 - Bits(b)[i + 1] ELSE 0>>), BitsetToggle(b, i))
        \/ \E bit \in {0, 1} : BitsetReturned(Overwrite(i, <<bit>>), BitsetAssign(b, i, bit))
    BY DEF BitChanges
  <1>3. i \in Nat
    BY <1>1
  <1>4. ASSUME NEW x \in {0, 1}
        PROVE  Afloat(b, BitsetAssign(b, i, x))
    BY <1>1, <1>3, AssignedAfloat
  <1>5. Afloat(b, BitsetSet(b, i)) /\ Afloat(b, BitsetReset(b, i))
    <2>1. BitsetAssign(b, i, 1) = BitsetSet(b, i) /\ BitsetAssign(b, i, 0) = BitsetReset(b, i)
      BY DEF BitsetAssign
    <2>2. Afloat(b, BitsetAssign(b, i, 1)) /\ Afloat(b, BitsetAssign(b, i, 0))
      BY <1>4
    <2> QED  BY <2>1, <2>2
  <1>6. Afloat(b, BitsetToggle(b, i))
    <2> DEFINE x == 1 - b.bits.cells[(i \div Width) + 1][(i % Width) + 1]
               r == BitsetToggle(b, i)
    <2>1. r = Fails("OUT_OF_RANGE", b) \/ (VectorGet(b.bits, i \div Width) # <<>> /\ r = Success(WithBit(b, i, x)))
      BY DEF BitsetToggle, BitChanged, WithBit
    <2>2. CASE r = Fails("OUT_OF_RANGE", b)
      <3>1. r.status = "OUT_OF_RANGE" /\ r.v = b
        BY <2>2 DEF Fails, Result
      <3> HIDE DEF r
      <3> QED  BY <1>1, <3>1 DEF Afloat, Kin, r
    <2>3. CASE VectorGet(b.bits, i \div Width) # <<>> /\ r = Success(WithBit(b, i, x))
      <3> DEFINE q == i \div Width
                 u == WithBit(b, i, x)
      <3>1. b.bits.size \in Nat /\ q \in Nat /\ i % Width \in Nat /\ i % Width < Width /\ Width \in Nat \ {0}
        BY <1>1, <1>3, Division, ContainerAssumption DEF BitsetsOf, VectorsOf, VectorOf
      <3>2. q < b.bits.size
        BY <2>3 DEF VectorGet
      <3>3. x \in {0, 1}
        <4>1. q + 1 \in 1..b.bits.size /\ (i % Width) + 1 \in 1..Width
          BY <3>1, <3>2
        <4>2. b.bits.cells[q + 1] \in Byte
          BY <1>1, <4>1 DEF Stored
        <4>3. b.bits.cells[q + 1][(i % Width) + 1] \in {0, 1}
          BY <4>1, <4>2 DEF Byte
        <4> QED  BY <4>3
      <3> HIDE DEF x
      <3>4. u \in BitsetsOf /\ Kin(b.bits, u.bits) /\ Fit(u.bits) /\ Stored(u.bits)
        BY <1>1, <1>3, <3>2, <3>3, StoredBit
      <3>5. r.status = "SUCCESS" /\ r.v = u
        BY <2>3 DEF Success, Result
      <3> HIDE DEF u, r
      <3> QED  BY <3>4, <3>5 DEF Afloat, Kin, r
    <2> QED  BY <2>1, <2>2, <2>3
  <1> QED  BY <1>2, <1>4, <1>5, <1>6, AdriftReturns

LEMMA BytesAfloat ==
    ASSUME NEW b, AdriftCalled(b), NEW cells, ByteCells(b, cells), NEW r, r = Success([b EXCEPT !.bits.cells = cells])
    PROVE  Afloat(b, r)
  <1> DEFINE w == [b EXCEPT !.bits.cells = cells]
  <1>1. b \in BitsetsOf /\ Fit(b.bits)
    BY DEF AdriftCalled, BitsetMeant
  <1>2. w \in BitsetsOf /\ Kin(b.bits, w.bits) /\ Fit(w.bits) /\ Stored(w.bits)
    BY <1>1, StoredBytes
  <1>3. r.status = "SUCCESS" /\ r.v = w
    BY DEF Success, Result
  <1> HIDE DEF w
  <1> QED  BY <1>2, <1>3 DEF Afloat, Kin

LEMMA ByteChangesAdrift ==
    ASSUME NEW b, AdriftCalled(b), ByteChanges(b)
    PROVE  AdriftDone
  <1> DEFINE v == b.bits
             o == Other(b)
             altered == [k \in DOMAIN v.cells |-> [j \in 1..Width |-> j % 2]]
  <1>1. /\ v \in VectorOf(Bytes) /\ v.cells \in Seq(Bytes) /\ Len(v.cells) \in Nat
        /\ b.size \in Nat /\ v.size \in Nat /\ v.size <= Len(v.cells) /\ b = [size |-> b.size, bits |-> v]
        /\ DOMAIN v.cells = 1..Len(v.cells) /\ Stored(v)
    BY DEF AdriftCalled, BitsetMeant, BitsetsOf, VectorsOf, VectorOf, Sound
  <1>2. ASSUME NEW k \in 1..v.size
        PROVE  v.cells[k] \in Byte /\ (\A j \in 1..Width : v.cells[k][j] \in {0, 1}) /\ k \in DOMAIN v.cells
    <2>1. v.cells[k] \in Byte
      BY <1>1 DEF Stored
    <2>2. k \in DOMAIN v.cells
      BY <1>1
    <2> QED  BY <2>1, <2>2 DEF Byte
  <1>3. o.bits.cells = altered /\ o.bits.size = v.size
    BY <1>1 DEF Other, VectorOf
  <1>4. \A k \in DOMAIN v.cells, j \in 1..Width : altered[k][j] \in {0, 1}
    BY ContainerAssumption
  <1> HIDE DEF altered, o
  <1>5. ASSUME BitsetReturned(Overwrite(0, [k \in 1 .. Len(Bits(b)) |-> 1 - Bits(b)[k]]), BitsetFlip(b))
        PROVE  AdriftDone
    <2> DEFINE cells == [k \in DOMAIN v.cells |-> IF k <= v.size THEN [j \in 1..Width |-> 1 - v.cells[k][j]] ELSE v.cells[k]]
               r == BitsetFlip(b)
    <2>1. r = Success([b EXCEPT !.bits.cells = cells])
      BY DEF BitsetFlip, BytesChanged
    <2>2. ASSUME NEW k \in 1..Len(v.cells)
          PROVE  IF k <= v.size THEN cells[k] \in Byte ELSE cells[k] = v.cells[k]
      <3>1. CASE k <= v.size
        <4>1. k \in 1..v.size
          BY <1>1, <3>1
        <4>2. \A j \in 1..Width : 1 - v.cells[k][j] \in {0, 1}
          BY <1>2, <1>4, <4>1
        <4>3. [j \in 1..Width |-> 1 - v.cells[k][j]] \in Byte
          BY <4>2 DEF Byte
        <4> QED  BY <1>1, <3>1, <4>3
      <3> QED  BY <1>1, <3>1
    <2>3. cells = [k \in DOMAIN b.bits.cells |-> cells[k]] /\ BitsetReturned(Overwrite(0, [k \in 1 .. Len(Bits(b)) |-> 1 - Bits(b)[k]]), r)
      BY <1>5
    <2> HIDE DEF cells, r
    <2>4. ByteCells(b, cells)
      BY <2>2, <2>3 DEF ByteCells
    <2>5. Afloat(b, r)
      BY <2>1, <2>4, BytesAfloat
    <2> QED  BY <2>3, <2>5, AdriftReturns
  <1>6. ASSUME BitsetReturned(Overwrite(0, [k \in 1 .. Len(Bits(b)) |-> 1]), BitsetSetAll(b))
        PROVE  AdriftDone
    <2> DEFINE cells == [k \in DOMAIN v.cells |-> IF k <= v.size THEN [j \in 1..Width |-> 1] ELSE v.cells[k]]
               r == BitsetSetAll(b)
    <2>1. r = Success([b EXCEPT !.bits.cells = cells])
      BY DEF BitsetSetAll, BytesChanged
    <2>2. ASSUME NEW k \in 1..Len(v.cells)
          PROVE  IF k <= v.size THEN cells[k] \in Byte ELSE cells[k] = v.cells[k]
      <3>1. CASE k <= v.size
        <4>1. k \in 1..v.size
          BY <1>1, <3>1
        <4>2. \A j \in 1..Width : 1 \in {0, 1}
          BY <1>2, <1>4, <4>1
        <4>3. [j \in 1..Width |-> 1] \in Byte
          BY <4>2 DEF Byte
        <4> QED  BY <1>1, <3>1, <4>3
      <3> QED  BY <1>1, <3>1
    <2>3. cells = [k \in DOMAIN b.bits.cells |-> cells[k]] /\ BitsetReturned(Overwrite(0, [k \in 1 .. Len(Bits(b)) |-> 1]), r)
      BY <1>6
    <2> HIDE DEF cells, r
    <2>4. ByteCells(b, cells)
      BY <2>2, <2>3 DEF ByteCells
    <2>5. Afloat(b, r)
      BY <2>1, <2>4, BytesAfloat
    <2> QED  BY <2>3, <2>5, AdriftReturns
  <1>7. ASSUME BitsetReturned(Overwrite(0, [k \in 1 .. Len(Bits(b)) |-> 0]), BitsetResetAll(b))
        PROVE  AdriftDone
    <2> DEFINE cells == [k \in DOMAIN v.cells |-> IF k <= v.size THEN [j \in 1..Width |-> 0] ELSE v.cells[k]]
               r == BitsetResetAll(b)
    <2>1. r = Success([b EXCEPT !.bits.cells = cells])
      BY DEF BitsetResetAll, BytesChanged
    <2>2. ASSUME NEW k \in 1..Len(v.cells)
          PROVE  IF k <= v.size THEN cells[k] \in Byte ELSE cells[k] = v.cells[k]
      <3>1. CASE k <= v.size
        <4>1. k \in 1..v.size
          BY <1>1, <3>1
        <4>2. \A j \in 1..Width : 0 \in {0, 1}
          BY <1>2, <1>4, <4>1
        <4>3. [j \in 1..Width |-> 0] \in Byte
          BY <4>2 DEF Byte
        <4> QED  BY <1>1, <3>1, <4>3
      <3> QED  BY <1>1, <3>1
    <2>3. cells = [k \in DOMAIN b.bits.cells |-> cells[k]] /\ BitsetReturned(Overwrite(0, [k \in 1 .. Len(Bits(b)) |-> 0]), r)
      BY <1>7
    <2> HIDE DEF cells, r
    <2>4. ByteCells(b, cells)
      BY <2>2, <2>3 DEF ByteCells
    <2>5. Afloat(b, r)
      BY <2>1, <2>4, BytesAfloat
    <2> QED  BY <2>3, <2>5, AdriftReturns
  <1>8. ASSUME NEW op \in [{0, 1} -> [{0, 1} -> {0, 1}]],
               BitsetReturned(Overwrite(0, Combined(b, op)), PerformByteOperation(b, Other(b), op))
        PROVE  AdriftDone
    <2> DEFINE cells == [k \in DOMAIN v.cells |-> IF k <= v.size THEN [j \in 1..Width |-> op[v.cells[k][j]][altered[k][j]]] ELSE v.cells[k]]
               r == PerformByteOperation(b, Other(b), op)
    <2>1. r = Success([b EXCEPT !.bits.cells = cells])
      <3>1. (IF v.size < o.bits.size THEN v.size ELSE o.bits.size) = v.size
        BY <1>1, <1>3
      <3>2. r = Success(BytesChanged(b, v.size, LAMBDA k, j : op[v.cells[k][j]][o.bits.cells[k][j]]))
        BY <3>1 DEF PerformByteOperation, o
      <3> QED  BY <1>3, <3>2 DEF BytesChanged
    <2>2. ASSUME NEW k \in 1..Len(v.cells)
          PROVE  IF k <= v.size THEN cells[k] \in Byte ELSE cells[k] = v.cells[k]
      <3>1. CASE k <= v.size
        <4>1. k \in 1..v.size
          BY <1>1, <3>1
        <4>2. \A j \in 1..Width : op[v.cells[k][j]][altered[k][j]] \in {0, 1}
          BY <1>2, <1>4, <4>1, <1>8
        <4>3. [j \in 1..Width |-> op[v.cells[k][j]][altered[k][j]]] \in Byte
          BY <4>2 DEF Byte
        <4> QED  BY <1>1, <3>1, <4>3
      <3> QED  BY <1>1, <3>1
    <2>3. cells = [k \in DOMAIN b.bits.cells |-> cells[k]] /\ BitsetReturned(Overwrite(0, Combined(b, op)), r)
      BY <1>8
    <2> HIDE DEF cells, r
    <2>4. ByteCells(b, cells)
      BY <2>2, <2>3 DEF ByteCells
    <2>5. Afloat(b, r)
      BY <2>1, <2>4, BytesAfloat
    <2> QED  BY <2>3, <2>5, AdriftReturns
  <1>9. BitAnd \in [{0, 1} -> [{0, 1} -> {0, 1}]] /\ BitOr \in [{0, 1} -> [{0, 1} -> {0, 1}]]
          /\ BitXor \in [{0, 1} -> [{0, 1} -> {0, 1}]]
    BY DEF BitAnd, BitOr, BitXor
  <1> QED  BY <1>5, <1>6, <1>7, <1>8, <1>9 DEF ByteChanges

(* A call on the bytes, with another size or the same *)
LEMMA BytesAfter ==
    ASSUME NEW b, AdriftCalled(b), NEW n \in Nat, NEW g, NEW r, r = Result(g.status, [size |-> n, bits |-> g.v], <<>>),
           \/ \E z \in VectorsOf(Bytes) :
                g.status # "NOT_ENOUGH_MEMORY" /\ g.v = z /\ Kin(b.bits, z) /\ Fit(z) /\ Stored(z)
           \/ NoMemory(b.bits, g)
           \/ \E k \in Nat : NoRoomFor(b.bits, g, k)
    PROVE  Afloat(b, r)
  <1> DEFINE v == b.bits
             w == [size |-> n, bits |-> g.v]
  <1>1. /\ v \in VectorsOf(Bytes) /\ v \in VectorOf(Bytes) /\ Fit(v) /\ Stored(v) /\ Sound(v) /\ v.capacity \in Nat
        /\ v.size \in Nat
    BY DEF AdriftCalled, BitsetMeant, BitsetsOf, VectorsOf, VectorOf
  <1>2. r.status = g.status /\ r.v = w
    BY DEF Result
  <1> HIDE DEF w
  <1>3. ASSUME NEW z \in VectorsOf(Bytes), g.v = z
        PROVE  w \in BitsetsOf /\ w.bits = z
    BY <1>3 DEF BitsetsOf, w
  <1>4. CASE \E z \in VectorsOf(Bytes) :
                g.status # "NOT_ENOUGH_MEMORY" /\ g.v = z /\ Kin(v, z) /\ Fit(z) /\ Stored(z)
    BY <1>2, <1>3, <1>4 DEF Afloat, Kin
  <1>5. CASE NoMemory(v, g)
    <2>1. PICK c \in Nat : c > v.capacity /\ g = Fails("NOT_ENOUGH_MEMORY", [v EXCEPT !.capacity = c]) /\ v.dynamic
      BY <1>5 DEF NoMemory
    <2> DEFINE z == [v EXCEPT !.capacity = c]
    <2>2. g.status = "NOT_ENOUGH_MEMORY" /\ g.v = z
      BY <2>1 DEF Fails, Result
    <2>3. /\ z \in VectorOf(Bytes) /\ z.cells = v.cells /\ z.size = v.size /\ z.capacity = c
          /\ z.growth = v.growth /\ z.threshold = v.threshold /\ z.dynamic = v.dynamic /\ z.memory = v.memory
      BY <1>1 DEF VectorOf
    <2> HIDE DEF z
    <2>4. Sound(z)
      <3>1. Settled(v) /\ v.size <= v.capacity /\ v.size <= Len(v.cells) /\ v.dynamic /\ c > v.capacity
        BY <1>1, <2>1 DEF Sound
      <3> QED  BY <1>1, <2>3, <3>1 DEF Sound, Settled
    <2>5. z \in VectorsOf(Bytes) /\ Stored(z)
      BY <1>1, <2>3, <2>4 DEF VectorsOf, Stored
    <2>6. w \in BitsetsOf /\ w.bits = z
      BY <1>3, <2>2, <2>5
    <2>7. v.dynamic
      BY <2>1
    <2> QED  BY <1>2, <2>2, <2>3, <2>5, <2>6, <2>7 DEF Afloat
  <1>6. CASE \E k \in Nat : NoRoomFor(v, g, k)
    <2>1. g.status = "INSUFFICIENT_BUFFER_SIZE" /\ g.v = v
      BY <1>6 DEF NoRoomFor, Fails, Result
    <2>2. w \in BitsetsOf /\ w.bits = v
      BY <1>1, <1>3, <2>1
    <2> QED  BY <1>1, <1>2, <2>1, <2>2 DEF Afloat
  <1> QED  BY <1>4, <1>5, <1>6

LEMMA SizeChangesAdrift ==
    ASSUME NEW b, AdriftCalled(b), SizeChanges(b)
    PROVE  AdriftDone
  <1> DEFINE v == b.bits
  <1>1. /\ v \in VectorsOf(Bytes) /\ v \in VectorOf(Bytes) /\ Fit(v) /\ Stored(v) /\ Sound(v) /\ v.size \in Nat
        /\ b = [size |-> b.size, bits |-> v] /\ b.size \in Nat /\ Junk \in Bytes /\ ZeroByte \in Byte
        /\ ZeroByte \in Bytes
    BY DEF AdriftCalled, BitsetMeant, BitsetsOf, VectorsOf, VectorOf, Bytes, ZeroByte, Byte
  <1>2. Above(b.size) \in Nat /\ Below(b.size) \in Nat
    BY <1>1, ContainerAssumption DEF Above, Below
  <1>3. ASSUME NEW n \in Nat, NEW z, NEW y, y = [size |-> n, bits |-> v]
        PROVE  WithBits(y, z) = [size |-> n, bits |-> z]
    BY <1>3 DEF WithBits
  <1>4. ASSUME NEW bit \in {0, 1}, BitsetReturned(Insert(b.size, <<bit>>), BitsetPush(b, bit))
        PROVE  AdriftDone
    <2> DEFINE i == b.size
               n == Above(i)
               more == [b EXCEPT !.size = Above(@)]
               r == BitsetPush(b, bit)
               g == VectorPushBack(v, ZeroByte)
    <2>1. more = [size |-> n, bits |-> v]
      BY <1>1
    <2>2. CASE i % Width # 0
      <3>1. r = BitsetAssign(more, i, bit)
        BY <2>2 DEF BitsetPush
      <3> HIDE DEF r
      <3>2. more \in BitsetsOf /\ more.bits = v
        BY <1>1, <1>2, <2>1 DEF BitsetsOf
      <3> HIDE DEF more
      <3>3. Kin(b.bits, more.bits)
        BY <3>2 DEF Kin
      <3>4. Afloat(b, r)
        BY <1>1, <3>1, <3>2, <3>3, AssignedAfloat
      <3> QED  BY <1>4, <3>4, AdriftReturns DEF r
    <2>3. CASE i % Width = 0
      <3>1. \/ \E z \in VectorsOf(Bytes) : g = Success(z) /\ Kin(v, z) /\ Fit(z) /\ Inserted(v, z, v.size, <<ZeroByte>>)
            \/ NoMemory(v, g)
            \/ NoRoomFor(v, g, v.size + 1)
        BY <1>1, PushedBack
      <3>2. r = IF g.status = "SUCCESS" THEN BitsetAssign(WithBits(more, g.v), i, bit)
                ELSE Result(g.status, WithBits(more, g.v), <<>>)
        BY <2>3 DEF BitsetPush, Check, OnBits, Result
      <3> HIDE DEF g, r, more
      <3>3. WithBits(more, g.v) = [size |-> n, bits |-> g.v]
        BY <1>2, <1>3, <2>1
      <3>4. ASSUME NEW z \in VectorsOf(Bytes), g = Success(z), Kin(v, z), Fit(z), Inserted(v, z, v.size, <<ZeroByte>>)
            PROVE  Afloat(b, r)
        <4> DEFINE y == [size |-> n, bits |-> z]
                   one == <<ZeroByte>>
        <4>1. Len(one) = 1 /\ one[1] = ZeroByte
          OBVIOUS
        <4>2. z.size = v.size + Len(one) /\ \A k \in 1..z.size :
                z.cells[k] = IF k <= v.size THEN v.cells[k] ELSE IF k <= v.size + Len(one) THEN one[k - v.size]
                  ELSE v.cells[k - Len(one)]
          BY <3>4 DEF Inserted
        <4> HIDE DEF one
        <4>3. Stored(z)
          <5>1. ASSUME NEW k \in 1..z.size
                PROVE  z.cells[k] \in Byte
            <6>1. CASE k <= v.size
              BY <1>1, <4>1, <4>2, <6>1 DEF Stored
            <6>2. CASE ~(k <= v.size)
              <7>1. k = v.size + 1
                BY <1>1, <4>1, <4>2, <6>2
              <7> QED  BY <1>1, <4>1, <4>2, <7>1
            <6> QED  BY <6>1, <6>2
          <5> QED  BY <5>1 DEF Stored
        <4>4. r = BitsetAssign(y, i, bit)
          BY <3>2, <3>3, <3>4 DEF Success, Result
        <4>5. y \in BitsetsOf /\ y.bits = z
          BY <1>2 DEF BitsetsOf
        <4> HIDE DEF y
        <4> QED  BY <1>1, <3>4, <4>3, <4>4, <4>5, AssignedAfloat
      <3>5. ASSUME NoMemory(v, g) \/ NoRoomFor(v, g, v.size + 1)
            PROVE  Afloat(b, r)
        <4>1. g.status # "SUCCESS"
          BY <3>5 DEF NoMemory, NoRoomFor, Fails, Result
        <4>2. r = Result(g.status, [size |-> n, bits |-> g.v], <<>>)
          BY <3>2, <3>3, <4>1
        <4>3. v.size + 1 \in Nat
          BY <1>1
        <4> QED  BY <1>2, <3>5, <4>2, <4>3, BytesAfter
      <3> QED  BY <1>4, <3>1, <3>4, <3>5, AdriftReturns DEF r
    <2> QED  BY <2>2, <2>3
  <1>5. CASE BitsetReturned(Delete(LastOf(b.size), 1), BitsetPop(b))
    <2> DEFINE n == Below(b.size)
               fewer == [b EXCEPT !.size = Below(@)]
               r == BitsetPop(b)
               g == VectorPopBack(v)
    <2>1. fewer = [size |-> n, bits |-> v]
      BY <1>1
    <2>2. r = IF n % Width = 0 THEN Result(g.status, WithBits(fewer, g.v), <<>>) ELSE Success(fewer)
      <3>1. fewer.size = n
        BY <2>1
      <3> QED  BY <3>1 DEF BitsetPop, OnBits
    <2> HIDE DEF r, g, fewer
    <2>3. CASE n % Width # 0
      <3>1. r.status = "SUCCESS" /\ r.v = fewer
        BY <2>2, <2>3 DEF Success, Result
      <3>2. fewer \in BitsetsOf /\ fewer.bits = v
        BY <1>1, <1>2, <2>1 DEF BitsetsOf
      <3>3. Afloat(b, r)
        BY <1>1, <3>1, <3>2 DEF Afloat
      <3> QED  BY <1>5, <3>3, AdriftReturns DEF r
    <2>4. CASE n % Width = 0
      <3>1. r = Result(g.status, [size |-> n, bits |-> g.v], <<>>)
        BY <1>2, <1>3, <2>1, <2>2, <2>4
      <3>2. \E z \in VectorsOf(Bytes) :
                g.status # "NOT_ENOUGH_MEMORY" /\ g.v = z /\ Kin(v, z) /\ Fit(z) /\ Stored(z)
        <4>1. CASE v.size > 0
          <5>1. PICK z \in VectorsOf(Bytes) :
                  /\ g = Result("SUCCESS", z, <<v.cells[v.size]>>)
                  /\ Kin(v, z) /\ Fit(z) /\ Deleted(v, z, v.size - 1, 1)
            BY <1>1, <4>1, PoppedBack DEF g
          <5>2. z.size = v.size - 1 /\ \A k \in 1 .. v.size - 1 : z.cells[k] = v.cells[k]
            BY <1>1, <4>1, <5>1 DEF Deleted
          <5>3. Stored(z)
            BY <1>1, <5>2 DEF Stored
          <5>4. g.status = "SUCCESS" /\ g.v = z
            BY <5>1 DEF Result
          <5> QED  BY <5>1, <5>3, <5>4
        <4>2. CASE v.size = 0
          <5>1. g.status = "OUT_OF_RANGE" /\ g.v = v
            BY <4>2 DEF g, VectorPopBack, Fails, Result
          <5> QED  BY <1>1, <5>1 DEF Kin
        <4> QED  BY <1>1, <4>1, <4>2
      <3>3. Afloat(b, r)
        BY <1>2, <3>1, <3>2, BytesAfter
      <3> QED  BY <1>5, <3>3, AdriftReturns DEF r
    <2> QED  BY <2>3, <2>4
  <1>6. ASSUME NEW z \in VectorsOf(Bytes), NEW g, g = Success(z), Kin(v, z), Fit(z), Extends(v, z, v.size, <<>>)
        PROVE  g.status # "NOT_ENOUGH_MEMORY" /\ g.v = z /\ Stored(z)
    <2>1. z.size = v.size /\ \A k \in 1..v.size : z.cells[k] = v.cells[k]
      BY <1>1, <1>6 DEF Extends
    <2>2. Stored(z)
      BY <1>1, <2>1 DEF Stored
    <2> QED  BY <1>6, <2>2 DEF Success, Result
  <1>7. ASSUME NEW g
        PROVE  OnBits(b, g) = Result(g.status, [size |-> b.size, bits |-> g.v], <<>>)
    BY <1>1, <1>3 DEF OnBits
  <1>8. ASSUME NEW count \in Sizes, BitsetReturned(Reserve(count), BitsetReserve(b, count))
        PROVE  AdriftDone
    <2> DEFINE n == count \div Width
               g == VectorReserve(v, n)
    <2>1. n \in Nat
      BY Division, ContainerAssumption DEF Sizes
    <2>2. BitsetReserve(b, count) = OnBits(b, g)
      BY DEF BitsetReserve, BitsToBytes
    <2> HIDE DEF n
    <2>3. \/ \E z \in VectorsOf(Bytes) : g = Success(z) /\ Kin(v, z) /\ Fit(z) /\ Extends(v, z, v.size, <<>>)
          \/ NoMemory(v, g)
          \/ NoRoomFor(v, g, n)
      BY <1>1, <2>1, ReservedVector
    <2> HIDE DEF g
    <2>4. \/ \E z \in VectorsOf(Bytes) :
                g.status # "NOT_ENOUGH_MEMORY" /\ g.v = z /\ Kin(v, z) /\ Fit(z) /\ Stored(z)
          \/ NoMemory(v, g)
          \/ \E k \in Nat : NoRoomFor(v, g, k)
      BY <1>6, <2>1, <2>3
    <2> DEFINE r == OnBits(b, g)
    <2>5. r = Result(g.status, [size |-> b.size, bits |-> g.v], <<>>)
      BY <1>7
    <2> HIDE DEF r
    <2>6. Afloat(b, r)
      BY <1>1, <2>4, <2>5, BytesAfter
    <2> QED  BY <1>8, <2>2, <2>6, AdriftReturns DEF r
  <1>9. CASE BitsetReturned(Reserve(0), BitsetShrinkToFit(b))
    <2> DEFINE g == VectorShrinkToFit(v)
    <2>1. \E z \in VectorsOf(Bytes) : g = Success(z) /\ Kin(v, z) /\ Fit(z) /\ Extends(v, z, v.size, <<>>)
      BY <1>1, FittedVector
    <2>2. BitsetShrinkToFit(b) = OnBits(b, g)
      BY DEF BitsetShrinkToFit
    <2> HIDE DEF g
    <2>3. \E z \in VectorsOf(Bytes) :
                g.status # "NOT_ENOUGH_MEMORY" /\ g.v = z /\ Kin(v, z) /\ Fit(z) /\ Stored(z)
      BY <1>6, <2>1
    <2> DEFINE r == OnBits(b, g)
    <2>4. r = Result(g.status, [size |-> b.size, bits |-> g.v], <<>>)
      BY <1>7
    <2> HIDE DEF r
    <2>5. Afloat(b, r)
      BY <1>1, <2>3, <2>4, BytesAfter
    <2> QED  BY <1>9, <2>2, <2>5, AdriftReturns DEF r
  <1> QED  BY <1>4, <1>5, <1>8, <1>9 DEF SizeChanges

-----------------------------------------------------------------------------
(* Bitsets, as a whole *)

LEMMA BitsetCallStep ==
    ASSUME BitsetInv, AdriftInv, BitsetCall
    PROVE  \/ BitsetDone /\ kind = "bitset"
           \/ BitsetDone /\ kind = "adrift" /\ call'.op = "resize" /\ call'.count = 0
           \/ BitsetAstray /\ kind = "bitset"
           \/ AdriftDone /\ kind = "adrift"
  <1>1. kind \in {"bitset", "adrift"} /\ ~Spent(body.bits)
    BY DEF BitsetCall
  <1>2. PICK v \in MemoryFor(body.bits) :
            \/ BitChanges(WithBits(body, v)) \/ ByteChanges(WithBits(body, v))
            \/ SizeChanges(WithBits(body, v)) \/ ClearBits(WithBits(body, v))
    BY DEF BitsetCall
  <1> DEFINE b == WithBits(body, v)
  <1>3. BitsetMeant(b) /\ (kind = "bitset" => BitsetCalled(b)) /\ (kind = "adrift" => AdriftCalled(b))
    BY <1>1, BitsetForCall
  <1>4. BitChanges(b) \/ ByteChanges(b) \/ SizeChanges(b) \/ ClearBits(b)
    BY <1>2
  <1> HIDE DEF b
  <1>5. CASE ClearBits(b)
    <2>1. Abstract!Answered /\ BitsetInv' /\ kind' = "bitset" /\ call'.op = "resize" /\ call'.count = 0
      BY <1>1, <1>3, <1>5, ClearBitsStep
    <2> QED  BY <1>1, <2>1 DEF BitsetDone
  <1>6. CASE kind = "adrift" /\ ~ClearBits(b)
    BY <1>3, <1>4, <1>6, BitChangesAdrift, ByteChangesAdrift, SizeChangesAdrift
  <1>7. CASE kind = "bitset" /\ SizeChanges(b)
    BY <1>3, <1>7, SizeChangesSteps
  <1>8. CASE kind = "bitset" /\ (BitChanges(b) \/ ByteChanges(b))
    <2>1. Abstract!Answered /\ BitsetInv' /\ kind' = kind
      BY <1>3, <1>8, BitChangesSteps, ByteChangesSteps
    <2>2. call'.op = "overwrite"
      BY <1>8 DEF BitChanges, ByteChanges, BitsetReturned, Called, Overwrite, Operation
    <2> QED  BY <1>8, <2>1, <2>2 DEF BitsetDone
  <1> QED  BY <1>1, <1>4, <1>5, <1>6, <1>7, <1>8

LEMMA DestroyBitsetStep ==
    ASSUME BitsetInv, AdriftInv, kind \in {"bitset", "adrift"}, Destroy
    PROVE  Abstract!Answered /\ kind' = "none" /\ call'.op = "destroy"
  <1>1. watched = FALSE
    BY DEF BitsetInv, AdriftInv
  <1>2. Calls("destroy", 0, 0, <<>>, "SUCCESS", Held)
    BY <1>1 DEF Destroy, Called, Calls
  <1>3. kind' = "none" /\ Held' = <<>>
    BY DEF Destroy, Held
  <1>4. call'.op = "destroy"
    BY <1>2, CallFields
  <1> QED  BY <1>2, <1>3, <1>4, DestroyStep

(* A new vector of n bytes, all zero *)
LEMMA ZeroedVector ==
    ASSUME NEW v \in VectorsOf(Bytes), Fit(v), NEW n \in Nat, n <= Len(v.cells)
    PROVE  LET w == WithZeros(v, n) IN
           /\ w \in VectorsOf(Bytes) /\ Fit(w) /\ w.size = n
           /\ \A k \in 1..n : w.cells[k] = ZeroByte
  <1> DEFINE s == [k \in 1..n |-> ZeroByte]
             zero == 0
             w == Overwritten(v, zero, s, n)
  <1>1. ZeroByte \in Bytes
    BY DEF ZeroByte, Byte, Bytes
  <1>2. s \in Seq(Bytes) /\ Len(s) = n /\ \A k \in 1..n : s[k] = ZeroByte
    <2>1. s \in [1..n -> Bytes]
      BY <1>1
    <2> QED  BY <2>1
  <1>3. WithZeros(v, n) = w
    BY DEF WithZeros, Overwritten
  <1>4. zero \in Nat /\ zero = 0 /\ Len(v.cells) \in Nat
    BY DEF VectorsOf, VectorOf
  <1> HIDE DEF zero, s
  <1>5. /\ w \in VectorsOf(Bytes) /\ Fit(w) /\ w.size = n
        /\ \A k \in 1..Len(v.cells) : w.cells[k] = IF zero < k /\ k <= zero + Len(s) THEN s[k - zero] ELSE v.cells[k]
    <2>1. v \in VectorsOf(Bytes) /\ Fit(v) /\ zero \in Nat /\ s \in Seq(Bytes) /\ n \in Nat /\ n <= Len(v.cells)
      BY <1>2, <1>4
    <2> QED  BY ONLY <2>1, OverwrittenVector
  <1> HIDE DEF w
  <1>6. \A k \in 1..n : w.cells[k] = ZeroByte
    <2> TAKE k \in 1..n
    <2>1. k \in 1..Len(v.cells) /\ zero < k /\ k <= zero + Len(s) /\ k - zero = k
      BY <1>2, <1>4
    <2> QED  BY <1>2, <1>5, <2>1
  <1> QED  BY <1>3, <1>5, <1>6

LEMMA MadeBitset ==
    ASSUME NEW n \in Nat, NEW v \in VectorsOf(Bytes), Fit(v), n <= Len(v.cells), NEW r \in Nat, r < Width,
           NEW size, size = Width * n + r, NEW zeros, zeros = [k \in 1..size |-> 0],
           NEW b, b = Bitset(size, WithZeros(v, n)), Make(SetOf(b), b, FALSE, zeros), kind = "none"
    PROVE  \/ Abstract!Answered /\ BitsetInv' /\ kind' = "bitset" /\ call'.op = "create"
           \/ BitsetAstray
  <1> DEFINE w == WithZeros(v, n)
             q == Width * n
  <1>1. /\ w \in VectorsOf(Bytes) /\ Fit(w) /\ w.size = n
        /\ \A k \in 1..n : w.cells[k] = ZeroByte
    BY ZeroedVector
  <1>2. /\ kind' = SetOf(b) /\ body' = b /\ watched' = FALSE
        /\ Calls("create", 0, 0, zeros, "SUCCESS", <<>>)
    BY MadeStep
  <1>3. b = [size |-> size, bits |-> w]
    BY DEF Bitset
  <1> HIDE DEF w
  <1>4. Width \in Nat \ {0} /\ q \in Nat /\ size = q + r /\ size \in Nat /\ q <= size
    <2>1. Width \in Nat \ {0}
      BY ContainerAssumption
    <2>2. q \in Nat
      BY <2>1, Products
    <2> HIDE DEF q
    <2>3. size = q + r
      BY DEF q
    <2> QED  BY <2>1, <2>2, <2>3
  <1>5. ZeroByte \in Byte
    BY DEF ZeroByte, Byte
  <1>6. Stored(w)
    BY <1>1, <1>5 DEF Stored
  <1>7. b \in BitsetsOf /\ b.size = size /\ b.bits = w /\ BitsetKept(b)
    BY <1>1, <1>3, <1>4, <1>6 DEF BitsetsOf, BitsetKept
  <1>8. q = (IF b.size < Width * b.bits.size THEN b.size ELSE Width * b.bits.size)
    <2>1. Width * b.bits.size = q
      BY <1>1, <1>7
    <2> HIDE DEF q
    <2> QED  BY <1>4, <1>7, <2>1
  <1>9. /\ Bits(b) \in Seq({0, 1}) /\ Len(Bits(b)) = q
        /\ \A k \in 1..q : Bits(b)[k] = BitIn(w, k)
    BY <1>6, <1>7, <1>8, BitsOfBitset
  <1>10. \A k \in 1..q : BitIn(w, k) = 0
    <2> TAKE k \in 1..q
    <2>1. k \in Nat /\ k >= 1 /\ k <= Width * n
      BY <1>4
    <2>2. ByteAt(k) \in Nat /\ ByteAt(k) >= 1 /\ ByteAt(k) <= n /\ BitAt(k) \in 1..Width
      BY <2>1, Places
    <2>3. w.cells[ByteAt(k)] = ZeroByte
      BY <1>1, <2>2
    <2>4. ZeroByte[BitAt(k)] = 0
      BY <2>2 DEF ZeroByte
    <2> QED  BY <2>3, <2>4 DEF BitIn
  <1>11. zeros \in Seq({0, 1}) /\ Len(zeros) = size /\ \A k \in 1..size : zeros[k] = 0
    <2>1. zeros \in [1..size -> {0, 1}]
      OBVIOUS
    <2> QED  BY <1>4, <2>1
  <1>12. call'.op = "create" /\ call'.new = zeros /\ call'.status = "SUCCESS"
    BY <1>2, CallFields
  <1>13. Backed(b) <=> r = 0
    <2>1. Backed(b) <=> size <= q
      BY <1>1, <1>7 DEF Backed
    <2> HIDE DEF q
    <2> QED  BY <1>4, <2>1
  <1>14. kind' \in {"bitset", "adrift"} /\ Held' = Bits(b)
    BY <1>2 DEF SetOf, Held
  <1> HIDE DEF q
  <1> DEFINE h == Bits(b)
  <1>15. CASE r = 0
    <2>1. h = zeros
      <3>1. h \in Seq({0, 1}) /\ zeros \in Seq({0, 1}) /\ Len(h) = Len(zeros) /\ \A k \in 1..Len(h) : h[k] = zeros[k]
        BY <1>4, <1>9, <1>10, <1>11, <1>15
      <3> HIDE DEF h
      <3> QED  BY <3>1, SameSequence
    <2>2. Abstract!Answered
      BY <1>2, <1>14, <2>1, CreateStep
    <2>3. kind' = "bitset"
      BY <1>2, <1>13, <1>15 DEF SetOf
    <2>4. Covered(b)
      <3>1. Width * b.bits.size = q
        BY <1>1, <1>7 DEF q
      <3> QED  BY <1>4, <1>7, <1>15, <3>1 DEF Covered
    <2>5. BitsetInv'
      BY <1>2, <1>7, <2>4 DEF BitsetInv
    <2> QED  BY <1>12, <2>2, <2>3, <2>5
  <1>16. CASE r # 0
    <2>1. kind' = "adrift"
      BY <1>2, <1>13, <1>16 DEF SetOf
    <2>2. AdriftInv'
      BY <1>2, <1>7 DEF AdriftInv
    <2>3. Abstract!IsStrictPrefix(h, zeros)
      <3>1. h \in Seq({0, 1}) /\ Len(h) = q /\ \A k \in 1..q : h[k] = 0
        BY <1>9, <1>10
      <3> HIDE DEF h
      <3>2. zeros \in Seq({0, 1}) /\ Len(zeros) = size /\ q < size /\ \A k \in 1..size : zeros[k] = 0
        BY <1>4, <1>11, <1>16
      <3>3. SubSeq(zeros, 1, Len(h)) \in Seq({0, 1}) /\ Len(SubSeq(zeros, 1, Len(h))) = Len(h)
            /\ \A k \in 1..Len(h) : SubSeq(zeros, 1, Len(h))[k] = zeros[k]
        BY <1>4, <3>1, <3>2
      <3> DEFINE y == SubSeq(zeros, 1, Len(h))
      <3>4. h \in Seq({0, 1}) /\ y \in Seq({0, 1}) /\ Len(h) = Len(y) /\ \A k \in 1..Len(h) : h[k] = y[k]
        BY <1>4, <3>1, <3>2, <3>3
      <3> HIDE DEF y
      <3>5. h = y
        BY <3>4, SameSequence
      <3>6. h # zeros
        BY <1>4, <3>1, <3>2
      <3> QED  BY <1>4, <3>1, <3>2, <3>5, <3>6 DEF Abstract!IsStrictPrefix, Abstract!IsPrefix, y
    <2>4. Told' = Len(zeros)
      BY <1>2, <1>7, <1>11, <2>1 DEF Told
    <2>5. Sort = "items" /\ Sort' = "adrift"
      BY <2>1 DEF Sort
    <2>6. Abstract!Dropped(<<>>)
      BY <1>2, DroppedStep
    <2>7. Abstract!Miscounted
      BY <1>12, <1>14, <2>3, <2>4, <2>5, <2>6 DEF Abstract!Miscounted
    <2> QED  BY <2>1, <2>2, <2>7 DEF BitsetAstray
  <1> QED  BY <1>15, <1>16

LEMMA CreateBitsetStep ==
    ASSUME CreateBitset
    PROVE  /\ kind = "none"
           /\ \/ Abstract!Answered /\ BitsetInv' /\ kind' = "bitset" /\ call'.op = "create"
              \/ BitsetAstray
  <1>1. PICK count \in Sizes, capacity \in 0 .. (MaxItems \div Width) :
            LET zeros == [k \in 1..count |-> 0]
                b == BitsetInitEx(count, Growth, Threshold)
                r == BitsetInitBuffer(count, capacity)
            IN  \/ Make(SetOf(b), b, FALSE, zeros)
                \/ capacity > 0 /\ MakeWith(SetOf(r.v), r, FALSE, zeros)
    BY DEF CreateBitset
  <1> DEFINE zeros == [k \in 1..count |-> 0]
             n == count \div Width
             r == count % Width
  <1>2. Width \in Nat \ {0} /\ count \in Nat /\ capacity \in Nat /\ Junk \in Bytes
    <2>1. Width \in Nat \ {0} /\ MaxItems \in Nat
      BY ContainerAssumption
    <2>2. MaxItems \div Width \in Nat
      BY <2>1, Division
    <2> QED  BY <2>1, <2>2 DEF Bytes, Sizes
  <1>3. n \in Nat /\ r \in Nat /\ r < Width /\ count = Width * n + r /\ BitsToBytes(count) = n
    BY <1>2, Division DEF BitsToBytes
  <1> HIDE DEF n, r
  <1>4. CASE Make(SetOf(BitsetInitEx(count, Growth, Threshold)), BitsetInitEx(count, Growth, Threshold), FALSE, zeros)
    <2> DEFINE v == VectorInitEx(n, Growth, Threshold)
               b == BitsetInitEx(count, Growth, Threshold)
    <2>1. v \in VectorsOf(Bytes) /\ Fit(v) /\ n <= Len(v.cells)
      BY <1>2, <1>3, NewVectors
    <2>2. b = Bitset(count, WithZeros(v, n)) /\ Make(SetOf(b), b, FALSE, zeros)
      BY <1>3, <1>4 DEF BitsetInitEx
    <2>3. kind = "none"
      BY <1>4 DEF Make
    <2> HIDE DEF v, b
    <2> QED  BY <1>2, <1>3, <2>1, <2>2, <2>3, MadeBitset
  <1>5. CASE capacity > 0 /\ MakeWith(SetOf(BitsetInitBuffer(count, capacity).v), BitsetInitBuffer(count, capacity),
                                      FALSE, zeros)
    <2> DEFINE v == VectorInitCustomBuffer(capacity)
               b == Bitset(count, WithZeros(v, n))
    <2>1. v \in VectorsOf(Bytes) /\ Fit(v) /\ Len(v.cells) = capacity
      BY <1>2, <1>5, NewVectors
    <2>2. ~(capacity < n) /\ BitsetInitBuffer(count, capacity).v = b
      BY <1>3, <1>5 DEF BitsetInitBuffer, MakeWith, Fails, Success, Result
    <2>3. Make(SetOf(b), b, FALSE, zeros) /\ b = Bitset(count, WithZeros(v, n))
      BY <1>5, <2>2 DEF MakeWith
    <2>4. kind = "none"
      BY <2>3 DEF Make
    <2>5. n <= Len(v.cells)
      BY <1>2, <1>3, <2>1, <2>2
    <2> HIDE DEF v, b
    <2> QED  BY <1>2, <1>3, <2>1, <2>3, <2>4, <2>5, MadeBitset
  <1> QED  BY <1>1, <1>4, <1>5

-----------------------------------------------------------------------------
(* Searching *)

LEMMA GreatestNumber ==
    ASSUME NEW T \in SUBSET Nat, T # {}, NEW m \in Nat, \A x \in T : x <= m
    PROVE  \E x \in T : \A y \in T : x >= y
  <1> DEFINE U == {m - x : x \in T}
  <1>1. U \in SUBSET Nat /\ U # {}
    <2>1. \A x \in T : m - x \in Nat
      OBVIOUS
    <2>2. PICK x \in T : TRUE
      OBVIOUS
    <2>3. m - x \in U
      OBVIOUS
    <2> QED  BY <2>1, <2>3
  <1>2. PICK u \in U : \A y \in U : u <= y
    <2> HIDE DEF U
    <2> QED  BY <1>1, LeastNumber
  <1>3. PICK x \in T : u = m - x
    BY <1>2
  <1>4. \A y \in T : m - x <= m - y
    BY <1>2, <1>3
  <1>5. \A y \in T : x \in Nat /\ y \in Nat
    BY <1>3
  <1>6. \A y \in T : x >= y
    BY <1>4, <1>5
  <1> QED  BY <1>3, <1>6

LEMMA FirstOne ==
    ASSUME NEW T \in SUBSET Nat, T # {}
    PROVE  Earliest(T) \in T /\ \A y \in T : Earliest(T) <= y
  BY LeastNumber DEF Earliest

LEMMA LastOne ==
    ASSUME NEW T \in SUBSET Nat, T # {}, NEW m \in Nat, \A x \in T : x <= m
    PROVE  Latest(T) \in T /\ \A y \in T : Latest(T) >= y
  BY GreatestNumber DEF Latest

LEMMA LeastIs ==
    ASSUME NEW T \in SUBSET Nat, NEW x \in T, \A y \in T : x <= y
    PROVE  Least(T) = x
  <1>1. \A z \in T : (\A y \in T : z <= y) => z = x
    <2> TAKE z \in T
    <2> HAVE \A y \in T : z <= y
    <2>1. z <= x /\ x <= z /\ x \in Nat /\ z \in Nat
      OBVIOUS
    <2> QED  BY <2>1
  <1>2. Least(T) = CHOOSE z \in T : \A y \in T : z <= y
    BY DEF Least
  <1> QED  BY <1>1, <1>2

LEMMA GreatestIs ==
    ASSUME NEW T \in SUBSET Nat, NEW x \in T, \A y \in T : x >= y
    PROVE  Greatest(T) = x
  <1>1. \A z \in T : (\A y \in T : z >= y) => z = x
    <2> TAKE z \in T
    <2> HAVE \A y \in T : z >= y
    <2>1. z >= x /\ x >= z /\ x \in Nat /\ z \in Nat
      OBVIOUS
    <2> QED  BY <2>1
  <1>2. Greatest(T) = CHOOSE z \in T : \A y \in T : z >= y
    BY DEF Greatest
  <1> QED  BY <1>1, <1>2

(* The characters of the needle, and the NUL behind them *)
OfC(needle, m) ==
    /\ m \in Nat \ {0} /\ needle.size = m + 1
    /\ \A k \in 1..m : needle.cells[k] # NUL
    /\ needle.cells[m + 1] = NUL

(* It is in the haystack h at p. *)
Lies(h, needle, m, p, case) == \A k \in 1..m : Same(h.cells[p + k], needle.cells[k], case)

LEMMA Attempted ==
    ASSUME NEW h, NEW needle, NEW m, OfC(needle, m), NEW p \in Nat, NEW last \in Nat, NEW case
    PROVE  LET r == AttemptFrom(h, needle, p, last, case) IN
           /\ r = "found" <=> p + m <= last /\ Lies(h, needle, m, p, case)
           /\ r \notin {"found", "next"} => p + m > last
  <1> DEFINE stop(j) == p + j > last \/ needle.cells[j + 1] = NUL
                          \/ ~Same(h.cells[p + j + 1], needle.cells[j + 1], case)
             T == {j \in 0 .. needle.size - 1 : stop(j)}
             k == Earliest(T)
             r == AttemptFrom(h, needle, p, last, case)
  <1>1. m \in Nat \ {0} /\ needle.size - 1 = m /\ needle.cells[m + 1] = NUL
    BY DEF OfC
  <1>2. \A j \in 0 .. m - 1 : needle.cells[j + 1] # NUL
    <2> TAKE j \in 0 .. m - 1
    <2>1. j + 1 \in 1..m
      BY <1>1
    <2> QED  BY <2>1 DEF OfC
  <1>3. r = IF p + k > last THEN "over" ELSE IF needle.cells[k + 1] = NUL THEN "found" ELSE "next"
    BY DEF AttemptFrom
  <1>4. m \in T /\ T \in SUBSET Nat
    BY <1>1
  <1>5. k \in T /\ \A j \in T : k <= j
    <2> HIDE DEF T
    <2> QED  BY <1>4, FirstOne
  <1>6. k \in 0..m /\ stop(k) /\ \A j \in 0..m : j < k => ~stop(j)
    <2>1. k \in 0..m /\ stop(k)
      BY <1>1, <1>5
    <2>2. ASSUME NEW j \in 0..m, j < k, stop(j)
          PROVE  FALSE
      <3>1. j \in T
        BY <1>1, <2>2
      <3>2. k <= j
        BY <1>5, <3>1
      <3> HIDE DEF k
      <3> QED  BY <2>1, <2>2, <3>2
    <2> QED  BY <2>1, <2>2
  <1> HIDE DEF k, T, r
  <1>7. CASE p + k > last
    <2>1. p + m > last /\ r = "over"
      BY <1>1, <1>3, <1>6, <1>7
    <2> QED  BY <1>1, <2>1 DEF r
  <1>8. CASE p + k <= last /\ k = m
    <2>1. r = "found" /\ p + m <= last
      BY <1>1, <1>3, <1>6, <1>8
    <2>2. ASSUME NEW j \in 1..m
          PROVE  Same(h.cells[p + j], needle.cells[j], case)
      <3>1. j - 1 \in 0..m /\ j - 1 < k /\ p + (j - 1) + 1 = p + j /\ (j - 1) + 1 = j
        BY <1>1, <1>8
      <3>2. ~stop(j - 1)
        BY <1>6, <3>1
      <3> QED  BY <3>1, <3>2
    <2>3. Lies(h, needle, m, p, case)
      BY <2>2 DEF Lies
    <2> QED  BY <2>1, <2>3 DEF r
  <1>9. CASE p + k <= last /\ k # m
    <2>1. k \in 0 .. m - 1 /\ k + 1 \in 1..m /\ p + k + 1 = p + (k + 1) /\ ~(p + k > last)
      BY <1>1, <1>6, <1>9
    <2>2. r = "next" /\ ~Same(h.cells[p + k + 1], needle.cells[k + 1], case)
      BY <1>2, <1>3, <1>6, <2>1
    <2>3. ~Lies(h, needle, m, p, case)
      BY <2>1, <2>2 DEF Lies
    <2> QED  BY <2>2, <2>3 DEF r
  <1>10. p + k <= last \/ p + k > last
    BY <1>1, <1>6
  <1> QED  BY <1>7, <1>8, <1>9, <1>10

(* The same from the end of the needle: p is where its last character is to be. *)
LEMMA AttemptedUp ==
    ASSUME NEW h, NEW needle, NEW m, OfC(needle, m), NEW p \in Nat, NEW first \in Nat, NEW case
    PROVE  LET r == AttemptUpTo(h, needle, p, first, case) IN
           /\ r = "found" <=> first <= p + 1 - m /\ Lies(h, needle, m, p + 1 - m, case)
           /\ r \notin {"found", "next"} => p + 1 - m < first
  <1> DEFINE stop(j) == j = m \/ p - j < first \/ ~Same(h.cells[p - j + 1], needle.cells[m - j], case)
             T == {j \in 0..m : stop(j)}
             k == Earliest(T)
             r == AttemptUpTo(h, needle, p, first, case)
             q == p + 1 - m
  <1>1. m \in Nat \ {0} /\ needle.size - 1 = m
    BY DEF OfC
  <1>3. r = IF k = m THEN "found" ELSE IF p - k < first THEN "over" ELSE "next"
    BY <1>1 DEF AttemptUpTo
  <1>4. m \in T /\ T \in SUBSET Nat
    BY <1>1
  <1>5. k \in T /\ \A j \in T : k <= j
    <2> HIDE DEF T
    <2> QED  BY <1>4, FirstOne
  <1>6. k \in 0..m /\ stop(k) /\ \A j \in 0..m : j < k => ~stop(j)
    <2>1. k \in 0..m /\ stop(k)
      BY <1>1, <1>5
    <2>2. ASSUME NEW j \in 0..m, j < k, stop(j)
          PROVE  FALSE
      <3>1. j \in T
        BY <1>1, <2>2
      <3>2. k <= j
        BY <1>5, <3>1
      <3> HIDE DEF k
      <3> QED  BY <2>1, <2>2, <3>2
    <2> QED  BY <2>1, <2>2
  <1> HIDE DEF k, T, r
  <1>7. CASE k = m
    <2>1. r = "found"
      BY <1>3, <1>7
    <2>2. ASSUME NEW j \in 1..m
          PROVE  Same(h.cells[q + j], needle.cells[j], case) /\ ~(p - (m - j) < first)
      <3>1. m - j \in 0..m /\ m - j < k /\ p - (m - j) + 1 = q + j /\ m - (m - j) = j
        BY <1>1, <1>7
      <3>2. ~stop(m - j)
        BY <1>6, <3>1
      <3> QED  BY <3>1, <3>2
    <2>3. Lies(h, needle, m, q, case)
      BY <2>2 DEF Lies
    <2>4. first <= q
      <3>1. 1 \in 1..m
        BY <1>1
      <3>2. ~(p - (m - 1) < first)
        BY <2>2, <3>1
      <3> QED  BY <1>1, <3>2
    <2> QED  BY <2>1, <2>3, <2>4 DEF r
  <1>8. CASE k # m /\ p - k < first
    <2>1. q < first /\ r = "over"
      BY <1>1, <1>3, <1>6, <1>8
    <2> QED  BY <1>1, <2>1 DEF r
  <1>9. CASE k # m /\ ~(p - k < first)
    <2>1. m - k \in 1..m /\ p - k + 1 = q + (m - k)
      BY <1>1, <1>6, <1>9
    <2>2. r = "next" /\ ~Same(h.cells[p - k + 1], needle.cells[m - k], case)
      BY <1>3, <1>6, <1>9
    <2>3. ~Lies(h, needle, m, q, case)
      BY <2>1, <2>2 DEF Lies
    <2> QED  BY <2>2, <2>3 DEF r
  <1> QED  BY <1>7, <1>8, <1>9

(* Where the text of a string holds the needle *)
LEMMA OccurrencesAre ==
    ASSUME NEW s \in VectorsOf(Characters), s.size >= 1, NEW view, NEW needle, NEW m, OfC(view, m),
           Len(needle) = m, DOMAIN needle = 1..m, \A k \in 1..m : view.cells[k] = needle[k],
           NEW low \in Nat, NEW high \in Nat, high < s.size, NEW case
    PROVE  Occurrences(Text(s), needle, low, high, case) =
             {p \in low .. high - m : Lies(s, view, m, p, case)}
  <1>1. m \in Nat \ {0}
    BY DEF OfC
  <1>2. s.size \in Nat /\ \A k \in 1 .. s.size - 1 : Text(s)[k] = s.cells[k]
    BY TextOfVector
  <1>3. ASSUME NEW p \in low .. high - m
        PROVE  (\A k \in DOMAIN needle : Same(Text(s)[p + k], needle[k], case)) <=> Lies(s, view, m, p, case)
    <2>1. \A k \in 1..m : p + k \in 1 .. s.size - 1
      BY <1>1, <1>2
    <2>2. \A k \in 1..m : Text(s)[p + k] = s.cells[p + k] /\ needle[k] = view.cells[k]
      BY <1>2, <2>1
    <2>3. (\A k \in 1..m : Same(Text(s)[p + k], needle[k], case))
            <=> (\A k \in 1..m : Same(s.cells[p + k], view.cells[k], case))
      BY <2>2
    <2> QED  BY <2>3 DEF Lies
  <1> QED  BY <1>3 DEF Occurrences

LEMMA LPosFirst ==
    ASSUME NEW h, h.size \in Nat, NEW needle, NEW m, OfC(needle, m),
           NEW i \in Nat, NEW n \in Nat, i + n < h.size, NEW case
    PROVE  LPosEx(h, needle, i, n, case) = Least({p \in i .. i + n - m : Lies(h, needle, m, p, case)})
  <1> DEFINE last == i + n
             Attempt(p) == AttemptFrom(h, needle, p, last, case)
             D == {p \in i .. h.size - 2 : Same(h.cells[p + 1], needle.cells[1], case) /\ Attempt(p) # "next"}
             O == {p \in i .. last - m : Lies(h, needle, m, p, case)}
             size == h.size
  <1>1. m \in Nat \ {0} /\ needle.size = m + 1
    BY DEF OfC
  <1>2. LPosEx(h, needle, i, n, case) =
            IF NotSearched(h, needle) \/ D = {} THEN -1
            ELSE IF Attempt(Earliest(D)) = "found" THEN Earliest(D) ELSE -1
    BY DEF LPosEx
  <1>3. last \in Nat /\ last < size /\ size \in Nat
    OBVIOUS
  <1>4. ASSUME NEW p \in O
        PROVE  p \in D /\ Attempt(p) = "found"
    <2>1. p \in Nat /\ p + m <= last /\ Lies(h, needle, m, p, case) /\ p \in i .. size - 2
      BY <1>1, <1>3
    <2>2. Attempt(p) = "found"
      BY <1>3, <2>1, Attempted
    <2>3. Same(h.cells[p + 1], needle.cells[1], case)
      <3>1. 1 \in 1..m
        BY <1>1
      <3> QED  BY <2>1, <3>1 DEF Lies
    <2> QED  BY <2>1, <2>2, <2>3
  <1>5. ASSUME NEW p \in D, Attempt(p) = "found"
        PROVE  p \in O
    <2>1. p \in Nat /\ i <= p
      BY <1>3
    <2>2. p + m <= last /\ Lies(h, needle, m, p, case)
      BY <1>3, <1>5, <2>1, Attempted
    <2>3. p \in i .. last - m
      BY <1>1, <1>3, <2>1, <2>2
    <2> QED  BY <2>2, <2>3
  <1>6. ASSUME NEW p \in D, Attempt(p) # "found"
        PROVE  p + m > last
    <2>1. p \in Nat
      BY <1>3
    <2>2. Attempt(p) # "next"
      OBVIOUS
    <2> QED  BY <1>3, <1>6, <2>1, <2>2, Attempted
  <1>7. \A p \in O : p \in Nat /\ p + m <= last
    BY <1>1, <1>3
  <1>8. D \in SUBSET Nat /\ O \in SUBSET Nat
    BY <1>3
  <1>9. NotSearched(h, needle) => O = {}
    <2> SUFFICES ASSUME NotSearched(h, needle), NEW p \in O PROVE FALSE
      OBVIOUS
    <2>1. size < m + 1
      BY <1>1, <1>3 DEF NotSearched
    <2> HIDE DEF O, size, last
    <2> QED  BY <1>1, <1>3, <1>7, <2>1
  <1>10. Least({}) = -1
    BY DEF Least
  <1>13. O = {p \in i .. i + n - m : Lies(h, needle, m, p, case)}
    <2>1. last - m = i + n - m
      BY <1>1
    <2> QED  BY <2>1
  <1> HIDE DEF Attempt, D, O, last
  <1>11. CASE NotSearched(h, needle) \/ D = {}
    <2>1. O = {}
      BY <1>4, <1>9, <1>11
    <2> QED  BY <1>2, <1>10, <1>11, <1>13, <2>1
  <1>12. CASE ~NotSearched(h, needle) /\ D # {}
    <2> DEFINE e == Earliest(D)
    <2>1. e \in D /\ \A y \in D : e <= y
      BY <1>8, <1>12, FirstOne
    <2> HIDE DEF e
    <2>2. CASE Attempt(e) = "found"
      <3>1. e \in O /\ \A y \in O : e <= y
        BY <1>4, <1>5, <2>1, <2>2
      <3>2. Least(O) = e
        BY <1>8, <3>1, LeastIs
      <3> QED  BY <1>2, <1>12, <2>2, <1>13, <3>2 DEF e
    <2>3. CASE Attempt(e) # "found"
      <3>1. e + m > last
        BY <1>6, <2>1, <2>3
      <3>2. O = {}
        <4> SUFFICES ASSUME NEW y \in O PROVE FALSE
          OBVIOUS
        <4>1. e <= y /\ y + m <= last /\ y \in Nat /\ e \in Nat
          BY <1>4, <1>7, <1>8, <2>1
        <4> QED  BY <1>1, <1>3, <3>1, <4>1
      <3> QED  BY <1>2, <1>10, <1>12, <2>3, <1>13, <3>2 DEF e
    <2> QED  BY <2>2, <2>3
  <1> QED  BY <1>11, <1>12

LEMMA RPosLast ==
    ASSUME NEW h, h.size \in Nat, NEW needle, NEW m, OfC(needle, m),
           NEW i \in Nat, NEW n \in Nat, n <= i, i < h.size, NEW case
    PROVE  RPosEx(h, needle, i, n, case) = Greatest({p \in i - n .. i - m : Lies(h, needle, m, p, case)})
  <1> DEFINE first == i - n
             Attempt(p) == AttemptUpTo(h, needle, p, first, case)
             D == {p \in 0 .. i - 1 : Same(h.cells[p + 1], needle.cells[m], case) /\ Attempt(p) # "next"}
             O == {p \in first .. i - m : Lies(h, needle, m, p, case)}
             size == h.size
             skipped == i = 0 \/ n = 0 \/ NotSearched(h, needle)
  <1>1. m \in Nat \ {0} /\ needle.size = m + 1 /\ needle.size - 1 = m
    BY DEF OfC
  <1>2. RPosEx(h, needle, i, n, case) =
            IF skipped \/ D = {} THEN -1
            ELSE IF Attempt(Latest(D)) = "found" THEN Latest(D) - m + 1 ELSE -1
    BY <1>1 DEF RPosEx
  <1>3. first \in Nat /\ first <= i /\ (n = 0 => first = i) /\ size \in Nat /\ i < size
    OBVIOUS
  <1>4. ASSUME NEW q \in O
        PROVE  q + m - 1 \in D /\ Attempt(q + m - 1) = "found"
    <2>1. /\ q + m - 1 \in Nat /\ (q + m - 1) + 1 - m = q /\ first <= q /\ Lies(h, needle, m, q, case)
          /\ q + m - 1 \in 0 .. i - 1 /\ (q + m - 1) + 1 = q + m
      BY <1>1, <1>3
    <2>2. Attempt(q + m - 1) = "found"
      BY <1>3, <2>1, AttemptedUp
    <2>3. Same(h.cells[q + m], needle.cells[m], case)
      <3>1. m \in 1..m
        BY <1>1
      <3> QED  BY <2>1, <3>1 DEF Lies
    <2> QED  BY <2>1, <2>2, <2>3
  <1>5. ASSUME NEW p \in D, Attempt(p) = "found"
        PROVE  p - m + 1 \in O
    <2>1. p \in Nat /\ p <= i - 1
      BY <1>3
    <2>2. first <= p + 1 - m /\ Lies(h, needle, m, p + 1 - m, case)
      BY <1>3, <1>5, <2>1, AttemptedUp
    <2>3. p - m + 1 = p + 1 - m /\ p - m + 1 \in first .. i - m
      BY <1>1, <1>3, <2>1, <2>2
    <2> QED  BY <2>2, <2>3
  <1>6. ASSUME NEW p \in D, Attempt(p) # "found"
        PROVE  p + 1 - m < first
    <2>1. p \in Nat
      BY <1>3
    <2>2. Attempt(p) # "next"
      OBVIOUS
    <2> QED  BY <1>3, <1>6, <2>1, <2>2, AttemptedUp
  <1>7. \A q \in O : q \in Nat /\ first <= q /\ q <= i - m
    BY <1>1, <1>3
  <1>8. D \in SUBSET Nat /\ O \in SUBSET Nat /\ \A p \in D : p <= i
    BY <1>3
  <1>9. skipped => O = {}
    <2> SUFFICES ASSUME skipped, NEW q \in O PROVE FALSE
      OBVIOUS
    <2>1. q \in Nat /\ first <= q /\ q <= i - m
      BY <1>7
    <2>2. CASE i = 0
      BY <1>1, <2>1, <2>2
    <2>3. CASE n = 0
      <3> HIDE DEF O
      <3> QED  BY <1>1, <1>3, <2>1, <2>3
    <2>4. CASE NotSearched(h, needle)
      <3>1. size < m + 1
        BY <1>1, <1>3, <2>4 DEF NotSearched
      <3> HIDE DEF O, size, first
      <3> QED  BY <1>1, <1>3, <2>1, <3>1
    <2> QED  BY <2>2, <2>3, <2>4
  <1>10. Greatest({}) = -1
    BY DEF Greatest
  <1> HIDE DEF Attempt, D, O, first, skipped
  <1>11. CASE skipped \/ D = {}
    <2>1. O = {}
      BY <1>4, <1>9, <1>11
    <2> QED  BY <1>2, <1>10, <1>11, <2>1 DEF O, first
  <1>12. CASE ~skipped /\ D # {}
    <2> DEFINE e == Latest(D)
    <2>1. e \in D /\ \A y \in D : e >= y
      BY <1>8, <1>12, LastOne
    <2> HIDE DEF e
    <2>2. CASE Attempt(e) = "found"
      <3>1. e - m + 1 \in O
        BY <1>5, <2>1, <2>2
      <3>2. \A y \in O : e - m + 1 >= y
        <4> TAKE y \in O
        <4>1. e >= y + m - 1 /\ y \in Nat /\ e \in Nat
          BY <1>4, <1>7, <1>8, <2>1
        <4> QED  BY <1>1, <4>1
      <3>3. Greatest(O) = e - m + 1
        BY <1>8, <3>1, <3>2, GreatestIs
      <3> QED  BY <1>2, <1>12, <2>2, <3>3 DEF e, O, first
    <2>3. CASE Attempt(e) # "found"
      <3>1. e + 1 - m < first
        BY <1>6, <2>1, <2>3
      <3>2. O = {}
        <4> SUFFICES ASSUME NEW y \in O PROVE FALSE
          OBVIOUS
        <4>1. e >= y + m - 1 /\ first <= y /\ y \in Nat /\ e \in Nat
          BY <1>4, <1>7, <1>8, <2>1
        <4> QED  BY <1>1, <1>3, <3>1, <4>1
      <3> QED  BY <1>2, <1>10, <1>12, <2>3, <3>2 DEF e, O, first
    <2> QED  BY <2>2, <2>3
  <1> QED  BY <1>11, <1>12

LEMMA ViewOfC ==
    ASSUME NEW text \in Seq(Characters)
    PROVE  LET v == ViewInsideBuffer(text) IN
           /\ v.size = Len(text) + 1 /\ v.cells[Len(text) + 1] = NUL
           /\ \A k \in 1..Len(text) : v.cells[k] = text[k]
           /\ Len(text) > 0 /\ (\A k \in 1..Len(text) : text[k] # NUL) => OfC(v, Len(text))
  <1> DEFINE n == Len(text)
             m == n + 1
             all == Append(text, NUL)
             b == VectorInitCustomBuffer(m)
             v == Filled(b, all)
  <1>1. n \in Nat /\ m \in Nat /\ m > 0 /\ NUL \in Characters /\ Junk \in Characters
    BY CharactersKnown
  <1>2. all \in Seq(Characters) /\ Len(all) = m /\ all[m] = NUL /\ \A k \in 1..n : all[k] = text[k]
    BY <1>1
  <1>3. b \in VectorsOf(Characters) /\ Fit(b) /\ Len(b.cells) = m
    <2> HIDE DEF m
    <2> QED  BY <1>1, NewVectors
  <1>4. ViewInsideBuffer(text) = v
    BY DEF ViewInsideBuffer
  <1> HIDE DEF all, b
  <1>5. v.size = m /\ \A k \in 1..m : v.cells[k] = all[k]
    <2>1. Len(all) <= Len(b.cells)
      BY <1>1, <1>2, <1>3
    <2> QED  BY <1>2, <1>3, <2>1, FilledVector
  <1> HIDE DEF v
  <1>6. v.size = n + 1 /\ v.cells[n + 1] = NUL /\ \A k \in 1..n : v.cells[k] = text[k]
    BY <1>1, <1>2, <1>5
  <1>7. n > 0 /\ (\A k \in 1..n : text[k] # NUL) => OfC(v, n)
    BY <1>1, <1>6 DEF OfC
  <1> QED  BY <1>4, <1>6, <1>7

LEMMA NeedlesKnown ==
    ASSUME NEW needle \in Needles
    PROVE  /\ needle \in Seq(Characters) /\ Len(needle) > 0 /\ DOMAIN needle = 1..Len(needle)
           /\ \A k \in 1..Len(needle) : needle[k] # NUL
  <1>1. PICK n \in 1..2 : needle \in [1..n -> (Values \cup {Junk}) \ {NUL}]
    BY DEF Needles
  <1>2. (Values \cup {Junk}) \ {NUL} \subseteq Characters
    BY CharactersKnown
  <1>3. needle \in [1..n -> Characters] /\ n \in Nat
    BY <1>1, <1>2
  <1>4. needle \in Seq(Characters) /\ Len(needle) = n
    BY <1>3
  <1> QED  BY <1>1, <1>4

(* The searches in a string find the first and the last place that the needle has *)
(* in the part they look at.                                                     *)
LEMMA StringSearched ==
    ASSUME NEW s \in VectorsOf(Characters), Ended(s), NEW case \in BOOLEAN
    PROVE  StringSearches(s, case)
  <1>1. s.size \in Nat /\ s.size >= 1
    BY DEF Ended, VectorsOf, VectorOf
  <1>2. ASSUME NEW needle \in Needles, NEW i \in 0 .. s.size - 1, NEW n \in 0 .. s.size - 1
        PROVE  LET view == ViewInsideBuffer(needle) IN
               /\ i + n < s.size =>
                    LPosEx(s, view, i, n, case) = Least(Occurrences(Text(s), needle, i, i + n, case))
               /\ n <= i =>
                    RPosEx(s, view, i, n, case) = Greatest(Occurrences(Text(s), needle, i - n, i, case))
    <2> DEFINE view == ViewInsideBuffer(needle)
               m == Len(needle)
    <2>1. OfC(view, m) /\ DOMAIN needle = 1..m /\ \A k \in 1..m : view.cells[k] = needle[k]
      BY NeedlesKnown, ViewOfC
    <2>2. i \in Nat /\ n \in Nat /\ i < s.size /\ s.size \in Nat /\ m \in Nat
      BY <1>1, NeedlesKnown
    <2> HIDE DEF view, m
    <2>3. ASSUME i + n < s.size
          PROVE  LPosEx(s, view, i, n, case) = Least(Occurrences(Text(s), needle, i, i + n, case))
      <3> DEFINE last == i + n
      <3>1. last \in Nat /\ last < s.size
        BY <2>2, <2>3
      <3>2. Occurrences(Text(s), needle, i, last, case) = {p \in i .. last - m : Lies(s, view, m, p, case)}
        <4> HIDE DEF last
        <4>1. /\ s \in VectorsOf(Characters) /\ s.size >= 1 /\ OfC(view, m)
              /\ Len(needle) = m /\ DOMAIN needle = 1..m /\ \A k \in 1..m : view.cells[k] = needle[k]
              /\ i \in Nat /\ last \in Nat /\ last < s.size
          BY <1>1, <2>1, <2>2, <3>1 DEF m
        <4> QED  BY ONLY <4>1, OccurrencesAre
      <3>3. last - m = i + n - m
        BY <2>2
      <3>4. LPosEx(s, view, i, n, case) = Least({p \in i .. i + n - m : Lies(s, view, m, p, case)})
        BY <2>1, <2>2, <2>3, LPosFirst
      <3> QED  BY <3>2, <3>3, <3>4
    <2>4. ASSUME n <= i
          PROVE  RPosEx(s, view, i, n, case) = Greatest(Occurrences(Text(s), needle, i - n, i, case))
      <3> DEFINE first == i - n
      <3>1. first \in Nat
        BY <2>2, <2>4
      <3>2. Occurrences(Text(s), needle, first, i, case) = {p \in first .. i - m : Lies(s, view, m, p, case)}
        <4> HIDE DEF first
        <4>1. /\ s \in VectorsOf(Characters) /\ s.size >= 1 /\ OfC(view, m)
              /\ Len(needle) = m /\ DOMAIN needle = 1..m /\ \A k \in 1..m : view.cells[k] = needle[k]
              /\ first \in Nat /\ i \in Nat /\ i < s.size
          BY <1>1, <2>1, <2>2, <3>1 DEF m
        <4> QED  BY ONLY <4>1, OccurrencesAre
      <3>3. RPosEx(s, view, i, n, case) = Greatest({p \in i - n .. i - m : Lies(s, view, m, p, case)})
        BY <2>1, <2>2, <2>4, RPosLast
      <3> QED  BY <3>2, <3>3
    <2> QED  BY <2>3, <2>4 DEF view
  <1> QED  BY <1>2 DEF StringSearches

LEMMA TextsKnown ==
    ASSUME NEW text \in Texts
    PROVE  text \in Seq(Characters)
  <1>1. PICK n \in 0..2 : text \in [1..n -> Values]
    BY DEF Texts
  <1>2. Values \subseteq Characters
    BY CharactersKnown
  <1>3. text \in [1..n -> Characters] /\ n \in Nat
    BY <1>1, <1>2
  <1> QED  BY <1>3

LEMMA StringCompared ==
    ASSUME NEW s \in VectorsOf(Characters), Ended(s), NEW case \in BOOLEAN
    PROVE  Compares(s, case)
  <1>1. s.size \in Nat /\ s.size >= 1 /\ s.cells[s.size] = NUL
    BY DEF Ended, VectorsOf, VectorOf
  <1>2. ASSUME NEW text \in Texts
        PROVE  (StringCompare(s, ViewInsideBuffer(text), case) = 0) <=>
                 (Len(text) = s.size - 1 /\ \A k \in DOMAIN text : Same(s.cells[k], text[k], case))
    <2> DEFINE b == ViewInsideBuffer(text)
               m == Len(text)
               D == {k \in 1 .. s.size - 1 : ~Same(s.cells[k], b.cells[k], case)}
               e == Earliest(D)
               k == IF D = {} THEN s.size ELSE e
    <2>1. m \in Nat /\ DOMAIN text = 1..m /\ b.size = m + 1 /\ b.cells[m + 1] = NUL
      BY TextsKnown, ViewOfC
    <2>2. \A j \in 1..m : b.cells[j] = text[j]
      BY TextsKnown, ViewOfC
    <2> HIDE DEF b, m
    <2>3. StringCompare(s, b, case) =
            CASE s.size < b.size -> -1 [] s.size > b.size -> 1
              [] s.size = b.size -> IF s.cells[k] = b.cells[k] THEN 0
                                    ELSE IF WithBit32(s.cells[k]) < WithBit32(b.cells[k]) THEN -1 ELSE 1
      BY DEF StringCompare
    <2>4. CASE s.size < b.size
      <3>1. StringCompare(s, b, case) = -1 /\ m # s.size - 1
        BY <1>1, <2>1, <2>3, <2>4
      <3> QED  BY <3>1 DEF b, m
    <2>5. CASE s.size > b.size
      <3>1. StringCompare(s, b, case) = 1 /\ m # s.size - 1
        BY <1>1, <2>1, <2>3, <2>5
      <3> QED  BY <3>1 DEF b, m
    <2>6. CASE s.size = b.size
      <3>1. m = s.size - 1 /\ ~(s.size < b.size) /\ ~(s.size > b.size)
        BY <1>1, <2>1, <2>6
      <3>2. StringCompare(s, b, case) = 0 <=> s.cells[k] = b.cells[k]
        <4>1. StringCompare(s, b, case) = IF s.cells[k] = b.cells[k] THEN 0
                ELSE IF WithBit32(s.cells[k]) < WithBit32(b.cells[k]) THEN -1 ELSE 1
          <5> HIDE DEF k
          <5> QED  BY <2>3, <2>6, <3>1
        <4> HIDE DEF k
        <4> QED  BY <4>1
      <3>3. D = {} <=> \A j \in 1..m : Same(s.cells[j], text[j], case)
        BY <2>2, <3>1
      <3>4. CASE D = {}
        <4>1. k = s.size /\ s.cells[k] = b.cells[k]
          BY <1>1, <2>1, <2>6, <3>4
        <4> QED  BY <2>1, <3>1, <3>2, <3>3, <3>4, <4>1 DEF b, m
      <3>5. CASE D # {}
        <4>1. e \in D
          <5>1. D \in SUBSET Nat
            BY <1>1
          <5> HIDE DEF D
          <5> QED  BY <3>5, <5>1, FirstOne
        <4>2. k = e /\ s.cells[e] # b.cells[e]
          <5> HIDE DEF e
          <5> QED  BY <3>5, <4>1 DEF Same
        <4> QED  BY <2>1, <3>1, <3>2, <3>3, <3>5, <4>2 DEF b, m
      <3> QED  BY <3>4, <3>5
    <2> QED  BY <1>1, <2>1, <2>4, <2>5, <2>6
  <1> QED  BY <1>2 DEF Compares

-----------------------------------------------------------------------------
(* Searching a vector *)

(* The equation of the search as a function of its own *)
FoundAt(v, x, i, w, k) ==
    IF k = 0 THEN -1 ELSE IF w[k - 1] = -1 /\ v.cells[i + k] = x THEN i + k - 1 ELSE w[k - 1]

LEMMA LeastOf ==
    ASSUME NEW T \in SUBSET Nat
    PROVE  IF T = {} THEN Least(T) = -1 ELSE Least(T) \in T /\ \A y \in T : Least(T) <= y
  BY LeastNumber DEF Least

(* The first place with x among the k elements from index i on *)
PlacesAmong(v, x, i, k) == {p \in i .. i + k - 1 : v.cells[p + 1] = x}

LEMMA OnePlaceMore ==
    ASSUME NEW v, NEW x, NEW i \in Nat, NEW k \in Nat \ {0}
    PROVE  LET before == PlacesAmong(v, x, i, k - 1) IN
           Least(PlacesAmong(v, x, i, k)) =
             IF Least(before) = -1 /\ v.cells[i + k] = x THEN i + k - 1 ELSE Least(before)
  <1> DEFINE A == PlacesAmong(v, x, i, k - 1)
             B == PlacesAmong(v, x, i, k)
             a == Least(A)
             p == i + k - 1
  <1>1. p \in Nat /\ p + 1 = i + k
    OBVIOUS
  <1>2. A \in SUBSET Nat /\ B \in SUBSET Nat /\ \A y \in A : y < p
    BY DEF PlacesAmong
  <1>3. \A y : y \in B <=> y \in A \/ (y = p /\ v.cells[i + k] = x)
    <2> TAKE y
    <2>1. y \in i .. i + k - 1 <=> y \in i .. i + (k - 1) - 1 \/ y = p
      OBVIOUS
    <2> QED  BY <1>1, <2>1 DEF PlacesAmong
  <1>4. IF A = {} THEN a = -1 ELSE a \in A /\ \A y \in A : a <= y
    <2> HIDE DEF A
    <2> QED  BY <1>2, LeastOf
  <1> HIDE DEF A, B, a, p
  <1>5. CASE A # {}
    <2>1. a \in A /\ a # -1 /\ a \in Nat /\ a < p
      <3>1. a \in A
        BY <1>4, <1>5
      <3> QED  BY <1>2, <3>1
    <2>2. a \in B /\ \A y \in B : a <= y
      BY <1>1, <1>2, <1>3, <1>4, <1>5, <2>1
    <2>3. Least(B) = a
      BY <1>2, <2>2, LeastIs
    <2> QED  BY <2>1, <2>3 DEF A, B, a
  <1>6. CASE A = {} /\ v.cells[i + k] = x
    <2>1. a = -1 /\ p \in B /\ \A y \in B : p <= y
      BY <1>1, <1>3, <1>4, <1>6
    <2>2. Least(B) = p
      BY <1>2, <2>1, LeastIs
    <2> QED  BY <1>6, <2>1, <2>2 DEF A, B, a, p
  <1>7. CASE A = {} /\ ~(v.cells[i + k] = x)
    <2>1. B = A
      BY <1>3, <1>7
    <2> QED  BY <1>7, <2>1 DEF A, B, a
  <1> QED  BY <1>5, <1>6, <1>7

LEMMA VectorFound ==
    ASSUME NEW v, NEW x, NEW i \in Nat, NEW n \in Nat
    PROVE  VectorFindEx(v, x, i, n) = Least({k \in i .. i + n - 1 : v.cells[k + 1] = x})
  <1> DEFINE g(k) == Least(PlacesAmong(v, x, i, k))
             F(w) == w = [k \in 0..n |-> FoundAt(v, x, i, w, k)]
             found == CHOOSE w : F(w)
  <1>1. VectorFindEx(v, x, i, n) = found[n]
    BY DEF VectorFindEx, FoundAt
  <1>2. g(0) = -1
    <2>1. PlacesAmong(v, x, i, 0) = {}
      BY DEF PlacesAmong
    <2> QED  BY <2>1 DEF Least
  <1>3. \A k \in 1..n : g(k) = IF g(k - 1) = -1 /\ v.cells[i + k] = x THEN i + k - 1 ELSE g(k - 1)
    <2> TAKE k \in 1..n
    <2>1. k \in Nat \ {0}
      OBVIOUS
    <2> QED  BY <2>1, OnePlaceMore
  <1> HIDE DEF g
  <1>4. \E w : F(w)
    <2> DEFINE w == [k \in 0..n |-> g(k)]
    <2>1. \A k \in 0..n : w[k] = FoundAt(v, x, i, w, k)
      <3> TAKE k \in 0..n
      <3>1. CASE k = 0
        BY <1>2, <3>1 DEF FoundAt
      <3>2. CASE k # 0
        <4>1. k \in 1..n /\ k - 1 \in 0..n /\ w[k - 1] = g(k - 1) /\ w[k] = g(k)
          BY <3>2
        <4> HIDE DEF w
        <4> QED  BY <1>3, <3>2, <4>1 DEF FoundAt
      <3> QED  BY <3>1, <3>2
    <2>2. F(w)
      BY <2>1
    <2> QED  BY <2>2
  <1>5. F(found)
    BY <1>4
  <1> HIDE DEF found
  <1>6. \A k \in 0..n : found[k] = FoundAt(v, x, i, found, k)
    BY <1>5
  <1>7. \A k \in 0..n : found[k] = g(k)
    <2> DEFINE T == {k \in 0..n : found[k] # g(k)}
    <2> SUFFICES ASSUME T # {} PROVE FALSE
      OBVIOUS
    <2>1. PICK k \in T : \A y \in T : k <= y
      <3>1. T \in SUBSET Nat
        OBVIOUS
      <3> HIDE DEF T
      <3> QED  BY <3>1, LeastNumber
    <2>2. k \in 0..n /\ found[k] # g(k) /\ found[k] = FoundAt(v, x, i, found, k)
      BY <1>6, <2>1
    <2>3. k # 0
      BY <1>2, <2>2 DEF FoundAt
    <2>4. k - 1 \in 0..n /\ k - 1 \notin T /\ k \in 1..n
      BY <2>1, <2>2, <2>3
    <2>5. found[k - 1] = g(k - 1)
      BY <2>4
    <2> QED  BY <1>3, <2>2, <2>3, <2>4, <2>5 DEF FoundAt
  <1>8. found[n] = g(n)
    BY <1>7
  <1> QED  BY <1>1, <1>8 DEF g, PlacesAmong

(* The states of the binary search *)
Bounded == [l : Int, h : Int, found : BOOLEAN]

LEMMA NarrowedFields ==
    ASSUME NEW v, NEW x, NEW s \in Bounded
    PROVE  LET mid == s.l + ((s.h - s.l) \div 2)
               r == Narrowed(v, x, s)
           IN  /\ s.l > s.h => r = s
               /\ s.l <= s.h => mid \in Int /\ s.l <= mid /\ mid <= s.h
               /\ s.l <= s.h /\ v.cells[mid + 1] < x =>
                    r \in Bounded /\ r.l = mid + 1 /\ r.h = s.h /\ r.found = s.found
               /\ s.l <= s.h /\ ~(v.cells[mid + 1] < x) =>
                    r \in Bounded /\ r.l = s.l /\ r.h = mid - 1 /\ r.found = (s.found \/ v.cells[mid + 1] = x)
  <1> DEFINE mid == s.l + ((s.h - s.l) \div 2)
             r == Narrowed(v, x, s)
             lower == [l |-> mid + 1, h |-> s.h, found |-> s.found]
             upper == [l |-> s.l, h |-> mid - 1, found |-> s.found \/ v.cells[mid + 1] = x]
  <1>1. s.l \in Int /\ s.h \in Int /\ s.found \in BOOLEAN
    BY DEF Bounded
  <1>2. mid \in Int /\ (s.l <= s.h => s.l <= mid /\ mid <= s.h)
    BY <1>1
  <1>3. r = IF s.l > s.h THEN s ELSE IF v.cells[mid + 1] < x THEN lower ELSE upper
    BY DEF Narrowed
  <1> HIDE DEF mid, r
  <1>4. lower \in Bounded /\ lower.l = mid + 1 /\ lower.h = s.h /\ lower.found = s.found
    BY <1>1, <1>2 DEF Bounded
  <1>5. /\ upper \in Bounded /\ upper.l = s.l /\ upper.h = mid - 1
        /\ upper.found = (s.found \/ v.cells[mid + 1] = x)
    <2>1. (s.found \/ v.cells[mid + 1] = x) \in BOOLEAN
      OBVIOUS
    <2> QED  BY <1>1, <1>2, <2>1 DEF Bounded
  <1> HIDE DEF lower, upper
  <1>6. s.l > s.h => r = s
    BY <1>3
  <1>7. s.l <= s.h => ~(s.l > s.h)
    BY <1>1
  <1>8. s.l <= s.h /\ v.cells[mid + 1] < x => r = lower
    BY <1>3, <1>7
  <1>9. s.l <= s.h /\ ~(v.cells[mid + 1] < x) => r = upper
    BY <1>3, <1>7
  <1> QED  BY <1>2, <1>4, <1>5, <1>6, <1>8, <1>9 DEF mid, r

(* After k rounds the elements below l are less than x and those above h are not, *)
(* one of them is x if the search has met it, and n - k of them at most are left. *)
Sought(v, x, i, n, s, k) ==
    /\ s \in Bounded /\ i <= s.l /\ s.l <= s.h + 1 /\ s.h < i + n
    /\ \A p \in i .. s.l - 1 : v.cells[p + 1] < x
    /\ \A p \in s.h + 1 .. i + n - 1 : ~(v.cells[p + 1] < x)
    /\ s.found <=> \E p \in s.h + 1 .. i + n - 1 : v.cells[p + 1] = x
    /\ s.h - s.l < n - k \/ s.h < s.l

Ascending(v, i, n) ==
    /\ \A p \in i .. i + n - 1 : v.cells[p + 1] \in Int
    /\ \A p, q \in i .. i + n - 1 : p < q => v.cells[p + 1] <= v.cells[q + 1]

LEMMA Round ==
    ASSUME NEW v, NEW x \in Int, NEW i \in Nat, NEW n \in Nat, Ascending(v, i, n),
           NEW s, NEW k \in Nat, Sought(v, x, i, n, s, k)
    PROVE  Sought(v, x, i, n, Narrowed(v, x, s), k + 1)
  <1> DEFINE mid == s.l + ((s.h - s.l) \div 2)
             r == Narrowed(v, x, s)
             c(p) == v.cells[p + 1]
             last == i + n - 1
             l == s.l
             h == s.h
  <1>1. /\ s \in Bounded /\ i <= l /\ l <= h + 1 /\ h < i + n
        /\ (\A p \in i .. l - 1 : c(p) < x) /\ (\A p \in h + 1 .. last : ~(c(p) < x))
        /\ (s.found <=> \E p \in h + 1 .. last : c(p) = x)
        /\ (h - l < n - k \/ h < l)
    BY DEF Sought
  <1>2. l \in Int /\ h \in Int /\ s.found \in BOOLEAN
    BY <1>1 DEF Bounded
  <1>3. (\A p \in i..last : c(p) \in Int) /\ \A p, q \in i..last : p < q => c(p) <= c(q)
    BY DEF Ascending
  <1>4. last \in Int /\ i + n - 1 = last /\ i + n = last + 1
    OBVIOUS
  <1>5. /\ l > h => r = s
        /\ l <= h => mid \in Int /\ l <= mid /\ mid <= h
        /\ l <= h /\ c(mid) < x => r \in Bounded /\ r.l = mid + 1 /\ r.h = h /\ r.found = s.found
        /\ l <= h /\ ~(c(mid) < x) =>
            r \in Bounded /\ r.l = l /\ r.h = mid - 1 /\ r.found = (s.found \/ c(mid) = x)
    BY <1>1, NarrowedFields
  <1> HIDE DEF mid, r, c, last, l, h
  <1> SUFFICES /\ r \in Bounded /\ i <= r.l /\ r.l <= r.h + 1 /\ r.h < i + n
               /\ (\A p \in i .. r.l - 1 : c(p) < x) /\ (\A p \in r.h + 1 .. last : ~(c(p) < x))
               /\ (r.found <=> \E p \in r.h + 1 .. last : c(p) = x)
               /\ (r.h - r.l < n - (k + 1) \/ r.h < r.l)
    BY DEF Sought, r, c, last
  <1>6. CASE l > h
    <2>1. r = s /\ r.l = l /\ r.h = h
      BY <1>5, <1>6 DEF l, h
    <2>2. h < l
      BY <1>2, <1>6
    <2> QED  BY <1>1, <2>1, <2>2
  <1>7. CASE l <= h /\ c(mid) < x
    <2>1. r \in Bounded /\ r.l = mid + 1 /\ r.h = h /\ r.found = s.found /\ mid \in Int /\ l <= mid /\ mid <= h
      BY <1>5, <1>7
    <2>2. i <= mid + 1 /\ mid + 1 <= h + 1 /\ (h - (mid + 1) < n - (k + 1) \/ h < mid + 1) /\ mid \in i..last
      BY <1>1, <1>2, <1>4, <1>7, <2>1
    <2>3. \A p \in i .. (mid + 1) - 1 : c(p) < x
      <3> TAKE p \in i .. (mid + 1) - 1
      <3>1. p \in i..last /\ (p = mid \/ p < mid)
        BY <1>4, <2>1, <2>2
      <3>2. CASE p = mid
        BY <1>7, <3>2
      <3>3. CASE p < mid
        <4>1. c(p) <= c(mid) /\ c(p) \in Int /\ c(mid) \in Int
          BY <1>3, <2>2, <3>1, <3>3
        <4> QED  BY <1>7, <4>1
      <3> QED  BY <3>1, <3>2, <3>3
    <2> QED  BY <1>1, <2>1, <2>2, <2>3
  <1>8. CASE l <= h /\ ~(c(mid) < x)
    <2>1. /\ r \in Bounded /\ r.l = l /\ r.h = mid - 1 /\ r.found = (s.found \/ c(mid) = x)
          /\ mid \in Int /\ l <= mid /\ mid <= h
      BY <1>5, <1>8
    <2>2. l <= (mid - 1) + 1 /\ mid - 1 < i + n /\ (mid - 1 - l < n - (k + 1) \/ mid - 1 < l) /\ mid \in i..last
      BY <1>1, <1>2, <1>4, <1>8, <2>1
    <2>3. \A p \in mid..last : p \in i..last /\ (p = mid \/ mid < p)
      BY <2>1, <2>2, <1>4
    <2>4. \A p \in mid..last : c(mid) <= c(p) /\ c(p) \in Int /\ c(mid) \in Int
      <3> TAKE p \in mid..last
      <3>1. p \in i..last /\ (p = mid \/ mid < p) /\ c(p) \in Int /\ c(mid) \in Int
        BY <1>3, <2>2, <2>3
      <3>2. CASE p = mid
        BY <3>1, <3>2
      <3>3. CASE mid < p
        BY <1>3, <2>2, <3>1, <3>3
      <3> QED  BY <3>1, <3>2, <3>3
    <2>5. \A p \in mid..last : ~(c(p) < x)
      <3> TAKE p \in mid..last
      <3>1. c(mid) <= c(p) /\ c(p) \in Int /\ c(mid) \in Int
        BY <2>4
      <3> QED  BY <1>8, <3>1
    <2>6. r.found <=> \E p \in mid..last : c(p) = x
      <3>1. ASSUME s.found
            PROVE  \E p \in mid..last : c(p) = x
        <4>1. PICK p \in h + 1 .. last : c(p) = x
          BY <1>1, <3>1
        <4>2. p \in mid..last
          BY <1>2, <2>1
        <4> QED  BY <4>1, <4>2
      <3>2. ASSUME c(mid) = x
            PROVE  \E p \in mid..last : c(p) = x
        <4>1. mid \in mid..last
          BY <2>1, <2>2, <1>4
        <4> QED  BY <3>2, <4>1
      <3>3. ASSUME NEW p \in mid..last, c(p) = x
            PROVE  c(mid) = x
        <4>1. c(mid) <= c(p) /\ c(mid) \in Int
          BY <2>4
        <4> QED  BY <1>8, <3>3, <4>1
      <3> QED  BY <2>1, <3>1, <3>2, <3>3
    <2>7. r.h + 1 = mid
      BY <2>1
    <2> QED  BY <1>1, <2>1, <2>2, <2>5, <2>6, <2>7
  <1>9. l > h \/ l <= h
    BY <1>2
  <1> QED  BY <1>6, <1>7, <1>8, <1>9

(* The equation of the rounds as a function of its own *)
RoundAt(v, x, i, n, w, k) ==
    IF k = 0 THEN [l |-> i, h |-> i + n - 1, found |-> FALSE] ELSE Narrowed(v, x, w[k - 1])

LEMMA RoundsExist ==
    ASSUME NEW v, NEW x, NEW i \in Nat, NEW n \in Nat
    PROVE  \E w : w = [k \in 0..n |-> RoundAt(v, x, i, n, w, k)]
  <1> DEFINE Upto(m) == \E w : w = [k \in 0..m |-> RoundAt(v, x, i, n, w, k)]
             T == {m \in Nat : ~Upto(m)}
  <1>1. T = {}
    <2> SUFFICES ASSUME T # {} PROVE FALSE
      OBVIOUS
    <2>1. PICK m \in T : \A y \in T : m <= y
      <3>1. T \in SUBSET Nat
        OBVIOUS
      <3> HIDE DEF T
      <3> QED  BY <3>1, LeastNumber
    <2>2. m \in Nat /\ ~Upto(m)
      BY <2>1
    <2>3. CASE m = 0
      <3> DEFINE w == [k \in 0..0 |-> [l |-> i, h |-> i + n - 1, found |-> FALSE]]
      <3>1. \A k \in 0..0 : RoundAt(v, x, i, n, w, k) = [l |-> i, h |-> i + n - 1, found |-> FALSE]
        BY DEF RoundAt
      <3>2. w = [k \in 0..0 |-> RoundAt(v, x, i, n, w, k)]
        BY <3>1
      <3>3. Upto(0)
        BY <3>2
      <3> QED  BY <2>2, <2>3, <3>3
    <2>4. CASE m # 0
      <3>1. m - 1 \in Nat /\ m - 1 \notin T
        BY <2>1, <2>2, <2>4
      <3>2. PICK u : u = [k \in 0 .. m - 1 |-> RoundAt(v, x, i, n, u, k)]
        BY <3>1
      <3> DEFINE w == [k \in 0..m |-> RoundAt(v, x, i, n, u, k)]
      <3>3. \A k \in 0 .. m - 1 : w[k] = u[k]
        <4> TAKE k \in 0 .. m - 1
        <4>1. k \in 0..m
          BY <2>2
        <4>2. w[k] = RoundAt(v, x, i, n, u, k)
          BY <4>1
        <4>3. u[k] = RoundAt(v, x, i, n, u, k)
          <5> DEFINE f == [j \in 0 .. m - 1 |-> RoundAt(v, x, i, n, u, j)]
          <5>1. f[k] = RoundAt(v, x, i, n, u, k)
            OBVIOUS
          <5>2. u = f
            BY <3>2
          <5> HIDE DEF f
          <5> QED  BY <5>1, <5>2
        <4> QED  BY <4>2, <4>3
      <3> HIDE DEF w
      <3>4. \A k \in 0..m : RoundAt(v, x, i, n, u, k) = RoundAt(v, x, i, n, w, k)
        <4> TAKE k \in 0..m
        <4>1. CASE k = 0
          BY <4>1 DEF RoundAt
        <4>2. CASE k # 0
          <5>1. k - 1 \in 0 .. m - 1
            BY <2>2, <4>2
          <5> QED  BY <3>3, <4>2, <5>1 DEF RoundAt
        <4> QED  BY <4>1, <4>2
      <3>5. w = [k \in 0..m |-> RoundAt(v, x, i, n, w, k)]
        BY <3>4 DEF w
      <3>6. Upto(m)
        BY <3>5
      <3> QED  BY <2>2, <3>6
    <2> QED  BY <2>3, <2>4
  <1> QED  BY <1>1

LEMMA Rounds ==
    ASSUME NEW v, NEW x \in Int, NEW i \in Nat, NEW n \in Nat, Ascending(v, i, n)
    PROVE  \E s : /\ VectorBinarySearchEx(v, x, i, n) = [index |-> s.l, found |-> s.found]
                  /\ Sought(v, x, i, n, s, n)
  <1> DEFINE F(w) == w = [k \in 0..n |-> RoundAt(v, x, i, n, w, k)]
             after == CHOOSE w : F(w)
  <1>1. VectorBinarySearchEx(v, x, i, n) = [index |-> after[n].l, found |-> after[n].found]
    BY DEF VectorBinarySearchEx, RoundAt
  <1>2. F(after)
    BY RoundsExist
  <1> HIDE DEF after
  <1>3. \A k \in 0..n : after[k] = RoundAt(v, x, i, n, after, k)
    BY <1>2
  <1>4. \A k \in 0..n : Sought(v, x, i, n, after[k], k)
    <2> DEFINE T == {k \in 0..n : ~Sought(v, x, i, n, after[k], k)}
    <2> SUFFICES ASSUME T # {} PROVE FALSE
      OBVIOUS
    <2>1. PICK k \in T : \A y \in T : k <= y
      <3>1. T \in SUBSET Nat
        OBVIOUS
      <3> HIDE DEF T
      <3> QED  BY <3>1, LeastNumber
    <2>2. k \in 0..n /\ ~Sought(v, x, i, n, after[k], k) /\ after[k] = RoundAt(v, x, i, n, after, k)
      BY <1>3, <2>1
    <2>3. CASE k = 0
      <3> DEFINE s == [l |-> i, h |-> i + n - 1, found |-> FALSE]
      <3>1. after[k] = s
        BY <2>2, <2>3 DEF RoundAt
      <3>2. s \in Bounded /\ s.l = i /\ s.h = i + n - 1 /\ s.found = FALSE
        BY DEF Bounded
      <3> HIDE DEF s
      <3>3. Sought(v, x, i, n, s, 0)
        BY <3>2 DEF Sought
      <3> QED  BY <2>2, <2>3, <3>1, <3>3
    <2>4. CASE k # 0
      <3>1. k - 1 \in 0..n /\ k - 1 \notin T /\ (k - 1) + 1 = k /\ k - 1 \in Nat
        BY <2>1, <2>2, <2>4
      <3>2. Sought(v, x, i, n, after[k - 1], k - 1)
        BY <3>1
      <3>3. Sought(v, x, i, n, Narrowed(v, x, after[k - 1]), (k - 1) + 1)
        BY <3>1, <3>2, Round
      <3>4. after[k] = Narrowed(v, x, after[k - 1])
        BY <2>2, <2>4 DEF RoundAt
      <3> QED  BY <2>2, <3>1, <3>3, <3>4
    <2> QED  BY <2>3, <2>4
  <1>5. Sought(v, x, i, n, after[n], n)
    BY <1>4
  <1> QED  BY <1>1, <1>5

(* The searches in a vector find the first place, and where a place is to be. *)
LEMMA VectorSearched ==
    ASSUME NEW v \in VectorsOf(Characters)
    PROVE  VectorSearches(v)
  <1>1. v.size \in Nat /\ v.cells \in Seq(Characters) /\ v.size <= Len(v.cells)
    BY DEF VectorsOf, VectorOf, Sound
  <1>2. Values \cup {Junk} \subseteq Int /\ Characters \subseteq Int
    BY ContainerAssumption, CharactersKnown
  <1>3. ASSUME NEW x \in Values \cup {Junk}, NEW i \in 0 .. v.size, NEW n \in 0 .. v.size
        PROVE  LET part == SubSeq(v.cells, i + 1, i + n)
                   found == VectorBinarySearchEx(v, x, i, n)
               IN  i < v.size /\ i + n <= v.size =>
                   /\ VectorFindEx(v, x, i, n) = Least({k \in i .. i + n - 1 : v.cells[k + 1] = x})
                   /\ (\A j, k \in DOMAIN part : j < k => part[j] <= part[k]) =>
                        /\ found.index = i + Cardinality({k \in DOMAIN part : part[k] < x})
                        /\ found.found = (x \in ToSet(part))
    <2> DEFINE part == SubSeq(v.cells, i + 1, i + n)
               found == VectorBinarySearchEx(v, x, i, n)
               c(p) == v.cells[p + 1]
    <2> SUFFICES ASSUME i < v.size, i + n <= v.size
                 PROVE  /\ VectorFindEx(v, x, i, n) = Least({k \in i .. i + n - 1 : v.cells[k + 1] = x})
                        /\ (\A j, k \in DOMAIN part : j < k => part[j] <= part[k]) =>
                            /\ found.index = i + Cardinality({k \in DOMAIN part : part[k] < x})
                            /\ found.found = (x \in ToSet(part))
      OBVIOUS
    <2>1. i \in Nat /\ n \in Nat /\ x \in Int
      BY <1>1, <1>2
    <2>2. VectorFindEx(v, x, i, n) = Least({k \in i .. i + n - 1 : v.cells[k + 1] = x})
      BY <2>1, VectorFound
    <2>3. /\ DOMAIN part = 1..n /\ \A k \in 1..n : part[k] = v.cells[i + k] /\ v.cells[i + k] \in Int
      <3>1. i + n <= Len(v.cells) /\ Len(v.cells) \in Nat
        BY <1>1, <2>1
      <3>2. part \in Seq(Characters) /\ Len(part) = n /\ \A k \in 1..n : part[k] = v.cells[i + k]
        BY <1>1, <2>1, <3>1
      <3> HIDE DEF part
      <3>3. DOMAIN part = 1..n
        BY <3>2
      <3>4. \A k \in 1..n : part[k] \in Int
        <4>1. \A k \in 1..n : part[k] \in Characters
          BY <3>2
        <4> QED  BY <1>2, <4>1
      <3>5. \A k \in 1..n : v.cells[i + k] \in Int
        BY <3>2, <3>4
      <3> QED  BY <3>2, <3>3, <3>5
    <2> HIDE DEF part, found
    <2>4. ASSUME \A j, k \in DOMAIN part : j < k => part[j] <= part[k]
          PROVE  /\ found.index = i + Cardinality({k \in DOMAIN part : part[k] < x})
                 /\ found.found = (x \in ToSet(part))
      <3>1. \A p \in i .. i + n - 1 : p + 1 - i \in 1..n /\ c(p) = part[p + 1 - i] /\ c(p) \in Int
        <4> TAKE p \in i .. i + n - 1
        <4>1. p + 1 - i \in 1..n /\ i + (p + 1 - i) = p + 1
          BY <2>1
        <4> QED  BY <2>3, <4>1
      <3>2. Ascending(v, i, n)
        <4>1. ASSUME NEW p \in i .. i + n - 1, NEW q \in i .. i + n - 1, p < q
              PROVE  c(p) <= c(q)
          <5>1. p + 1 - i < q + 1 - i
            BY <2>1, <4>1
          <5> QED  BY <2>3, <2>4, <3>1, <5>1
        <4> QED  BY <3>1, <4>1 DEF Ascending
      <3>3. PICK s : found = [index |-> s.l, found |-> s.found] /\ Sought(v, x, i, n, s, n)
        BY <2>1, <3>2, Rounds DEF found
      <3> DEFINE l == s.l
                 h == s.h
      <3>4. /\ l \in Int /\ h \in Int /\ s.found \in BOOLEAN /\ i <= l /\ l <= h + 1 /\ h < i + n
            /\ (h - l < n - n \/ h < l)
        BY <3>3 DEF Sought, Bounded
      <3>5. h + 1 = l /\ l <= i + n /\ l - i \in Nat
        BY <2>1, <3>4
      <3>6. /\ \A p \in i .. l - 1 : c(p) < x
            /\ \A p \in l .. i + n - 1 : ~(c(p) < x)
            /\ s.found <=> \E p \in l .. i + n - 1 : c(p) = x
        BY <3>3, <3>5 DEF Sought
      <3> HIDE DEF l, h
      <3>7. found.index = l /\ found.found = s.found
        BY <3>3 DEF l
      <3>8. \A k \in 1..n : part[k] < x <=> k <= l - i
        <4> TAKE k \in 1..n
        <4>1. i + k - 1 \in i .. i + n - 1 /\ (i + k - 1) + 1 = i + k /\ c(i + k - 1) = part[k]
          <5>1. (i + k - 1) + 1 = i + k /\ i + k - 1 \in i .. i + n - 1
            BY <2>1
          <5> QED  BY <2>3, <5>1
        <4>2. CASE k <= l - i
          <5>1. i + k - 1 \in i .. l - 1
            BY <2>1, <3>4, <4>2
          <5> QED  BY <3>6, <4>1, <4>2, <5>1
        <4>3. CASE ~(k <= l - i)
          <5>1. i + k - 1 \in l .. i + n - 1
            BY <2>1, <3>4, <4>3
          <5> QED  BY <3>6, <4>1, <4>3, <5>1
        <4> QED  BY <4>2, <4>3
      <3>9. Cardinality({k \in DOMAIN part : part[k] < x}) = l - i
        <4> DEFINE d == l - i
        <4>1. d \in Nat /\ d <= n
          BY <2>1, <3>4, <3>5
        <4>2. {k \in DOMAIN part : part[k] < x} = 1..d
          <5>1. \A k \in 1..n : part[k] < x <=> k <= d
            BY <3>8
          <5> HIDE DEF d
          <5> QED  BY <2>1, <2>3, <4>1, <5>1
        <4> HIDE DEF d
        <4>3. Cardinality(1..d) = d
          BY <4>1, FS_Interval
        <4> QED  BY <4>2, <4>3 DEF d
      <3>10. s.found <=> x \in ToSet(part)
        <4>1. ASSUME s.found
              PROVE  x \in ToSet(part)
          <5>1. PICK p \in l .. i + n - 1 : c(p) = x
            BY <3>6, <4>1
          <5>2. p \in i .. i + n - 1
            BY <2>1, <3>4
          <5>3. p + 1 - i \in DOMAIN part /\ part[p + 1 - i] = x
            BY <2>3, <3>1, <5>1, <5>2
          <5> QED  BY <5>3 DEF ToSet
        <4>2. ASSUME x \in ToSet(part)
              PROVE  s.found
          <5>1. PICK k \in 1..n : part[k] = x
            BY <2>3, <4>2 DEF ToSet
          <5>2. ~(k <= l - i)
            BY <2>1, <3>8, <5>1
          <5>3. i + k - 1 \in l .. i + n - 1 /\ (i + k - 1) + 1 = i + k
            BY <2>1, <3>4, <5>2
          <5>4. c(i + k - 1) = x
            BY <2>3, <5>1, <5>3
          <5> QED  BY <3>6, <5>3, <5>4
        <4> QED  BY <4>1, <4>2
      <3> QED  BY <2>1, <3>4, <3>7, <3>9, <3>10
    <2> QED  BY <2>2, <2>4
  <1> QED  BY <1>3 DEF VectorSearches

(* The searches in every vector and every string are exact. *)
LEMMA SearchesInArrays ==
    ASSUME VectorInv, StringInv
    PROVE  SearchesExact
  <1>1. kind = "vector" => VectorSearches(body)
    BY VectorSearched DEF VectorInv, VectorKept
  <1>2. kind = "string" => \A case \in BOOLEAN : StringSearches(body, case) /\ Compares(body, case)
    BY StringSearched, StringCompared DEF StringInv, VectorKept
  <1> QED  BY <1>1, <1>2 DEF SearchesExact
=============================================================================
