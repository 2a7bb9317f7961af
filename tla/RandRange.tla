----------------------------- MODULE RandRange -----------------------------
(***************************************************************************)
(* rand_exclude of common.h: a random value between min and max that is    *)
(* not between excl_min and excl_max, all four included.  The pipeline     *)
(* draws the index of another instruction as the target of a jump with it, *)
(* the mutator the partner of a swap, and validate_registers a register    *)
(* that is not reserved.  All values are uint64_t, so every sum and        *)
(* difference is taken modulo Word.                                        *)
(***************************************************************************)
EXTENDS Integers

CONSTANT Word   \* 2^64, the number of values of a uint64_t

ASSUME WordAssumption == Word \in Nat \ {0}

UInt == 0..(Word - 1)

VARIABLES
    min, max, excl_min, excl_max,   \* the arguments
    result,                         \* what the last call returned
    stage      \* "idle", "drawing", "returned", or "aborted" by an assertion

drawVars == <<min, max, excl_min, excl_max, result, stage>>

DrawTypeOK ==
    /\ min \in UInt /\ max \in UInt /\ excl_min \in UInt /\ excl_max \in UInt
    /\ result \in UInt
    /\ stage \in {"idle", "drawing", "returned", "aborted"}

\* The four assertions, without the last.
Asserted_NoLast == min < max /\ excl_min <= excl_max /\ min <= excl_min /\ excl_max <= max

\* The four assertions (the library is built without NDEBUG)
Asserted ==
    /\ min < max
    /\ excl_min <= excl_max
    /\ min <= excl_min /\ excl_max <= max
    /\ excl_min > min \/ excl_max < max

count_lo == (excl_min - min) % Word

\* A number of values above the gap that includes its upper end.
count_hi_OneMore == (max - excl_max + 1) % Word

count_hi == (max - excl_max) % Word

count_valid == (count_lo + count_hi) % Word

\* A mapping that does not step over the upper end of the gap.
Drawn_OnGap(rand) ==
    IF rand < count_lo THEN (min + rand) % Word
    ELSE (excl_max + (rand - count_lo)) % Word

\* The value that a draw stands for
Drawn(rand) ==
    IF rand < count_lo THEN (min + rand) % Word
    ELSE (((excl_max + 1) % Word) + (rand - count_lo)) % Word

-----------------------------------------------------------------------------
DrawInit ==
    /\ min \in UInt /\ max \in UInt /\ excl_min \in UInt /\ excl_max \in UInt
    /\ result = 0
    /\ stage = "idle"

Pass ==
    /\ stage = "idle"
    /\ Asserted
    /\ stage' = "drawing"
    /\ UNCHANGED <<min, max, excl_min, excl_max, result>>

Fail ==
    /\ stage = "idle"
    /\ ~Asserted
    /\ stage' = "aborted"
    /\ UNCHANGED <<min, max, excl_min, excl_max, result>>

\* random() % count_valid
Draw ==
    /\ stage = "drawing"
    /\ count_valid # 0
    /\ \E rand \in 0..(count_valid - 1) : result' = Drawn(rand)
    /\ stage' = "returned"
    /\ UNCHANGED <<min, max, excl_min, excl_max>>

\* The next call, with the interval and the gap of its caller
Call ==
    /\ stage = "returned"
    /\ min' \in UInt /\ max' \in UInt /\ excl_min' \in UInt /\ excl_max' \in UInt
    /\ stage' = "idle"
    /\ UNCHANGED result

DrawNext == Pass \/ Fail \/ Draw \/ Call

DrawSpec == DrawInit /\ [][DrawNext]_drawVars

-----------------------------------------------------------------------------
Admissible == (min..max) \ (excl_min..excl_max)

(***************************************************************************)
(* DrawsAdmissible: whatever random() gives, the value returned is in the  *)
(* interval and outside the gap, at every boundary: no sum wraps around,   *)
(* and the gap may lie at either end.                                      *)
(***************************************************************************)
DrawsAdmissible == stage = "returned" => result \in Admissible

(***************************************************************************)
(* NeverEmpty: arguments that pass the assertions leave a value to draw,   *)
(* so the exit(69) for an empty choice (common.h:142-156) is dead code and *)
(* random() is never divided by zero.                                      *)
(***************************************************************************)
NeverEmpty == stage = "drawing" => count_valid # 0

(***************************************************************************)
(* EveryValueOnce: each admissible value is the image of exactly one draw: *)
(* no instruction or register is left out or favoured.                     *)
(***************************************************************************)
EveryValueOnce ==
    stage = "drawing" =>
        \A v \in Admissible :
            \E rand \in 0..(count_valid - 1) :
                /\ Drawn(rand) = v
                /\ \A other \in 0..(count_valid - 1) : Drawn(other) = v => other = rand
=============================================================================
