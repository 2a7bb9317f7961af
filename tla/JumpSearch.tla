----------------------------- MODULE JumpSearch -----------------------------
(***************************************************************************)
(* find_target of pipeline.c: validate_jump_targets searches the addresses *)
(* of the instructions, which validate_metadata has just laid out one      *)
(* behind the other, for the address that a jump remembers.  The recursion *)
(* is a tail call, so its frames are the two bounds min and max here.      *)
(* Indices are size_t: they count from 0 and cannot be negative.           *)
(***************************************************************************)
EXTENDS Integers

CONSTANTS
    MaxCount,   \* bound: the instructions of a snippet
    Address,    \* the addresses an instruction may have or a jump may remember
    NotFound    \* the NULL that find_target returns

ASSUME CountAssumption == MaxCount \in Nat \ {0}
ASSUME AddressAssumption == Address \subseteq Nat /\ NotFound \notin Nat

VARIABLES
    count,      \* snip->count
    targets,    \* targets[i]: the address of the i-th instruction
    wanted,     \* target_addr
    min, max,   \* the bounds of the current call
    result,     \* the index found, or NotFound
    pc          \* "idle" between two searches, "search" inside one

searchVars == <<count, targets, wanted, min, max, result, pc>>

Index == 0..(count - 1)

SearchTypeOK ==
    /\ count \in 1..MaxCount
    /\ targets \in [Index -> Address]
    /\ wanted \in Address
    /\ min \in 0..count
    /\ max \in 0..(count - 1)
    /\ result \in Index \cup {NotFound}
    /\ pc \in {"idle", "search"}

\* Instructions lie one behind the other and are at least a byte long.
Increasing(n, f) == \A i, j \in 0..(n-1) : i < j => f[i] < f[j]

-----------------------------------------------------------------------------
SearchInit ==
    /\ count \in 1..MaxCount
    /\ targets \in {f \in [0..(count - 1) -> Address] : Increasing(count, f)}
    /\ wanted \in Address
    /\ min = 0
    /\ max = count - 1
    /\ result = NotFound
    /\ pc = "search"

Mid == (max + min) \div 2

Return(r) ==
    /\ result' = r
    /\ pc' = "idle"
    /\ UNCHANGED <<count, targets, wanted, min, max>>

Recur(lo, hi) ==
    /\ min' = lo
    /\ max' = hi
    /\ UNCHANGED <<count, targets, wanted, result, pc>>

\* if (min > max) return NULL
Exhausted ==
    /\ pc = "search"
    /\ min > max
    /\ Return(NotFound)

\* targets[mid]->address == target_addr
Hit ==
    /\ pc = "search"
    /\ min <= max
    /\ targets[Mid] = wanted
    /\ Return(Mid)

\* the half below mid; below index 0 there is none
GoLow ==
    /\ pc = "search"
    /\ min <= max
    /\ targets[Mid] > wanted
    /\ IF Mid = 0 THEN Return(NotFound) ELSE Recur(min, Mid - 1)

\* A step to the upper half that drops one index too many.
GoHigh_Skips ==
    /\ pc = "search"
    /\ min <= max
    /\ targets[Mid] < wanted
    /\ Recur(Mid + 2, max)

\* A step to the upper half that searches mid again.
GoHigh_KeepsMid ==
    /\ pc = "search"
    /\ min <= max
    /\ targets[Mid] < wanted
    /\ Recur(Mid, max)

\* the half above mid
GoHigh ==
    /\ pc = "search"
    /\ min <= max
    /\ targets[Mid] < wanted
    /\ Recur(Mid + 1, max)

\* A search that starts with the number of instructions as its upper bound.
NextJump_PastEnd ==
    /\ pc = "idle"
    /\ wanted' \in Address
    /\ min' = 0
    /\ max' = count
    /\ pc' = "search"
    /\ UNCHANGED <<count, targets, result>>

\* validate_jump_targets goes on to the next jump
NextJump ==
    /\ pc = "idle"
    /\ wanted' \in Address
    /\ min' = 0
    /\ max' = count - 1
    /\ pc' = "search"
    /\ UNCHANGED <<count, targets, result>>

Probe == Exhausted \/ Hit \/ GoLow \/ GoHigh

SearchNext == Probe \/ NextJump

\* A call runs to its end; whether another jump follows is the caller's matter.
SearchSpec == SearchInit /\ [][SearchNext]_searchVars /\ WF_searchVars(Probe)

-----------------------------------------------------------------------------
(***************************************************************************)
(* InBounds: every probe reads inside the array of count instructions,     *)
(* also for one instruction and at both ends.                              *)
(***************************************************************************)
InBounds == pc = "search" /\ min <= max => Mid \in Index

(***************************************************************************)
(* FoundIffPresent: a search answers with the instruction at the wanted    *)
(* address exactly when there is one: validate_jump_targets takes NULL as  *)
(* proof that the target of a jump is gone and draws another at random.    *)
(***************************************************************************)
FoundIffPresent ==
    pc = "idle" =>
        /\ result # NotFound => targets[result] = wanted
        /\ result = NotFound => \A i \in Index : targets[i] # wanted

(***************************************************************************)
(* SearchEnds: the recursion ends for every address that is looked for.    *)
(***************************************************************************)
SearchEnds == pc = "search" ~> pc = "idle"
=============================================================================
