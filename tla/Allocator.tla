----------------------------- MODULE Allocator -----------------------------
(***************************************************************************)
(* What arena.c promises the snippet: a pool of blocks that hands out a    *)
(* block to one owner at a time, refuses only when the system has no       *)
(* memory left for it, and takes back a block of its own.                  *)
(***************************************************************************)
CONSTANTS
    Block,  \* every block the pool may ever own
    Null    \* the answer to a request that failed

VARIABLES
    live,   \* the blocks in the hands of callers
    idle    \* the blocks that can be handed out

vars == <<live, idle>>

Init == live = {} /\ idle \in SUBSET Block

\* A block nobody holds is handed out; the pool may grow, but only when it is
\* empty, and only by blocks that nobody holds.
Give(b) ==
    /\ live' = live \cup {b}
    /\ \/ b \in idle /\ idle' = idle \ {b}
       \/ /\ idle = {}
          /\ b \in Block \ live
          /\ \E more \in SUBSET (Block \ live) : b \in more /\ idle' = more \ {b}

TakeBack(b) ==
    /\ b \in live
    /\ live' = live \ {b}
    /\ idle' = idle \cup {b}

Next == \E b \in Block : Give(b) \/ TakeBack(b)

Spec == Init /\ [][Next]_vars
=============================================================================
