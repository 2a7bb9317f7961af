----------------------------- MODULE Container -----------------------------
(***************************************************************************)
(* What a container of Zycore promises, with no memory: a sequence of      *)
(* items that calls insert into, delete from and overwrite, and a size     *)
(* that tells how many there are.  A call within its range does what it    *)
(* says unless there is no room; a call that is refused changes nothing.   *)
(* A destructor, if there is one, is called for every item that leaves,    *)
(* and for no other.                                                       *)
(*                                                                         *)
(* Two things are not as they should be, and are said here as they are.  A *)
(* constructor that fails in the middle leaves its neighbours displaced    *)
(* (Displaced).  A set of bits has a size of its own, which three calls    *)
(* set to what the set does not hold (Miscounted); after that nothing is   *)
(* promised but that it stays as large and has no destructor (Adrift),     *)
(* until it is cleared.                                                    *)
(***************************************************************************)
EXTENDS Integers, FiniteSets, SequencesExt

CONSTANTS
    Items,      \* what may be in a container
    Largest,    \* the largest size there is
    Unlimited   \* the limit of a container that takes memory as it needs it

VARIABLES
    items,      \* the contents
    told,       \* how many the container says it has
    sort,       \* "items"; "bits", which are counted apart; "adrift", bits that were miscounted
    limit,      \* how many items there is room for
    watched,    \* whether the container has a destructor
    call,       \* the last call: what it was to do, and the status it returned
    dropped     \* how often the last call gave each item to the destructor

vars == <<items, told, sort, limit, watched, call, dropped>>

Splice(s, at, count, new) == SubSeq(s, 1, at) \o new \o SubSeq(s, at + count + 1, Len(s))

Tally(s) == [x \in ToSet(s) |-> Cardinality({k \in DOMAIN s : s[k] = x})]

Legal(c) ==
    CASE c.op = "insert" -> c.at <= Len(items)
      [] c.op = "delete" -> c.at + c.count <= Len(items)
      [] c.op = "overwrite" -> c.at + Len(c.new) <= Len(items)
      [] c.op = "swap" -> c.at < Len(items) /\ c.count < Len(items)
      [] OTHER -> TRUE

(* Items that nothing was written to are whatever was in the memory. *)
Resized(size, new) ==
    LET added == IF size > Len(items) THEN size - Len(items) ELSE 0 IN
    { SubSeq(items, 1, size - added) \o tail :
        tail \in IF new = <<>> THEN [1..added -> Items] ELSE {[k \in 1..added |-> new[1]]} }

Swapped(i, j) == [items EXCEPT ![i + 1] = items[j + 1], ![j + 1] = items[i + 1]]

Effects(c) ==
    CASE c.op = "insert" -> {Splice(items, c.at, 0, c.new)}
      [] c.op = "delete" -> {Splice(items, c.at, c.count, <<>>)}
      [] c.op = "overwrite" -> {Splice(items, c.at, Len(c.new), c.new)}
      [] c.op = "swap" -> {Swapped(c.at, c.count)}
      [] c.op \in {"resize", "fill"} -> Resized(c.count, c.new)
      [] c.op = "create" -> {c.new}
      [] c.op = "destroy" -> {<<>>}
      [] c.op = "reserve" -> {items}

(* The items that leave with a call. *)
Leaving(c) ==
    CASE c.op = "delete" -> SubSeq(items, c.at + 1, c.at + c.count)
      [] c.op = "overwrite" -> SubSeq(items, c.at + 1, c.at + Len(c.new))
      [] c.op \in {"resize", "fill"} -> SubSeq(items, c.count + 1, Len(items))
      [] c.op = "destroy" -> items
      [] OTHER -> <<>>

Dropped(s) == dropped' = Tally(IF watched THEN s ELSE <<>>)

NoRoom(c) ==
    /\ limit # Unlimited
    /\ IF c.op = "reserve" THEN c.count > limit ELSE \E s \in Effects(c) : Len(s) > limit

Done ==
    /\ call'.status = "SUCCESS"
    /\ Legal(call')
    /\ items' \in Effects(call')
    /\ call'.op \notin {"create", "destroy"} => UNCHANGED <<limit, watched>>
    /\ Dropped(Leaving(call'))

(* Nothing to insert, or nothing to delete. *)
Idle(c) == (c.op = "insert" /\ c.new = <<>>) \/ (c.op = "delete" /\ c.count = 0)

(* No room, or no memory *)
Full(c) ==
    \/ c.status = "INSUFFICIENT_BUFFER_SIZE" /\ Legal(c) /\ NoRoom(c)
    \/ c.status = "NOT_ENOUGH_MEMORY" /\ limit = Unlimited

Refused ==
    /\ \/ call'.status \in {"OUT_OF_RANGE", "INVALID_OPERATION"} /\ ~Legal(call')
       \/ call'.status = "INVALID_ARGUMENT" /\ Idle(call')
       \/ call'.status = "INSUFFICIENT_BUFFER_SIZE" /\ call'.op = "swap"   \* which needs a spare cell
       \/ call'.status = "FAILED" /\ call'.at = Len(items)                \* says a constructor
       \/ Full(call') /\ call'.op # "fill"
    /\ UNCHANGED <<items, limit, watched>>
    /\ Dropped(<<>>)

(* Filling goes as far as there is room, or memory. *)
Filled ==
    /\ call'.op = "fill"
    /\ \/ /\ call'.status = "INSUFFICIENT_BUFFER_SIZE" /\ NoRoom(call')
          /\ items' \in Resized(limit, call'.new)
       \/ /\ call'.status = "NOT_ENOUGH_MEMORY" /\ limit = Unlimited
          /\ \E n \in Len(items) .. call'.count - 1 : items' \in Resized(n, call'.new)
    /\ UNCHANGED <<limit, watched>>
    /\ Dropped(<<>>)

(* A constructor fails when room was made for its item: the one that was there *)
(* is there twice, and the last one is gone without a destructor.              *)
Displaced ==
    /\ call'.op = "insert" /\ call'.status = "FAILED" /\ call'.at < Len(items)
    /\ items' = SubSeq(items, 1, call'.at + 1) \o SubSeq(items, call'.at + 1, Len(items) - 1)
    /\ UNCHANGED <<limit, watched>>
    /\ Dropped(<<>>)

Answered == Done \/ Refused \/ Filled \/ Displaced

Emptying(c) == c.op = "destroy" \/ (c.op = "resize" /\ c.count = 0)

(* The size tells how many items there are; of a set that is adrift, when it is emptied. *)
Counted ==
    /\ told' = Len(items') /\ sort' # "adrift"
    /\ call'.op \in {"create", "destroy"} \/ sort' = sort \/ sort = "adrift"
    /\ sort = "adrift" => Emptying(call')
    /\ sort = "bits" /\ call'.op = "insert" => call'.status = "SUCCESS"

(* A set of bits is made with fewer bits than it says it has; a bit that finds *)
(* no room is counted all the same; and one is taken from an empty set.        *)
Miscounted ==
    /\ sort' = "adrift"
    /\ call'.op = "create" \/ (sort = "bits" /\ UNCHANGED <<items, limit, watched>>)
    /\ \/ call'.op = "create" /\ IsStrictPrefix(items', call'.new) /\ told' = Len(call'.new)
       \/ call'.op = "insert" /\ Full(call') /\ told' = told + 1
       \/ call'.op = "delete" /\ items = <<>> /\ told' = Largest
    /\ call'.op \in {"create", "delete"} => call'.status = "SUCCESS"
    /\ Dropped(<<>>)

Adrift ==
    /\ sort = "adrift" /\ sort' = "adrift"
    /\ UNCHANGED <<limit, watched>>
    /\ Dropped(<<>>)

Init == items = <<>> /\ told = 0 /\ sort = "items" /\ dropped = Tally(<<>>)

Next == (Answered /\ Counted) \/ Miscounted \/ Adrift

Spec == Init /\ [][Next]_vars
=============================================================================
