---------------------------- MODULE ZyanStatus ----------------------------
(***************************************************************************)
(* What every operation on a container of Zycore gives: a status, the      *)
(* container as it is then, and the items that went to the destructor.     *)
(***************************************************************************)
EXTENDS Integers, SequencesExt

Result(status, v, out) == [status |-> status, v |-> v, out |-> out]
Success(v) == Result("SUCCESS", v, <<>>)
Fails(status, v) == Result(status, v, <<>>)

(* ZYAN_CHECK: go on with what a call returned, unless it failed. *)
Check(r, Continue(_)) == IF r.status = "SUCCESS" THEN Continue(r.v) ELSE r
=============================================================================
