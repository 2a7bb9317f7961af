------------------------------ MODULE MCLists ------------------------------
(***************************************************************************)
(* The two libraries of containers that are linked into one program: the   *)
(* list of list.h and the containers of Zycore.  They share nothing, so    *)
(* each is looked at while the other has not been used.                    *)
(*                                                                         *)
(* Three nodes and the head are enough for every relative position of two  *)
(* swapped nodes (neighbours in either order, apart).  Three items have a  *)
(* first, a middle and a last one; a vector of three has grown twice, and  *)
(* a bitset of three has two bytes of two bits, the last one half full.    *)
(* A value and the junk in fresh memory are the letters A and a, so that   *)
(* contents are told apart and differ in case only.                        *)
(***************************************************************************)
EXTENDS LinkedList, Containers

ListUnused == heap = ListInit(EmptyHeap(Cell), ListHead)

EitherInit == Init /\ ContainerInit

EitherNext ==
    \/ call.op = "none" /\ Next /\ UNCHANGED containerVars
    \/ ListUnused /\ ContainerNext /\ UNCHANGED vars

EitherSpec == EitherInit /\ [][EitherNext]_<<vars, containerVars>>
=============================================================================
