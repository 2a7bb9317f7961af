----------------------------- MODULE MCPipeline -----------------------------
(* Three blocks are enough for a jump, its target and an instruction whose *)
(* removal moves both; one block more is free for an insertion when the    *)
(* snippet is shorter, and a freed block is used again.                    *)
EXTENDS Pipeline, TLC

Blocks == Permutations(Obj)
=============================================================================
