-------------------------- MODULE MCToolOperations --------------------------
(* Two operations of two processes. *)
EXTENDS ToolOperations

CONSTANTS o1, o2

MCOps == {o1, o2}
=============================================================================
