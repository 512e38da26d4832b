-------------------------- MODULE MCForeignQueue ---------------------------
(* Model-checking instance of ForeignQueue. *)
EXTENDS ForeignQueue, TLC
=============================================================================
