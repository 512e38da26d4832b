-------------------------- MODULE MCSharedChannel ---------------------------
(* Model-checking instance of SharedChannel. *)
EXTENDS SharedChannel, TLC

(* Senders are interchangeable, and so are receivers. *)
Symmetric == Permutations(Senders) \cup Permutations(Receivers)
=============================================================================
