---------------------------- MODULE MCBuildCache ----------------------------
(* Root module of the run of BuildCache.                                   *)
EXTENDS BuildCache, TLC

(* Invocations and texts are interchangeable.                              *)
Symmetric == Permutations(Builders) \cup Permutations(Texts)
=============================================================================
