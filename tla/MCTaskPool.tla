----------------------------- MODULE MCTaskPool -----------------------------
(* Model-checking instance of TaskPool.                                    *)
EXTENDS TaskPool, TLC
=============================================================================
