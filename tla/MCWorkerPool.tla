---------------------------- MODULE MCWorkerPool ----------------------------
(* Values for the runs of WorkerPool.                                      *)
EXTENDS WorkerPool, TLC

CONSTANTS s1, s2, s3, j1, j2, j3

\* Two jobs for the first session, one for the second.
OnTwo == (j1 :> s1) @@ (j2 :> s1) @@ (j3 :> s2)
\* A session for each job.
OnThree == (j1 :> s1) @@ (j2 :> s2) @@ (j3 :> s3)
\* One job for the first session, two for the second.
OnLast == (j1 :> s1) @@ (j2 :> s2) @@ (j3 :> s2)

NoDeps == [j \in Jobs |-> {}]
\* The first job waits for the second in an instrumented wait.
FirstWaits == [NoDeps EXCEPT ![j1] = {j2}]
\* The second spins until the third is done.
SecondSpins == [NoDeps EXCEPT ![j2] = {j3}]
\* The first spins until the third is done.
FirstSpins == [NoDeps EXCEPT ![j1] = {j3}]
=============================================================================
