--------------------------- MODULE TaskPoolProofs ---------------------------
(***************************************************************************)
(* Proofs about TaskPool, for any number of workers, dispatches and closes *)
(* and any number of crashes.                                              *)
(***************************************************************************)
EXTENDS TaskPool, FiniteSetTheorems, WellFoundedInduction, TLAPS

(* The three counters of the class count what their comments say. *)
Counts ==
    /\ active = Cardinality(Submitted)
    /\ occupied = Cardinality(Holders)
    /\ \A w \in Workers : loads[w] = Cardinality(JobsOn(w))

(* A job on a worker is on one of the pool's. *)
Placed == \A j \in Jobs : pc[j] \in {"running", "settled"} => worker[j] \in Workers

(* The queue holds waiting dispatches, each once. *)
Queue ==
    /\ \A i \in 1..Len(waiters) : pc[waiters[i]] = "waiting"
    /\ \A i, k \in 1..Len(waiters) : waiters[i] = waiters[k] => i = k

SlotInv ==
    /\ TypeOK
    /\ Counts
    /\ Placed
    /\ Queue
    /\ SlotAccounting
    /\ TwoPerWorker

(* What the session ids, the failure records and the jobs say of each other. *)
Sessions ==
    /\ nextId >= 1
    /\ \A w \in Workers : ids[w] < nextId
    /\ \A v, w \in Workers : ids[v] = ids[w] /\ ids[v] # 0 => v = w
    /\ \A s \in failures : s # 0 /\ \E w \in Workers : ids[w] = s
    /\ \A s \in terminated : s \in 1..(nextId - 1)
    /\ \A w \in Workers : ids[w] # 0 => ids[w] \notin terminated

JobSessions ==
    \A j \in Jobs :
        /\ pc[j] = "running" =>
             ids[worker[j]] = session[j] /\ session[j] # 0 /\ session[j] \notin failures
        /\ pc[j] = "settled" =>
             /\ session[j] # 0 /\ session[j] < nextId
             /\ wire[j] # "none"
             /\ wire[j] = "lost" <=> Crashed(j)
        /\ pc[j] \in {"new", "waiting", "granted", "running"} => wire[j] = "none"

CloseState ==
    /\ \A c \in Closers : cpc[c] # "new" => closing
    /\ \A w \in Workers : ids[w] = 0 => closing /\ active = 0

SessionInv ==
    /\ Sessions
    /\ SessionsOwned
    /\ JobSessions
    /\ CloseState
    /\ CloseNotStranded
    /\ CrashReported

-----------------------------------------------------------------------------
(* Sequences and counted sets.                                             *)

LEMMA TailFacts ==
  ASSUME NEW s \in Seq(Jobs), s # <<>>
  PROVE  /\ Head(s) = s[1] /\ Head(s) \in Jobs
         /\ Tail(s) \in Seq(Jobs)
         /\ Len(s) \in Nat /\ Len(s) >= 1 /\ Len(Tail(s)) = Len(s) - 1
         /\ \A i \in 1..Len(Tail(s)) : Tail(s)[i] = s[i + 1]
OBVIOUS

LEMMA AppendFacts ==
  ASSUME NEW s \in Seq(Jobs), NEW j \in Jobs
  PROVE  /\ Append(s, j) \in Seq(Jobs)
         /\ Len(s) \in Nat /\ Len(Append(s, j)) = Len(s) + 1
         /\ \A i \in 1..Len(s) : Append(s, j)[i] = s[i] /\ s[i] \in Jobs
         /\ Append(s, j)[Len(s) + 1] = j
         /\ Append(s, j) # <<>>
OBVIOUS

LEMMA CountedSets ==
  /\ IsFiniteSet(Submitted) /\ Cardinality(Submitted) \in Nat
  /\ IsFiniteSet(Holders) /\ Cardinality(Holders) \in Nat
  /\ \A w \in Workers : IsFiniteSet(JobsOn(w)) /\ Cardinality(JobsOn(w)) \in Nat
<1>1. Submitted \in SUBSET Jobs /\ Holders \in SUBSET Jobs
  BY DEF Submitted, Holders
<1>2. \A w \in Workers : JobsOn(w) \in SUBSET Jobs
  BY DEF JobsOn
<1>3. \A S \in SUBSET Jobs : IsFiniteSet(S)
  BY FS_Subset, JobsFinite
<1>4. \A S \in SUBSET Jobs : Cardinality(S) \in Nat
  BY <1>3, FS_CardinalityType
<1> QED
  BY <1>1, <1>2, <1>3, <1>4

(* Adding a new member or removing one moves a count by one. *)
LEMMA CountUp ==
  ASSUME NEW S, IsFiniteSet(S), NEW x, x \notin S
  PROVE  Cardinality(S \cup {x}) = Cardinality(S) + 1
BY FS_AddElement

LEMMA CountDown ==
  ASSUME NEW S, IsFiniteSet(S), NEW x, x \in S
  PROVE  /\ Cardinality(S \ {x}) = Cardinality(S) - 1
         /\ Cardinality(S) >= 1
         /\ IsFiniteSet(S \ {x})
<1>1. Cardinality(S \ {x}) = Cardinality(S) - 1 /\ IsFiniteSet(S \ {x})
  BY FS_RemoveElement
<1>2. Cardinality(S) \in Nat /\ Cardinality(S \ {x}) \in Nat
  BY <1>1, FS_CardinalityType
<1> QED
  BY <1>1, <1>2

(* Two distinct members of a set with at least two. *)
LEMMA TwoMembers ==
  ASSUME NEW S, IsFiniteSet(S), Cardinality(S) >= 2
  PROVE  \E a, b \in S : a # b
<1>1. S # {}
  BY FS_EmptySet
<1>2. PICK a \in S : TRUE
  BY <1>1
<1>3. IsFiniteSet(S \ {a}) /\ Cardinality(S \ {a}) = Cardinality(S) - 1
  BY FS_RemoveElement
<1>4. Cardinality(S) \in Nat
  BY FS_CardinalityType
<1>5. S \ {a} # {}
  BY <1>3, <1>4, FS_EmptySet
<1> QED
  BY <1>5

(* The pigeonhole behind claim(): while fewer than 2 * Size jobs are on the
   workers, the least-loaded worker has at most one. *)
LEMMA RoomOnLeastLoaded ==
  ASSUME SlotInv, NEW w \in Workers, LeastLoaded(w),
         NEW R \in SUBSET Jobs, Cardinality(R) < 2 * Size,
         \A v \in Workers : JobsOn(v) \subseteq R
  PROVE  loads[w] <= 1
<1> SUFFICES ASSUME ~(loads[w] <= 1) PROVE FALSE
  OBVIOUS
<1>1. \A v \in Workers : loads[v] \in Nat
  BY DEF SlotInv, TypeOK
<1>2. \A v \in Workers : loads[v] >= 2
  BY <1>1 DEF LeastLoaded
<1>3. \A v \in Workers : \E a, b \in JobsOn(v) : a # b
  <2> SUFFICES ASSUME NEW v \in Workers PROVE \E a, b \in JobsOn(v) : a # b
    OBVIOUS
  <2>1. IsFiniteSet(JobsOn(v)) /\ Cardinality(JobsOn(v)) >= 2
    BY <1>2, CountedSets DEF SlotInv, Counts
  <2> QED
    BY <2>1, TwoMembers
<1> DEFINE fst(v) == CHOOSE a \in JobsOn(v) : \E b \in JobsOn(v) : a # b
           snd(v) == CHOOSE b \in JobsOn(v) : b # fst(v)
           P == Workers \X {0, 1}
           f == [p \in P |-> IF p[2] = 0 THEN fst(p[1]) ELSE snd(p[1])]
<1>4. \A v \in Workers : fst(v) \in JobsOn(v) /\ \E b \in JobsOn(v) : fst(v) # b
  BY <1>3
<1> HIDE DEF fst
<1>5. \A v \in Workers : snd(v) \in JobsOn(v) /\ snd(v) # fst(v)
  BY <1>4
<1> HIDE DEF snd
<1>6. \A v \in Workers : /\ fst(v) \in R /\ snd(v) \in R
                         /\ worker[fst(v)] = v /\ worker[snd(v)] = v
  BY <1>4, <1>5 DEF JobsOn
<1>7. f \in [P -> R]
  BY <1>6
<1>8. IsFiniteSet(R) /\ Cardinality(R) \in Nat
  BY JobsFinite, FS_Subset, FS_CardinalityType
<1>9. IsFiniteSet(Workers) /\ Cardinality(Workers) = Size
  <2>1. 1 \in Int /\ Size \in Int
    BY SizeAssumption
  <2>2. /\ IsFiniteSet(1..Size)
        /\ Cardinality(1..Size) = IF 1 > Size THEN 0 ELSE Size - 1 + 1
    BY <2>1, FS_Interval
  <2> QED
    BY <2>2, SizeAssumption DEF Workers
<1>10. IsFiniteSet({0, 1}) /\ Cardinality({0, 1}) = 2
  <2>1. IsFiniteSet({0}) /\ Cardinality({0}) = 1
    BY FS_Singleton
  <2>2. IsFiniteSet({0} \cup {1}) /\ Cardinality({0} \cup {1}) = Cardinality({0}) + 1
    BY <2>1, FS_AddElement
  <2>3. {0, 1} = {0} \cup {1}
    OBVIOUS
  <2> QED
    BY <2>1, <2>2, <2>3
<1>11. IsFiniteSet(P) /\ Cardinality(P) = Size * 2
  BY <1>9, <1>10, FS_Product
<1>12. Cardinality(R) < Cardinality(P)
  BY <1>8, <1>11, SizeAssumption
<1> HIDE DEF P, f
<1>13. PICK p \in P, q \in P : p # q /\ f[p] = f[q]
  <2>1. \E x, y \in P : x # y /\ f[x] = f[y]
    BY ONLY <1>7, <1>8, <1>11, <1>12, FS_PigeonHole
  <2> QED
    BY <2>1
<1>14. p[1] \in Workers /\ q[1] \in Workers /\ p[2] \in {0, 1} /\ q[2] \in {0, 1}
       /\ p = <<p[1], p[2]>> /\ q = <<q[1], q[2]>>
  BY <1>13 DEF P
<1>15. f[p] = (IF p[2] = 0 THEN fst(p[1]) ELSE snd(p[1]))
       /\ f[q] = (IF q[2] = 0 THEN fst(q[1]) ELSE snd(q[1]))
  BY <1>13 DEF f
<1>16. p[1] = q[1]
  <2>1. worker[f[p]] = p[1]
    BY <1>6, <1>14, <1>15
  <2>2. worker[f[q]] = q[1]
    BY <1>6, <1>14, <1>15
  <2> QED
    BY <1>13, <2>1, <2>2
<1>17. p[2] # q[2]
  BY <1>13, <1>14, <1>16
<1> QED
  BY <1>5, <1>13, <1>14, <1>15, <1>16, <1>17
-----------------------------------------------------------------------------
(* The slot invariant, action by action.                                   *)

LEMMA SlotInit == Init => SlotInv
<1> SUFFICES ASSUME Init PROVE SlotInv
  OBVIOUS
<1>1. TypeOK
  <2>1. ids \in [Workers -> Nat] /\ loads \in [Workers -> Nat]
    BY SizeAssumption DEF Init, Workers
  <2>2. nextId \in Nat /\ crashes \in 0..MaxCrashes /\ waiters \in Seq(Jobs)
    BY SizeAssumption, MaxCrashesAssumption DEF Init
  <2> QED
    BY <2>1, <2>2 DEF Init, TypeOK
<1>2. Submitted = {} /\ Holders = {} /\ \A w \in Workers : JobsOn(w) = {}
  BY DEF Init, Submitted, Holders, JobsOn
<1>3. Counts
  BY <1>2, FS_EmptySet DEF Init, Counts
<1>4. Placed /\ Queue
  BY DEF Init, Placed, Queue
<1>5. SlotAccounting
  BY <1>3, SizeAssumption DEF Init, SlotAccounting, Counts
<1>6. TwoPerWorker
  BY DEF Init, TwoPerWorker
<1> QED
  BY <1>1, <1>3, <1>4, <1>5, <1>6 DEF SlotInv

(* A step that moves no job between the counted sets and leaves the counters
   and the queue alone keeps everything but the types. *)
LEMMA SlotSame ==
  ASSUME SlotInv, TypeOK',
         UNCHANGED <<loads, occupied, waiters, active>>,
         \A j \in Jobs :
            \/ pc'[j] = pc[j] /\ worker'[j] = worker[j]
            \/ pc[j] = "new" /\ pc'[j] = "done"
            \/ pc[j] = "running" /\ pc'[j] = "settled" /\ worker'[j] = worker[j]
  PROVE  SlotInv'
<1>1. Submitted' = Submitted
  BY DEF Submitted
<1>2. Holders' = Holders
  BY DEF Holders
<1>3. \A w \in Workers : JobsOn(w)' = JobsOn(w)
  BY DEF JobsOn
<1>4. Counts'
  BY <1>1, <1>2, <1>3 DEF SlotInv, Counts, Workers
<1>5. Placed'
  BY DEF SlotInv, Placed, Workers
<1>6. Queue'
  <2>1. \A i \in 1..Len(waiters) : waiters[i] \in Jobs
    BY DEF SlotInv, TypeOK
  <2>2. \A i \in 1..Len(waiters) : pc'[waiters[i]] = "waiting"
    BY <2>1 DEF SlotInv, Queue
  <2> QED
    BY <2>2 DEF SlotInv, Queue
<1>7. SlotAccounting'
  BY <1>2 DEF SlotInv, SlotAccounting
<1>8. TwoPerWorker'
  BY DEF SlotInv, TwoPerWorker, Workers
<1> QED
  BY <1>4, <1>5, <1>6, <1>7, <1>8 DEF SlotInv

LEMMA Slot_rejected ==
  ASSUME SlotInv, NEW j \in Jobs, dispatch_rejected(j)
  PROVE  SlotInv'
<1>1. TypeOK'
  BY DEF SlotInv, TypeOK, dispatch_rejected, RejectReason, poolVars, closeVars, hostVars
<1>2. UNCHANGED <<loads, occupied, waiters, active, worker>>
  BY DEF dispatch_rejected, poolVars
<1>3. \A i \in Jobs : pc'[i] = pc[i] \/ (pc[i] = "new" /\ pc'[i] = "done")
  BY DEF SlotInv, TypeOK, dispatch_rejected
<1> QED
  BY <1>1, <1>2, <1>3, SlotSame

LEMMA Slot_cancel ==
  ASSUME SlotInv, NEW j \in Jobs, cancel(j)
  PROVE  SlotInv'
<1>1. TypeOK'
  BY DEF SlotInv, TypeOK, cancel, poolVars, closeVars, hostVars
<1>2. UNCHANGED <<loads, occupied, waiters, active, worker, pc>>
  BY DEF cancel, poolVars
<1> QED
  BY <1>1, <1>2, SlotSame

LEMMA Slot_replies ==
  ASSUME SlotInv, NEW j \in Jobs, job_replies(j)
  PROVE  SlotInv'
<1>1. TypeOK'
  BY DEF SlotInv, TypeOK, job_replies, poolVars, closeVars, hostVars
<1>2. UNCHANGED <<loads, occupied, waiters, active, worker>>
  BY DEF job_replies, poolVars
<1>3. \A i \in Jobs : pc'[i] = pc[i] \/ (pc[i] = "running" /\ pc'[i] = "settled")
  BY DEF SlotInv, TypeOK, job_replies
<1> QED
  BY <1>1, <1>2, <1>3, SlotSame

LEMMA Slot_crashes ==
  ASSUME SlotInv, NEW w \in Workers, session_crashes(w)
  PROVE  SlotInv'
<1>1. UNCHANGED <<loads, occupied, waiters, active, worker>>
  BY DEF session_crashes, poolVars
<1>2. \A i \in Jobs : pc'[i] = pc[i] \/ (pc[i] = "running" /\ pc'[i] = "settled")
  BY DEF session_crashes
<1>3. TypeOK'
  <2>1. pc' \in [Jobs -> {"new", "waiting", "granted", "running", "settled", "done"}]
    BY DEF SlotInv, TypeOK, session_crashes
  <2>2. wire' \in [Jobs -> {"none", "value", "lost"}]
    BY DEF SlotInv, TypeOK, session_crashes
  <2>3. failures' \subseteq Nat /\ crashes' \in 0..MaxCrashes
    <3>1. ids[w] \in Nat /\ failures \subseteq Nat /\ crashes \in 0..MaxCrashes
      BY DEF SlotInv, TypeOK
    <3>2. /\ failures' = failures \cup {ids[w]}
          /\ crashes < MaxCrashes /\ crashes' = crashes + 1
      BY DEF session_crashes
    <3>3. failures' \subseteq Nat
      BY <3>1, <3>2
    <3>4. crashes' \in 0..MaxCrashes
      BY <3>1, <3>2, MaxCrashesAssumption
    <3> QED
      BY <3>3, <3>4
  <2> QED
    BY <2>1, <2>2, <2>3 DEF SlotInv, TypeOK, session_crashes, poolVars, closeVars
<1> QED
  BY <1>1, <1>2, <1>3, SlotSame

LEMMA Slot_close ==
  ASSUME SlotInv, NEW c \in Closers, Close(c)
  PROVE  SlotInv'
<1>1. UNCHANGED <<loads, occupied, waiters, active, worker, pc>>
  BY DEF Close, close_starts, close_resumes, jobVars
<1>2. UNCHANGED <<jobVars, nextId, crashes, changed, fired>> /\ closing' \in BOOLEAN
  BY DEF Close, close_starts, close_resumes, SlotInv, TypeOK
<1>3. close_loop(c)
  BY DEF Close, close_starts, close_resumes
<1>4. ids' \in [Workers -> Nat] /\ failures' \subseteq Nat /\ terminated' \subseteq Nat
  <2>1. /\ ids \in [Workers -> Nat] /\ failures \subseteq Nat /\ terminated \subseteq Nat
        /\ {ids[w] : w \in {v \in Workers : ids[v] # 0}} \subseteq Nat
    BY DEF SlotInv, TypeOK
  <2>2. CASE active > 0
    BY <1>3, <2>1, <2>2 DEF close_loop
  <2>3. CASE ~(active > 0)
    <3>1. /\ terminated' = terminated \cup {ids[w] : w \in {v \in Workers : ids[v] # 0}}
          /\ failures' = failures \ {ids[w] : w \in Workers}
          /\ ids' = [w \in Workers |-> 0]
      BY <1>3, <2>3 DEF close_loop, terminate
    <3>2. failures' \subseteq failures /\ ids' \in [Workers -> Nat]
      BY <3>1
    <3> QED
      BY <2>1, <3>1, <3>2
  <2> QED
    BY <2>2, <2>3
<1>5. /\ cpc' \in [Closers -> {"new", "waiting", "done"}]
      /\ waitsOn' \in [Closers -> Nat]
  BY <1>3 DEF close_loop, SlotInv, TypeOK
<1>6. TypeOK'
  BY <1>1, <1>2, <1>4, <1>5 DEF SlotInv, TypeOK, jobVars, Workers
<1> QED
  BY <1>1, <1>6, SlotSame

LEMMA Slot_waits ==
  ASSUME SlotInv, NEW j \in Jobs, dispatch_waits(j)
  PROVE  SlotInv'
<1>1. /\ pc[j] = "new" /\ pc' = [pc EXCEPT ![j] = "waiting"]
      /\ active' = active + 1 /\ waiters' = Append(waiters, j)
      /\ UNCHANGED <<loads, occupied, worker>>
      /\ changed' \in Nat
  BY DEF dispatch_waits, begin, SlotInv, TypeOK
<1>2. waiters \in Seq(Jobs) /\ pc \in [Jobs -> {"new", "waiting", "granted", "running", "settled", "done"}]
  BY DEF SlotInv, TypeOK
<1>3. \A i \in Jobs : pc'[i] = IF i = j THEN "waiting" ELSE pc[i]
  BY <1>1, <1>2
<1>4. TypeOK'
  <2>1. waiters' \in Seq(Jobs)
    BY <1>1, <1>2, AppendFacts
  <2>2. pc' \in [Jobs -> {"new", "waiting", "granted", "running", "settled", "done"}]
    BY <1>1, <1>2
  <2>3. active' \in Nat
    BY <1>1 DEF SlotInv, TypeOK
  <2> QED
    BY <1>1, <2>1, <2>2, <2>3
    DEF SlotInv, TypeOK, dispatch_waits, closeVars, hostVars, Workers
<1>5. Submitted' = Submitted \cup {j} /\ j \notin Submitted
  BY <1>1, <1>3 DEF Submitted
<1>6. Holders' = Holders
  BY <1>1, <1>3 DEF Holders
<1>7. \A w \in Workers : JobsOn(w)' = JobsOn(w)
  BY <1>1, <1>3 DEF JobsOn
<1>8. Cardinality(Submitted') = Cardinality(Submitted) + 1
  BY <1>5, CountedSets, CountUp
<1>9. Counts'
  BY <1>1, <1>6, <1>7, <1>8 DEF SlotInv, Counts, Workers
<1>10. Placed'
  BY <1>1, <1>3 DEF SlotInv, Placed, Workers
<1>11. Queue'
  <2>1. /\ Len(waiters) \in Nat /\ Len(waiters') = Len(waiters) + 1
        /\ \A i \in 1..Len(waiters) : waiters'[i] = waiters[i] /\ waiters[i] \in Jobs
        /\ waiters'[Len(waiters) + 1] = j
    BY <1>1, <1>2, AppendFacts
  <2>2. \A i \in 1..Len(waiters) : pc[waiters[i]] = "waiting" /\ waiters[i] # j
    BY <1>1 DEF SlotInv, Queue
  <2>3. \A i \in 1..Len(waiters') : pc'[waiters'[i]] = "waiting"
    BY <1>3, <2>1, <2>2
  <2>4. \A i, k \in 1..Len(waiters') : waiters'[i] = waiters'[k] => i = k
    BY <2>1, <2>2 DEF SlotInv, Queue
  <2> QED
    BY <2>3, <2>4 DEF Queue
<1>12. SlotAccounting'
  <2>1. occupied = 2 * Size
    BY SizeAssumption DEF dispatch_waits, MustWait, SlotInv, SlotAccounting, TypeOK
  <2> QED
    BY <1>1, <1>6, <2>1, SizeAssumption DEF SlotInv, SlotAccounting
<1>13. TwoPerWorker'
  BY <1>1 DEF SlotInv, TwoPerWorker, Workers
<1> QED
  BY <1>4, <1>9, <1>10, <1>11, <1>12, <1>13 DEF SlotInv

(* dispatch_host puts a job on a worker that has room for it. *)
LEMMA HostStep ==
  ASSUME SlotInv, NEW j \in Jobs, NEW w \in Workers, dispatch_host(j, w),
         pc[j] \in {"new", "granted"}, loads[w] <= 1
  PROVE  /\ pc' \in [Jobs -> {"new", "waiting", "granted", "running", "settled", "done"}]
         /\ worker' \in [Jobs -> Nat] /\ session' \in [Jobs -> Nat]
         /\ loads' \in [Workers -> Nat] /\ wire' \in [Jobs -> {"none", "value", "lost"}]
         /\ pc'[j] \in {"running", "settled"}
         /\ worker'[j] = w
         /\ \A i \in Jobs \ {j} : pc'[i] = pc[i] /\ worker'[i] = worker[i]
         /\ \A v \in Workers : loads'[v] = Cardinality(JobsOn(v)')
         /\ \A v \in Workers : loads'[v] <= 2
         /\ Placed'
<1>1. /\ pc \in [Jobs -> {"new", "waiting", "granted", "running", "settled", "done"}]
      /\ worker \in [Jobs -> Nat] /\ session \in [Jobs -> Nat]
      /\ loads \in [Workers -> Nat] /\ wire \in [Jobs -> {"none", "value", "lost"}]
      /\ ids \in [Workers -> Nat]
  BY DEF SlotInv, TypeOK
<1>2. w \in Nat
  BY SizeAssumption DEF Workers
<1>3. pc' = [pc EXCEPT ![j] = "running"] \/ pc' = [pc EXCEPT ![j] = "settled"]
  BY DEF dispatch_host
<1>4. /\ worker' = [worker EXCEPT ![j] = w]
      /\ session' = [session EXCEPT ![j] = ids[w]]
      /\ loads' = [loads EXCEPT ![w] = @ + 1]
  BY DEF dispatch_host
<1>5. pc' \in [Jobs -> {"new", "waiting", "granted", "running", "settled", "done"}]
  BY <1>1, <1>3
<1>6. /\ worker' \in [Jobs -> Nat] /\ session' \in [Jobs -> Nat]
      /\ loads' \in [Workers -> Nat]
  BY <1>1, <1>2, <1>4
<1>7. wire' \in [Jobs -> {"none", "value", "lost"}]
  BY <1>1 DEF dispatch_host
<1>8. pc'[j] \in {"running", "settled"} /\ worker'[j] = w
  BY <1>1, <1>3, <1>4
<1>9. \A i \in Jobs \ {j} : pc'[i] = pc[i] /\ worker'[i] = worker[i]
  BY <1>1, <1>3, <1>4
<1>10. JobsOn(w)' = JobsOn(w) \cup {j} /\ j \notin JobsOn(w)
  BY <1>8, <1>9 DEF JobsOn
<1>11. \A v \in Workers \ {w} : JobsOn(v)' = JobsOn(v)
  BY <1>8, <1>9 DEF JobsOn
<1>12. Cardinality(JobsOn(w)') = Cardinality(JobsOn(w)) + 1
  BY <1>10, CountedSets, CountUp
<1>13. \A v \in Workers : loads[v] = Cardinality(JobsOn(v)) /\ loads[v] <= 2 /\ loads[v] \in Nat
  BY <1>1 DEF SlotInv, Counts, TwoPerWorker
<1>14. loads'[w] = loads[w] + 1 /\ \A v \in Workers \ {w} : loads'[v] = loads[v]
  BY <1>1, <1>4
<1>15. \A v \in Workers : loads'[v] = Cardinality(JobsOn(v)')
  BY <1>11, <1>12, <1>13, <1>14
<1>16. \A v \in Workers : loads'[v] <= 2
  BY <1>13, <1>14
<1>17. Placed'
  BY <1>8, <1>9 DEF SlotInv, Placed, Workers
<1> QED
  BY <1>5, <1>6, <1>7, <1>8, <1>9, <1>15, <1>16, <1>17

LEMMA Slot_starts ==
  ASSUME SlotInv, NEW j \in Jobs, dispatch_starts(j)
  PROVE  SlotInv'
<1>1. /\ pc[j] = "new" /\ active' = active + 1 /\ occupied' = occupied + 1
      /\ waiters = <<>> /\ UNCHANGED waiters /\ occupied < 2 * Size
      /\ changed' \in Nat
  BY SizeAssumption DEF dispatch_starts, begin, MustWait, SlotInv, TypeOK
<1>2. PICK w \in Workers : LeastLoaded(w) /\ dispatch_host(j, w)
  BY DEF dispatch_starts
<1>3. loads[w] <= 1
  <2>1. Holders \in SUBSET Jobs /\ Cardinality(Holders) < 2 * Size
    BY <1>1 DEF SlotInv, Counts, Holders
  <2>2. \A v \in Workers : JobsOn(v) \subseteq Holders
    BY DEF JobsOn, Holders
  <2> QED
    BY <1>2, <2>1, <2>2, RoomOnLeastLoaded
<1>4. /\ pc' \in [Jobs -> {"new", "waiting", "granted", "running", "settled", "done"}]
      /\ worker' \in [Jobs -> Nat] /\ session' \in [Jobs -> Nat]
      /\ loads' \in [Workers -> Nat] /\ wire' \in [Jobs -> {"none", "value", "lost"}]
      /\ pc'[j] \in {"running", "settled"}
      /\ \A i \in Jobs \ {j} : pc'[i] = pc[i] /\ worker'[i] = worker[i]
      /\ \A v \in Workers : loads'[v] = Cardinality(JobsOn(v)')
      /\ \A v \in Workers : loads'[v] <= 2
      /\ Placed'
  BY <1>1, <1>2, <1>3, HostStep
<1>5. TypeOK'
  <2>1. active' \in Nat /\ occupied' \in Nat
    BY <1>1 DEF SlotInv, TypeOK
  <2> QED
    BY <1>1, <1>4, <2>1 DEF SlotInv, TypeOK, dispatch_starts, closeVars, hostVars, Workers
<1>6. Submitted' = Submitted \cup {j} /\ j \notin Submitted
  BY <1>1, <1>4 DEF Submitted
<1>7. Holders' = Holders \cup {j} /\ j \notin Holders
  BY <1>1, <1>4 DEF Holders
<1>8. Cardinality(Submitted') = Cardinality(Submitted) + 1
  BY <1>6, CountedSets, CountUp
<1>9. Cardinality(Holders') = Cardinality(Holders) + 1
  BY <1>7, CountedSets, CountUp
<1>10. Counts'
  BY <1>1, <1>4, <1>8, <1>9 DEF SlotInv, Counts, Workers
<1>11. Queue'
  BY <1>1 DEF Queue
<1>12. SlotAccounting'
  BY <1>1, <1>9, SizeAssumption DEF SlotInv, SlotAccounting, TypeOK
<1>13. TwoPerWorker'
  BY <1>4 DEF TwoPerWorker, Workers
<1> QED
  BY <1>4, <1>5, <1>10, <1>11, <1>12, <1>13 DEF SlotInv

LEMMA Slot_granted_starts ==
  ASSUME SlotInv, NEW j \in Jobs, granted_starts(j)
  PROVE  SlotInv'
<1>1. pc[j] = "granted" /\ UNCHANGED <<active, occupied, waiters>>
  BY DEF granted_starts
<1>2. PICK w \in Workers : LeastLoaded(w) /\ dispatch_host(j, w)
  BY DEF granted_starts
<1>3. loads[w] <= 1
  <2>1. j \in Holders
    BY <1>1 DEF Holders
  <2>2. /\ Cardinality(Holders \ {j}) = Cardinality(Holders) - 1
        /\ Cardinality(Holders) \in Nat
    BY <2>1, CountedSets, CountDown
  <2>3. Cardinality(Holders) <= 2 * Size
    BY DEF SlotInv, Counts, SlotAccounting
  <2>4. Holders \ {j} \in SUBSET Jobs /\ Cardinality(Holders \ {j}) < 2 * Size
    BY <2>2, <2>3, SizeAssumption DEF Holders
  <2>5. \A v \in Workers : JobsOn(v) \subseteq Holders \ {j}
    BY <1>1 DEF JobsOn, Holders
  <2> QED
    BY <1>2, <2>4, <2>5, RoomOnLeastLoaded
<1>4. /\ pc' \in [Jobs -> {"new", "waiting", "granted", "running", "settled", "done"}]
      /\ worker' \in [Jobs -> Nat] /\ session' \in [Jobs -> Nat]
      /\ loads' \in [Workers -> Nat] /\ wire' \in [Jobs -> {"none", "value", "lost"}]
      /\ pc'[j] \in {"running", "settled"}
      /\ \A i \in Jobs \ {j} : pc'[i] = pc[i] /\ worker'[i] = worker[i]
      /\ \A v \in Workers : loads'[v] = Cardinality(JobsOn(v)')
      /\ \A v \in Workers : loads'[v] <= 2
      /\ Placed'
  BY <1>1, <1>2, <1>3, HostStep
<1>5. TypeOK'
  BY <1>1, <1>4 DEF SlotInv, TypeOK, granted_starts, closeVars, hostVars, Workers
<1>6. Submitted' = Submitted
  BY <1>1, <1>4 DEF Submitted
<1>7. Holders' = Holders
  BY <1>1, <1>4 DEF Holders
<1>8. Counts'
  BY <1>1, <1>4, <1>6, <1>7 DEF SlotInv, Counts, Workers
<1>9. Queue'
  <2>1. \A i \in 1..Len(waiters) : waiters[i] \in Jobs
    BY DEF SlotInv, TypeOK
  <2> QED
    BY <1>1, <1>4, <2>1 DEF SlotInv, Queue
<1>10. SlotAccounting'
  BY <1>1, <1>7 DEF SlotInv, SlotAccounting
<1>11. TwoPerWorker'
  BY <1>4 DEF TwoPerWorker, Workers
<1> QED
  BY <1>4, <1>5, <1>8, <1>9, <1>10, <1>11 DEF SlotInv

(* finish() returns a slot: to the oldest waiter if there is one. *)
LEMMA FinishStep ==
  ASSUME SlotInv, NEW j \in Jobs, NEW answer, finish(j, answer), j \in Holders
  PROVE  /\ active' \in Nat /\ occupied' \in Nat /\ waiters' \in Seq(Jobs)
         /\ pc' \in [Jobs -> {"new", "waiting", "granted", "running", "settled", "done"}]
         /\ active' = active - 1 /\ active >= 1
         /\ pc'[j] = "done"
         /\ \A i \in Jobs \ {j} : pc'[i] = pc[i] \/ (pc[i] = "waiting" /\ pc'[i] = "granted")
         /\ active' = Cardinality(Submitted')
         /\ occupied' = Cardinality(Holders')
         /\ Queue'
         /\ SlotAccounting'
<1>1. /\ pc \in [Jobs -> {"new", "waiting", "granted", "running", "settled", "done"}]
      /\ waiters \in Seq(Jobs) /\ active \in Nat /\ occupied \in Nat
  BY DEF SlotInv, TypeOK
<1>2. pc[j] \in {"granted", "running", "settled"}
  BY DEF Holders
<1>3. j \in Submitted
  BY <1>2 DEF Submitted
<1>4. active = Cardinality(Submitted) /\ occupied = Cardinality(Holders)
  BY DEF SlotInv, Counts
<1>5. /\ Cardinality(Submitted \ {j}) = active - 1 /\ active >= 1
      /\ Cardinality(Holders \ {j}) = occupied - 1 /\ occupied >= 1
      /\ IsFiniteSet(Holders \ {j})
  BY <1>3, <1>4, CountedSets, CountDown
<1>6. active' = active - 1 /\ release_slot([pc EXCEPT ![j] = "done"])
  BY DEF finish
<1>7. occupied <= 2 * Size /\ (waiters # <<>> => occupied = 2 * Size)
  BY DEF SlotInv, SlotAccounting
<1>8. CASE waiters = <<>>
  <2>1. occupied' = occupied - 1 /\ pc' = [pc EXCEPT ![j] = "done"] /\ waiters' = waiters
    BY <1>6, <1>8 DEF release_slot
  <2>2. \A i \in Jobs : pc'[i] = IF i = j THEN "done" ELSE pc[i]
    BY <1>1, <2>1
  <2>3. Submitted' = Submitted \ {j}
    BY <2>2 DEF Submitted
  <2>4. Holders' = Holders \ {j}
    BY <2>2 DEF Holders
  <2>5. pc' \in [Jobs -> {"new", "waiting", "granted", "running", "settled", "done"}]
    BY <1>1, <2>1
  <2>6. Queue'
    BY <1>8, <2>1 DEF Queue
  <2>7. SlotAccounting'
    BY <1>1, <1>5, <1>7, <1>8, <2>1, <2>4, SizeAssumption DEF SlotAccounting
  <2> QED
    BY <1>1, <1>5, <1>6, <2>1, <2>2, <2>3, <2>4, <2>5, <2>6, <2>7
<1>9. CASE waiters # <<>>
  <2> DEFINE h == Head(waiters)
  <2>1. /\ h = waiters[1] /\ h \in Jobs
        /\ Tail(waiters) \in Seq(Jobs)
        /\ Len(waiters) \in Nat /\ Len(waiters) >= 1 /\ Len(Tail(waiters)) = Len(waiters) - 1
        /\ \A i \in 1..Len(Tail(waiters)) : Tail(waiters)[i] = waiters[i + 1]
    BY <1>1, <1>9, TailFacts
  <2>2. /\ pc' = [[pc EXCEPT ![j] = "done"] EXCEPT ![h] = "granted"]
        /\ waiters' = Tail(waiters) /\ occupied' = occupied
    BY <1>6, <1>9 DEF release_slot
  <2>3. \A i \in 1..Len(waiters) : waiters[i] \in Jobs /\ pc[waiters[i]] = "waiting"
    BY <1>1 DEF SlotInv, Queue
  <2>4. pc[h] = "waiting" /\ h # j
    BY <1>2, <2>1, <2>3
  <2> HIDE DEF h
  <2>5. \A i \in Jobs : pc'[i] = IF i = h THEN "granted" ELSE IF i = j THEN "done" ELSE pc[i]
    BY <1>1, <2>1, <2>2
  <2>6. Submitted' = Submitted \ {j}
    BY <2>1, <2>4, <2>5 DEF Submitted
  <2>7. Holders' = (Holders \ {j}) \cup {h} /\ h \notin Holders
    BY <2>1, <2>4, <2>5 DEF Holders
  <2>8. Cardinality(Holders') = occupied
    <3>1. Cardinality((Holders \ {j}) \cup {h}) = Cardinality(Holders \ {j}) + 1
      BY <1>5, <2>7, CountUp
    <3> QED
      BY <1>1, <1>5, <2>7, <3>1
  <2>9. pc' \in [Jobs -> {"new", "waiting", "granted", "running", "settled", "done"}]
    BY <1>1, <2>2
  <2>10. Queue'
    <3>1. \A i \in 1..Len(waiters') : waiters'[i] = waiters[i + 1] /\ i + 1 \in 1..Len(waiters)
      BY <2>1, <2>2
    <3>2. \A i, k \in 1..Len(waiters) : waiters[i] = waiters[k] => i = k
      BY DEF SlotInv, Queue
    <3>3. \A i \in 1..Len(waiters') : waiters'[i] # h
      BY <2>1, <3>1, <3>2
    <3>4. \A i \in 1..Len(waiters') : pc'[waiters'[i]] = "waiting"
      BY <1>2, <2>3, <2>5, <3>1, <3>3
    <3>5. \A i, k \in 1..Len(waiters') : waiters'[i] = waiters'[k] => i = k
      BY <2>1, <3>1, <3>2
    <3> QED
      BY <3>4, <3>5 DEF Queue
  <2>11. SlotAccounting'
    BY <1>7, <1>9, <2>2, <2>8 DEF SlotAccounting
  <2> QED
    BY <1>1, <1>5, <1>6, <2>1, <2>2, <2>4, <2>5, <2>6, <2>8, <2>9, <2>10, <2>11
<1> QED
  BY <1>8, <1>9

LEMMA Slot_granted_cancelled ==
  ASSUME SlotInv, NEW j \in Jobs, granted_cancelled(j)
  PROVE  SlotInv'
<1>1. /\ pc[j] = "granted" /\ finish(j, "Cancelled")
      /\ UNCHANGED <<loads, worker>>
  BY DEF granted_cancelled
<1>2. j \in Holders
  BY <1>1 DEF Holders
<1>3. /\ active' \in Nat /\ occupied' \in Nat /\ waiters' \in Seq(Jobs)
      /\ pc' \in [Jobs -> {"new", "waiting", "granted", "running", "settled", "done"}]
      /\ pc'[j] = "done"
      /\ \A i \in Jobs \ {j} : pc'[i] = pc[i] \/ (pc[i] = "waiting" /\ pc'[i] = "granted")
      /\ active' = Cardinality(Submitted')
      /\ occupied' = Cardinality(Holders')
      /\ Queue'
      /\ SlotAccounting'
  BY <1>1, <1>2, FinishStep
<1>4. TypeOK'
  <2>1. /\ result' \in [Jobs -> {"none", "InvalidSize", "Closed", "Cancelled", "WorkerCrashed", "Ok"}]
        /\ fired' \subseteq Nat
    BY <1>1 DEF finish, SlotInv, TypeOK
  <2> QED
    BY <1>3, <2>1 DEF SlotInv, TypeOK, granted_cancelled, closeVars, hostVars, Workers
<1>5. \A w \in Workers : JobsOn(w)' = JobsOn(w)
  BY <1>1, <1>3 DEF JobsOn
<1>6. Counts'
  BY <1>1, <1>3, <1>5 DEF SlotInv, Counts, Workers
<1>7. Placed'
  BY <1>1, <1>3 DEF SlotInv, Placed, Workers
<1>8. TwoPerWorker'
  BY <1>1 DEF SlotInv, TwoPerWorker, Workers
<1> QED
  BY <1>3, <1>4, <1>6, <1>7, <1>8 DEF SlotInv

LEMMA Slot_resumes ==
  ASSUME SlotInv, NEW j \in Jobs, job_resumes(j)
  PROVE  SlotInv'
<1> DEFINE answer == IF Crashed(j) THEN "WorkerCrashed"
                     ELSE IF token[j] THEN "Cancelled" ELSE "Ok"
<1>0. PICK w \in Workers : w = worker[j]
  BY DEF job_resumes, SlotInv, Placed
<1>1. /\ pc[j] = "settled" /\ finish(j, answer)
      /\ loads' = [loads EXCEPT ![w] = @ - 1]
      /\ UNCHANGED worker
  BY <1>0 DEF job_resumes
<1>2. j \in Holders
  BY <1>1 DEF Holders
<1>3. /\ active' \in Nat /\ occupied' \in Nat /\ waiters' \in Seq(Jobs)
      /\ pc' \in [Jobs -> {"new", "waiting", "granted", "running", "settled", "done"}]
      /\ pc'[j] = "done"
      /\ \A i \in Jobs \ {j} : pc'[i] = pc[i] \/ (pc[i] = "waiting" /\ pc'[i] = "granted")
      /\ active' = Cardinality(Submitted')
      /\ occupied' = Cardinality(Holders')
      /\ Queue'
      /\ SlotAccounting'
  BY <1>1, <1>2, FinishStep
<1>4. w \in Workers
  BY <1>0
<1>5. answer \in {"WorkerCrashed", "Cancelled", "Ok"}
  OBVIOUS
<1> HIDE DEF answer
<1>6. JobsOn(w)' = JobsOn(w) \ {j} /\ j \in JobsOn(w)
  BY <1>0, <1>1, <1>3 DEF JobsOn
<1>7. \A v \in Workers \ {w} : JobsOn(v)' = JobsOn(v)
  BY <1>0, <1>1, <1>3 DEF JobsOn
<1>8. Cardinality(JobsOn(w)') = Cardinality(JobsOn(w)) - 1 /\ Cardinality(JobsOn(w)) >= 1
  BY <1>4, <1>6, CountedSets, CountDown
<1>9. /\ loads \in [Workers -> Nat]
      /\ \A v \in Workers : loads[v] = Cardinality(JobsOn(v)) /\ loads[v] <= 2
  BY DEF SlotInv, Counts, TwoPerWorker, TypeOK
<1>10. loads'[w] = loads[w] - 1 /\ \A v \in Workers \ {w} : loads'[v] = loads[v]
  BY <1>1, <1>4, <1>9
<1>11. \A v \in Workers : loads'[v] = Cardinality(JobsOn(v)') /\ loads'[v] <= 2
  <2>1. loads[w] \in Nat /\ \A v \in Workers : loads[v] \in Nat
    BY <1>4, <1>9
  <2>2. loads'[w] = Cardinality(JobsOn(w)') /\ loads'[w] <= 2
    BY <1>4, <1>8, <1>9, <1>10, <2>1
  <2>3. \A v \in Workers \ {w} : loads'[v] = Cardinality(JobsOn(v)') /\ loads'[v] <= 2
    BY <1>7, <1>9, <1>10
  <2> QED
    BY <2>2, <2>3
<1>12. loads' \in [Workers -> Nat]
  BY <1>1, <1>4, <1>8, <1>9
<1>13. TypeOK'
  <2>1. /\ result' \in [Jobs -> {"none", "InvalidSize", "Closed", "Cancelled", "WorkerCrashed", "Ok"}]
        /\ fired' \subseteq Nat
    BY <1>1, <1>5 DEF finish, SlotInv, TypeOK
  <2>2. replace_session(j)
    BY DEF job_resumes
  <2>3. ids' \in [Workers -> Nat]
    BY <2>2, <1>0 DEF replace_session, SlotInv, TypeOK
  <2>4. nextId' \in Nat /\ failures' \subseteq Nat /\ terminated' \subseteq Nat
    <3>1. nextId \in Nat /\ failures \subseteq Nat /\ terminated \subseteq Nat /\ session[j] \in Nat
      BY DEF SlotInv, TypeOK
    <3>2. /\ nextId' = nextId \/ nextId' = nextId + 1
          /\ failures' \subseteq failures
          /\ terminated' = terminated \/ terminated' = terminated \cup {session[j]}
      BY <2>2 DEF replace_session
    <3>3. nextId' \in Nat /\ failures' \subseteq Nat
      BY <3>1, <3>2
    <3>4. terminated' \subseteq Nat
      BY <3>1, <3>2
    <3> QED
      BY <3>3, <3>4
  <2> QED
    BY <1>3, <1>12, <2>1, <2>3, <2>4 DEF SlotInv, TypeOK, job_resumes, closeVars, Workers
<1>14. Counts'
  BY <1>3, <1>11 DEF Counts, Workers
<1>15. Placed'
  BY <1>1, <1>3 DEF SlotInv, Placed, Workers
<1>16. TwoPerWorker'
  BY <1>11 DEF TwoPerWorker, Workers
<1> QED
  BY <1>3, <1>13, <1>14, <1>15, <1>16 DEF SlotInv

LEMMA SlotStep ==
  ASSUME SlotInv, [Next]_vars
  PROVE  SlotInv'
<1>1. ASSUME NEW j \in Jobs, Job(j) PROVE SlotInv'
  BY <1>1, Slot_rejected, Slot_waits, Slot_starts, Slot_granted_starts,
     Slot_granted_cancelled, Slot_resumes DEF Job
<1>2. CASE UNCHANGED vars
  <2>1. TypeOK'
    BY <1>2 DEF SlotInv, TypeOK, vars, poolVars, jobVars, closeVars, hostVars, Workers
  <2>2. UNCHANGED <<loads, occupied, waiters, active, pc, worker>>
    BY <1>2 DEF vars, poolVars, jobVars
  <2> QED
    BY <2>1, <2>2, SlotSame
<1> QED
  BY <1>1, <1>2, Slot_cancel, Slot_replies, Slot_crashes, Slot_close DEF Next, Finished

-----------------------------------------------------------------------------
(* The session invariant, action by action.                                *)

LEMMA SessionInit == Init => SessionInv
<1> SUFFICES ASSUME Init PROVE SessionInv
  OBVIOUS
<1>1. \A w \in Workers : ids[w] = w /\ w \in 1..Size
  BY DEF Init, Workers
<1>2. Sessions
  BY <1>1, SizeAssumption DEF Init, Sessions
<1>3. SessionsOwned
  <2>1. {ids[w] : w \in {v \in Workers : ids[v] # 0}} = 1..Size
    BY <1>1, SizeAssumption DEF Workers
  <2>2. nextId - 1 = Size /\ terminated = {}
    BY SizeAssumption DEF Init
  <2> QED
    BY <2>1, <2>2 DEF SessionsOwned
<1>4. JobSessions
  BY DEF Init, JobSessions
<1>5. CloseState
  BY <1>1, SizeAssumption DEF Init, CloseState
<1>6. CloseNotStranded /\ CrashReported
  BY DEF Init, CloseNotStranded, CrashReported
<1> QED
  BY <1>2, <1>3, <1>4, <1>5, <1>6 DEF SessionInv

(* Steps that leave the host's sessions alone. *)
LEMMA HostSame ==
  ASSUME SessionInv, UNCHANGED <<ids, nextId, failures, terminated>>
  PROVE  Sessions' /\ SessionsOwned'
BY DEF SessionInv, Sessions, SessionsOwned, Workers

(* Steps that leave the closes alone. *)
LEMMA CloseSame ==
  ASSUME SessionInv, UNCHANGED <<ids, closing, active, changed, fired, cpc, waitsOn>>
  PROVE  CloseState' /\ CloseNotStranded'
BY DEF SessionInv, CloseState, CloseNotStranded, Workers

(* While a job is submitted no session is terminated. *)
LEMMA SubmittedLive ==
  ASSUME SlotInv, SessionInv, Submitted # {}
  PROVE  active >= 1 /\ \A w \in Workers : ids[w] # 0
<1>1. Cardinality(Submitted) # 0 /\ Cardinality(Submitted) \in Nat
  BY CountedSets, FS_EmptySet
<1> QED
  BY <1>1 DEF SlotInv, Counts, SessionInv, CloseState

LEMMA Session_rejected ==
  ASSUME SlotInv, SessionInv, NEW j \in Jobs, dispatch_rejected(j)
  PROVE  SessionInv'
<1>1. UNCHANGED <<ids, nextId, failures, terminated, closing, active, changed, fired,
                  cpc, waitsOn, worker, session, wire>>
  BY DEF dispatch_rejected, poolVars, closeVars, hostVars
<1>2. /\ pc[j] = "new" /\ pc'[j] = "done"
      /\ result'[j] = RejectReason(j)
      /\ \A i \in Jobs \ {j} : pc'[i] = pc[i] /\ result'[i] = result[i]
  BY DEF dispatch_rejected, SlotInv, TypeOK
<1>3. RejectReason(j) \notin {"WorkerCrashed", "Ok"}
  BY DEF RejectReason
<1>4. JobSessions'
  BY <1>1, <1>2 DEF SessionInv, JobSessions, Crashed
<1>5. CrashReported'
  BY <1>1, <1>2, <1>3 DEF SessionInv, CrashReported, JobSessions
<1> QED
  BY <1>1, <1>4, <1>5, HostSame, CloseSame DEF SessionInv

LEMMA Session_cancel ==
  ASSUME SlotInv, SessionInv, NEW j \in Jobs, cancel(j)
  PROVE  SessionInv'
<1>1. UNCHANGED <<ids, nextId, failures, terminated, closing, active, changed, fired,
                  cpc, waitsOn, pc, worker, session, wire, result>>
  BY DEF cancel, poolVars, closeVars, hostVars
<1>2. JobSessions'
  BY <1>1 DEF SessionInv, JobSessions, Crashed
<1>3. CrashReported'
  BY <1>1 DEF SessionInv, CrashReported
<1> QED
  BY <1>1, <1>2, <1>3, HostSame, CloseSame DEF SessionInv

LEMMA Session_replies ==
  ASSUME SlotInv, SessionInv, NEW j \in Jobs, job_replies(j)
  PROVE  SessionInv'
<1>1. UNCHANGED <<ids, nextId, failures, terminated, closing, active, changed, fired,
                  cpc, waitsOn, worker, session, result>>
  BY DEF job_replies, poolVars, closeVars, hostVars
<1>2. /\ pc[j] = "running" /\ pc'[j] = "settled" /\ wire'[j] = "value"
      /\ \A i \in Jobs \ {j} : pc'[i] = pc[i] /\ wire'[i] = wire[i]
  BY DEF job_replies, SlotInv, TypeOK
<1>3. worker[j] \in Workers
  BY <1>2 DEF SlotInv, Placed
<1>4. /\ ids[worker[j]] = session[j] /\ session[j] # 0
      /\ session[j] \notin failures /\ session[j] < nextId
  BY <1>2, <1>3 DEF SessionInv, JobSessions, Sessions
<1>5. JobSessions'
  BY <1>1, <1>2, <1>4 DEF SessionInv, JobSessions, Crashed
<1>6. CrashReported'
  BY <1>1, <1>2 DEF SessionInv, CrashReported
<1> QED
  BY <1>1, <1>5, <1>6, HostSame, CloseSame DEF SessionInv

LEMMA Session_waits ==
  ASSUME SlotInv, SessionInv, NEW j \in Jobs, dispatch_waits(j)
  PROVE  SessionInv'
<1>1. UNCHANGED <<ids, nextId, failures, terminated, closing, fired,
                  cpc, waitsOn, worker, session, wire, result>>
  BY DEF dispatch_waits, closeVars, hostVars
<1>2. /\ pc[j] = "new" /\ pc'[j] = "waiting"
      /\ \A i \in Jobs \ {j} : pc'[i] = pc[i]
  BY DEF dispatch_waits, SlotInv, TypeOK
<1>3. ~closing
  BY DEF dispatch_waits, RejectReason
<1>4. CloseState' /\ CloseNotStranded'
  BY <1>1, <1>3 DEF SessionInv, CloseState, CloseNotStranded, Workers
<1>5. JobSessions'
  BY <1>1, <1>2 DEF SessionInv, JobSessions, Crashed
<1>6. CrashReported'
  BY <1>1, <1>2 DEF SessionInv, CrashReported
<1> QED
  BY <1>1, <1>4, <1>5, <1>6, HostSame DEF SessionInv

(* dispatch_host sends a job to a live session. *)
LEMMA HostSession ==
  ASSUME SlotInv, SessionInv, NEW j \in Jobs, NEW w \in Workers,
         dispatch_host(j, w), pc[j] \in {"new", "granted"}, ids[w] # 0,
         UNCHANGED <<ids, nextId, failures, terminated, result>>
  PROVE  JobSessions' /\ CrashReported'
<1>1. /\ worker'[j] = w /\ session'[j] = ids[w]
      /\ \A i \in Jobs \ {j} : /\ worker'[i] = worker[i] /\ session'[i] = session[i]
                              /\ pc'[i] = pc[i] /\ wire'[i] = wire[i]
  BY DEF dispatch_host, SlotInv, TypeOK
<1>2. wire[j] = "none" /\ ids[w] < nextId
  BY DEF SessionInv, JobSessions, Sessions
<1>3. \/ /\ ids[w] \in failures /\ pc'[j] = "settled" /\ wire'[j] = "lost"
      \/ /\ ids[w] \notin failures /\ pc'[j] = "running" /\ wire'[j] = "none"
  BY <1>2 DEF dispatch_host, SlotInv, TypeOK
<1>4. JobSessions'
  <2> SUFFICES ASSUME NEW i \in Jobs
               PROVE  /\ pc'[i] = "running" =>
                           /\ ids'[worker'[i]] = session'[i] /\ session'[i] # 0
                           /\ session'[i] \notin failures'
                      /\ pc'[i] = "settled" =>
                           /\ session'[i] # 0 /\ session'[i] < nextId'
                           /\ wire'[i] # "none"
                           /\ wire'[i] = "lost" <=> Crashed(i)'
                      /\ pc'[i] \in {"new", "waiting", "granted", "running"} => wire'[i] = "none"
    BY DEF JobSessions
  <2>1. CASE i = j
    BY <2>1, <1>1, <1>2, <1>3 DEF Crashed
  <2>2. CASE i # j
    BY <2>2, <1>1 DEF SessionInv, JobSessions, Crashed
  <2> QED
    BY <2>1, <2>2
<1>5. CrashReported'
  BY <1>1, <1>3 DEF SessionInv, CrashReported
<1> QED
  BY <1>4, <1>5

LEMMA Session_starts ==
  ASSUME SlotInv, SessionInv, NEW j \in Jobs, dispatch_starts(j)
  PROVE  SessionInv'
<1>1. UNCHANGED <<ids, nextId, failures, terminated, closing, fired, cpc, waitsOn, result>>
  BY DEF dispatch_starts, closeVars, hostVars
<1>2. pc[j] = "new" /\ ~closing
  BY DEF dispatch_starts, RejectReason
<1>3. PICK w \in Workers : dispatch_host(j, w)
  BY DEF dispatch_starts
<1>4. ids[w] # 0
  BY <1>2 DEF SessionInv, CloseState
<1>5. JobSessions' /\ CrashReported'
  BY <1>1, <1>2, <1>3, <1>4, HostSession
<1>6. CloseState' /\ CloseNotStranded'
  BY <1>1, <1>2 DEF SessionInv, CloseState, CloseNotStranded, Workers
<1> QED
  BY <1>1, <1>5, <1>6, HostSame DEF SessionInv

LEMMA Session_granted_starts ==
  ASSUME SlotInv, SessionInv, NEW j \in Jobs, granted_starts(j)
  PROVE  SessionInv'
<1>1. UNCHANGED <<ids, nextId, failures, terminated, closing, active, changed, fired,
                  cpc, waitsOn, result>>
  BY DEF granted_starts, closeVars, hostVars
<1>2. pc[j] = "granted"
  BY DEF granted_starts
<1>3. PICK w \in Workers : dispatch_host(j, w)
  BY DEF granted_starts
<1>4. ids[w] # 0
  <2>1. Submitted # {}
    BY <1>2 DEF Submitted
  <2> QED
    BY <2>1, SubmittedLive
<1>5. JobSessions' /\ CrashReported'
  BY <1>1, <1>2, <1>3, <1>4, HostSession
<1> QED
  BY <1>1, <1>5, HostSame, CloseSame DEF SessionInv

(* finish() wakes the closes with the last job. *)
LEMMA FinishWakes ==
  ASSUME SlotInv, SessionInv, NEW j \in Jobs, NEW answer, finish(j, answer),
         j \in Submitted, UNCHANGED <<closing, changed, cpc, waitsOn>>,
         \A w \in Workers : ids'[w] # 0
  PROVE  CloseState' /\ CloseNotStranded'
<1>1. active \in Nat /\ active >= 1
  BY SubmittedLive DEF SlotInv, TypeOK
<1>2. /\ active' = active - 1
      /\ fired' = IF active = 1 THEN fired \cup {changed} ELSE fired
  BY DEF finish
<1>3. CloseState'
  BY DEF SessionInv, CloseState, Workers
<1>4. CloseNotStranded'
  BY <1>1, <1>2 DEF SessionInv, CloseNotStranded
<1> QED
  BY <1>3, <1>4

(* What finish() leaves of the other dispatches. *)
LEMMA FinishOthers ==
  ASSUME SlotInv, NEW j \in Jobs, NEW answer, finish(j, answer), j \in Holders
  PROVE  /\ pc'[j] = "done" /\ result'[j] = answer
         /\ \A i \in Jobs \ {j} :
              /\ pc'[i] = pc[i] \/ (pc[i] = "waiting" /\ pc'[i] = "granted")
              /\ result'[i] = result[i]
<1>1. pc'[j] = "done" /\ \A i \in Jobs \ {j} :
         pc'[i] = pc[i] \/ (pc[i] = "waiting" /\ pc'[i] = "granted")
  BY FinishStep
<1>2. result'[j] = answer /\ \A i \in Jobs \ {j} : result'[i] = result[i]
  BY DEF finish, SlotInv, TypeOK
<1> QED
  BY <1>1, <1>2

LEMMA Session_granted_cancelled ==
  ASSUME SlotInv, SessionInv, NEW j \in Jobs, granted_cancelled(j)
  PROVE  SessionInv'
<1>1. UNCHANGED <<ids, nextId, failures, terminated, closing, changed,
                  cpc, waitsOn, worker, session, wire>>
  BY DEF granted_cancelled, closeVars, hostVars
<1>2. pc[j] = "granted" /\ finish(j, "Cancelled")
  BY DEF granted_cancelled
<1>3. j \in Holders /\ j \in Submitted
  BY <1>2 DEF Holders, Submitted
<1>4. /\ pc'[j] = "done" /\ result'[j] = "Cancelled"
      /\ \A i \in Jobs \ {j} :
           /\ pc'[i] = pc[i] \/ (pc[i] = "waiting" /\ pc'[i] = "granted")
           /\ result'[i] = result[i]
  BY <1>2, <1>3, FinishOthers
<1>5. \A w \in Workers : ids'[w] # 0
  BY <1>1, <1>3, SubmittedLive
<1>6. CloseState' /\ CloseNotStranded'
  BY <1>1, <1>2, <1>3, <1>5, FinishWakes
<1>7. JobSessions'
  BY <1>1, <1>4 DEF SessionInv, JobSessions, Crashed
<1>8. CrashReported'
  BY <1>1, <1>2, <1>4 DEF SessionInv, CrashReported, JobSessions
<1> QED
  BY <1>1, <1>6, <1>7, <1>8, HostSame DEF SessionInv

(* Replacing a crashed session keeps the sessions accounted for. *)
LEMMA ReplaceHost ==
  ASSUME SlotInv, SessionInv, NEW w \in Workers, NEW s, s = ids[w], s \in failures,
         ids' = [ids EXCEPT ![w] = nextId], nextId' = nextId + 1,
         failures' = failures \ {s}, terminated' = terminated \cup {s},
         \A v \in Workers : ids[v] # 0
  PROVE  Sessions' /\ SessionsOwned' /\ \A v \in Workers : ids'[v] # 0
<1>1. ids \in [Workers -> Nat] /\ nextId \in Nat /\ terminated \subseteq Nat
  BY DEF SlotInv, TypeOK
<1>2. ids'[w] = nextId /\ \A v \in Workers \ {w} : ids'[v] = ids[v]
  BY <1>1
<1>3. /\ nextId >= 1 /\ s # 0 /\ s < nextId
      /\ \A v \in Workers : ids[v] < nextId /\ (ids[v] = s => v = w)
      /\ \A v, u \in Workers : ids[v] = ids[u] /\ ids[v] # 0 => v = u
      /\ \A t \in failures : t # 0 /\ \E v \in Workers : ids[v] = t
      /\ \A t \in terminated : t \in 1..(nextId - 1)
      /\ \A v \in Workers : ids[v] # 0 => ids[v] \notin terminated
  BY DEF SessionInv, Sessions
<1>4. Sessions'
  <2>1. nextId' >= 1 /\ \A v \in Workers : ids'[v] < nextId'
    BY <1>1, <1>2, <1>3
  <2>2. \A v, u \in Workers : ids'[v] = ids'[u] /\ ids'[v] # 0 => v = u
    BY <1>1, <1>2, <1>3
  <2>3. \A t \in failures' : t # 0 /\ \E v \in Workers : ids'[v] = t
    BY <1>2, <1>3
  <2>4. \A t \in terminated' : t \in 1..(nextId' - 1)
    BY <1>1, <1>3
  <2>5. \A v \in Workers : ids'[v] # 0 => ids'[v] \notin terminated'
    BY <1>1, <1>2, <1>3
  <2> QED
    BY <2>1, <2>2, <2>3, <2>4, <2>5 DEF Sessions, Workers
<1>5. SessionsOwned'
  <2>1. (1..(nextId - 1)) \ terminated = {ids[v] : v \in {u \in Workers : ids[u] # 0}}
    BY DEF SessionInv, SessionsOwned
  <2>2. \A t : t \in 1..(nextId' - 1) <=> t \in 1..(nextId - 1) \/ t = nextId
    BY <1>1, <1>3
  <2>3. \A t : t \in (1..(nextId' - 1)) \ terminated' =>
               t \in {ids'[v] : v \in {u \in Workers : ids'[u] # 0}}
    <3> SUFFICES ASSUME NEW t, t \in (1..(nextId' - 1)) \ terminated'
                 PROVE  \E v \in Workers : ids'[v] # 0 /\ ids'[v] = t
      OBVIOUS
    <3>1. CASE t = nextId
      BY <3>1, <1>2, <1>3
    <3>2. CASE t # nextId
      <4>1. t \in (1..(nextId - 1)) \ terminated /\ t # s
        BY <3>2, <2>2
      <4>2. PICK v \in Workers : ids[v] # 0 /\ ids[v] = t
        BY <2>1, <4>1
      <4>3. v # w
        BY <4>1, <4>2
      <4> QED
        BY <1>2, <4>2, <4>3
    <3> QED
      BY <3>1, <3>2
  <2>4. \A v \in Workers : ids'[v] # 0 => ids'[v] \in (1..(nextId' - 1)) \ terminated'
    <3> SUFFICES ASSUME NEW v \in Workers, ids'[v] # 0
                 PROVE  ids'[v] \in (1..(nextId' - 1)) \ terminated'
      OBVIOUS
    <3>1. ids'[v] \notin terminated'
      BY <1>4 DEF Sessions, Workers
    <3>2. ids'[v] \in Nat /\ ids'[v] < nextId'
      BY <1>1, <1>2, <1>3
    <3> QED
      BY <1>1, <3>1, <3>2
  <2> QED
    BY <2>3, <2>4 DEF SessionsOwned, Workers
<1>6. \A v \in Workers : ids'[v] # 0
  BY <1>2, <1>3
<1> QED
  BY <1>4, <1>5, <1>6

LEMMA Session_resumes ==
  ASSUME SlotInv, SessionInv, NEW j \in Jobs, job_resumes(j)
  PROVE  SessionInv'
<1>0. PICK w \in Workers : w = worker[j]
  BY DEF job_resumes, SlotInv, Placed
<1>1. PICK answer : /\ answer = (IF Crashed(j) THEN "WorkerCrashed"
                                ELSE IF token[j] THEN "Cancelled" ELSE "Ok")
                    /\ finish(j, answer)
  BY DEF job_resumes
<1>2. /\ pc[j] = "settled" /\ replace_session(j)
      /\ UNCHANGED <<closing, changed, worker, session, wire, cpc, waitsOn>>
  BY DEF job_resumes, closeVars
<1>3. j \in Holders /\ j \in Submitted
  BY <1>2 DEF Holders, Submitted
<1>4. /\ pc'[j] = "done" /\ result'[j] = answer
      /\ \A i \in Jobs \ {j} :
           /\ pc'[i] = pc[i] \/ (pc[i] = "waiting" /\ pc'[i] = "granted")
           /\ result'[i] = result[i]
  BY <1>1, <1>3, FinishOthers
<1>5. \A v \in Workers : ids[v] # 0
  BY <1>3, SubmittedLive
<1>6. /\ session[j] # 0 /\ session[j] < nextId /\ wire[j] # "none"
      /\ wire[j] = "lost" <=> Crashed(j)
  BY <1>2 DEF SessionInv, JobSessions
<1>7. CrashReported'
  <2> SUFFICES ASSUME NEW i \in Jobs, pc'[i] = "done"
               PROVE  /\ wire'[i] = "lost" <=> result'[i] = "WorkerCrashed"
                      /\ result'[i] = "Ok" => wire'[i] = "value"
    BY DEF CrashReported
  <2>1. CASE i = j
    <3>1. wire[j] \in {"value", "lost"}
      BY <1>6 DEF SlotInv, TypeOK
    <3>2. answer = "WorkerCrashed" <=> Crashed(j)
      BY <1>1
    <3> QED
      BY <2>1, <3>1, <3>2, <1>2, <1>4, <1>6
  <2>2. CASE i # j
    BY <2>2, <1>2, <1>4 DEF SessionInv, CrashReported
  <2> QED
    BY <2>1, <2>2
<1>8. CASE ids[w] = session[j] /\ session[j] \in failures
  <2>1. PICK s : s = session[j]
    OBVIOUS
  <2>2. /\ s = ids[w] /\ s \in failures
        /\ ids' = [ids EXCEPT ![w] = nextId] /\ nextId' = nextId + 1
        /\ failures' = failures \ {s} /\ terminated' = terminated \cup {s}
    BY <1>0, <1>2, <1>8, <2>1 DEF replace_session
  <2>3. Sessions' /\ SessionsOwned' /\ \A v \in Workers : ids'[v] # 0
    BY <1>5, <2>2, ReplaceHost
  <2>4. CloseState' /\ CloseNotStranded'
    BY <1>1, <1>2, <1>3, <2>3, FinishWakes
  <2>5. /\ ids'[w] = nextId /\ \A v \in Workers \ {w} : ids'[v] = ids[v]
        /\ nextId \in Nat /\ \A i \in Jobs : session[i] \in Nat
    BY <2>2 DEF SlotInv, TypeOK
  <2>6. \A v \in Workers \ {w} : ids[v] # s
    BY <1>5, <2>2 DEF SessionInv, Sessions
  <2>7. JobSessions'
    <3> SUFFICES ASSUME NEW i \in Jobs
                 PROVE  /\ pc'[i] = "running" =>
                             /\ ids'[worker'[i]] = session'[i] /\ session'[i] # 0
                             /\ session'[i] \notin failures'
                        /\ pc'[i] = "settled" =>
                             /\ session'[i] # 0 /\ session'[i] < nextId'
                             /\ wire'[i] # "none"
                             /\ wire'[i] = "lost" <=> Crashed(i)'
                        /\ pc'[i] \in {"new", "waiting", "granted", "running"} => wire'[i] = "none"
      BY DEF JobSessions
    <3>1. CASE pc'[i] = "running"
      <4>1. pc[i] = "running" /\ i # j
        BY <1>4, <3>1
      <4>2. worker[i] \in Workers
        BY <4>1 DEF SlotInv, Placed
      <4>3. /\ ids[worker[i]] = session[i] /\ session[i] # 0
            /\ session[i] \notin failures /\ wire[i] = "none"
        BY <4>1 DEF SessionInv, JobSessions
      <4>4. worker[i] # w
        BY <2>2, <4>3
      <4> QED
        BY <1>2, <2>2, <2>5, <3>1, <4>2, <4>3, <4>4
    <3>2. CASE pc'[i] = "settled"
      <4>1. pc[i] = "settled" /\ i # j
        BY <1>4, <3>2
      <4>2. worker[i] \in Workers
        BY <4>1 DEF SlotInv, Placed
      <4>3. /\ session[i] # 0 /\ session[i] < nextId /\ wire[i] # "none"
            /\ wire[i] = "lost" <=> (ids[worker[i]] # session[i] \/ session[i] \in failures)
        BY <4>1 DEF SessionInv, JobSessions, Crashed
      <4>4. Crashed(i)' <=> (ids'[worker[i]] # session[i] \/ session[i] \in failures')
        BY <1>2 DEF Crashed
      <4>5. CASE worker[i] = w
        <5>1. wire[i] = "lost"
          BY <2>2, <4>3, <4>5
        <5>2. ids'[worker[i]] # session[i]
          BY <2>5, <4>3, <4>5
        <5> QED
          BY <1>2, <2>2, <2>5, <3>2, <4>3, <4>4, <5>1, <5>2
      <4>6. CASE worker[i] # w
        <5>1. ids'[worker[i]] = ids[worker[i]] /\ ids[worker[i]] # s
          BY <2>5, <2>6, <4>2, <4>6
        <5>2. Crashed(i)' <=> (ids[worker[i]] # session[i] \/ session[i] \in failures)
          BY <2>2, <4>4, <5>1
        <5> QED
          BY <1>2, <2>2, <2>5, <3>2, <4>3, <5>2
      <4> QED
        BY <4>5, <4>6
    <3>3. CASE pc'[i] \in {"new", "waiting", "granted"}
      BY <1>2, <1>4, <3>3 DEF SessionInv, JobSessions
    <3> QED
      BY <3>1, <3>2, <3>3
  <2> QED
    BY <1>7, <2>3, <2>4, <2>7 DEF SessionInv
<1>9. CASE ~(ids[w] = session[j] /\ session[j] \in failures)
  <2>1. UNCHANGED <<ids, nextId, failures, terminated>>
    BY <1>0, <1>2, <1>9 DEF replace_session
  <2>2. CloseState' /\ CloseNotStranded'
    BY <1>1, <1>2, <1>3, <1>5, <2>1, FinishWakes
  <2>3. JobSessions'
    BY <1>2, <1>4, <2>1 DEF SessionInv, JobSessions, Crashed
  <2> QED
    BY <1>7, <2>1, <2>2, <2>3, HostSame DEF SessionInv
<1> QED
  BY <1>8, <1>9

LEMMA Session_crashes ==
  ASSUME SlotInv, SessionInv, NEW w \in Workers, session_crashes(w)
  PROVE  SessionInv'
<1>1. PICK s : s = ids[w]
  OBVIOUS
<1>2. /\ s # 0 /\ s \notin failures /\ failures' = failures \cup {s}
      /\ \A j \in Jobs : pc[j] = "settled" => session[j] # s
      /\ UNCHANGED <<ids, closing, active, changed, fired, worker, session, result,
                     cpc, waitsOn, nextId, terminated>>
  BY <1>1 DEF session_crashes, poolVars, closeVars
<1>3. \A j \in Jobs :
        /\ pc'[j] = IF pc[j] = "running" /\ session[j] = s THEN "settled" ELSE pc[j]
        /\ wire'[j] = IF pc[j] = "running" /\ session[j] = s THEN "lost" ELSE wire[j]
  BY <1>1 DEF session_crashes
<1>4. Sessions' /\ SessionsOwned'
  BY <1>1, <1>2 DEF SessionInv, Sessions, SessionsOwned, Workers
<1>5. CloseState' /\ CloseNotStranded'
  BY <1>2, CloseSame
<1>6. CrashReported'
  BY <1>2, <1>3 DEF SessionInv, CrashReported
<1>7. JobSessions'
  <2> SUFFICES ASSUME NEW i \in Jobs
               PROVE  /\ pc'[i] = "running" =>
                           /\ ids'[worker'[i]] = session'[i] /\ session'[i] # 0
                           /\ session'[i] \notin failures'
                      /\ pc'[i] = "settled" =>
                           /\ session'[i] # 0 /\ session'[i] < nextId'
                           /\ wire'[i] # "none"
                           /\ wire'[i] = "lost" <=> Crashed(i)'
                      /\ pc'[i] \in {"new", "waiting", "granted", "running"} => wire'[i] = "none"
    BY DEF JobSessions
  <2>1. Crashed(i)' <=> (ids[worker[i]] # session[i] \/ session[i] \in failures \cup {s})
    BY <1>2 DEF Crashed
  <2>2. CASE pc[i] = "running" /\ session[i] = s
    <3>1. s < nextId
      BY <1>1 DEF SessionInv, Sessions
    <3> QED
      BY <1>2, <1>3, <2>1, <2>2, <3>1
  <2>3. CASE ~(pc[i] = "running" /\ session[i] = s)
    BY <1>2, <1>3, <2>1, <2>3 DEF SessionInv, JobSessions, Crashed
  <2> QED
    BY <2>2, <2>3
<1> QED
  BY <1>4, <1>5, <1>6, <1>7 DEF SessionInv

LEMMA Session_close ==
  ASSUME SlotInv, SessionInv, NEW c \in Closers, Close(c)
  PROVE  SessionInv'
<1>1. /\ close_loop(c) /\ closing' /\ cpc[c] \in {"new", "waiting"}
      /\ UNCHANGED <<active, changed, fired, jobVars, nextId>>
  BY DEF Close, close_starts, close_resumes, SessionInv, CloseState
<1>2. UNCHANGED <<pc, worker, session, wire, result>>
  BY <1>1 DEF jobVars
<1>3. CrashReported'
  BY <1>2 DEF SessionInv, CrashReported
<1>4. /\ cpc \in [Closers -> {"new", "waiting", "done"}] /\ waitsOn \in [Closers -> Nat]
      /\ active \in Nat
  BY DEF SlotInv, TypeOK
<1>5. CASE active > 0
  <2>1. /\ cpc' = [cpc EXCEPT ![c] = "waiting"]
        /\ waitsOn' = [waitsOn EXCEPT ![c] = changed]
        /\ UNCHANGED <<ids, failures, terminated>>
    BY <1>1, <1>5 DEF close_loop
  <2>2. CloseState'
    BY <1>1, <2>1 DEF SessionInv, CloseState, Workers
  <2>3. CloseNotStranded'
    BY <1>1, <1>4, <1>5, <2>1 DEF SessionInv, CloseNotStranded
  <2>4. JobSessions'
    BY <1>1, <1>2, <2>1 DEF SessionInv, JobSessions, Crashed
  <2> QED
    BY <1>1, <1>3, <2>1, <2>2, <2>3, <2>4, HostSame DEF SessionInv
<1>6. CASE active = 0
  <2>1. /\ cpc' = [cpc EXCEPT ![c] = "done"] /\ UNCHANGED waitsOn
        /\ terminated' = terminated \cup {ids[w] : w \in {v \in Workers : ids[v] # 0}}
        /\ failures' = failures \ {ids[w] : w \in Workers}
        /\ ids' = [w \in Workers |-> 0]
    BY <1>1, <1>6 DEF close_loop, terminate
  <2>2. Submitted = {}
    BY <1>6, CountedSets, FS_EmptySet DEF SlotInv, Counts
  <2>3. \A j \in Jobs : pc[j] \in {"new", "done"}
    BY <2>2 DEF Submitted, SlotInv, TypeOK
  <2>4. \A w \in Workers : ids'[w] = 0
    BY <2>1
  <2>5. CloseState'
    BY <1>1, <1>6 DEF CloseState
  <2>6. CloseNotStranded'
    BY <1>1, <1>4, <2>1 DEF SessionInv, CloseNotStranded
  <2>7. JobSessions'
    BY <1>2, <2>3 DEF SessionInv, JobSessions
  <2>8. failures' = {}
    BY <2>1 DEF SessionInv, Sessions
  <2>9. ids \in [Workers -> Nat] /\ nextId \in Nat
    BY DEF SlotInv, TypeOK
  <2>10. \A t \in terminated' : t \in 1..(nextId - 1)
    BY <2>1, <2>9 DEF SessionInv, Sessions
  <2>11. Sessions'
    BY <1>1, <2>4, <2>8, <2>9, <2>10 DEF SessionInv, Sessions, Workers
  <2>12. SessionsOwned'
    <3>1. {ids'[w] : w \in {v \in Workers : ids'[v] # 0}} = {}
      BY <2>4
    <3>2. (1..(nextId - 1)) \ terminated' = {}
      BY <2>1 DEF SessionInv, SessionsOwned
    <3> QED
      BY <1>1, <3>1, <3>2 DEF SessionsOwned, Workers
  <2> QED
    BY <1>3, <2>5, <2>6, <2>7, <2>11, <2>12 DEF SessionInv
<1> QED
  BY <1>4, <1>5, <1>6

LEMMA SessionStep ==
  ASSUME SlotInv, SessionInv, [Next]_vars
  PROVE  SessionInv'
<1>1. ASSUME NEW j \in Jobs, Job(j) PROVE SessionInv'
  BY <1>1, Session_rejected, Session_waits, Session_starts, Session_granted_starts,
     Session_granted_cancelled, Session_resumes DEF Job
<1>2. CASE UNCHANGED vars
  <2>1. UNCHANGED <<ids, nextId, failures, terminated, closing, active, changed, fired,
                    cpc, waitsOn, pc, worker, session, wire, result>>
    BY <1>2 DEF vars, poolVars, jobVars, closeVars, hostVars
  <2>2. JobSessions'
    BY <2>1 DEF SessionInv, JobSessions, Crashed
  <2>3. CrashReported'
    BY <2>1 DEF SessionInv, CrashReported
  <2> QED
    BY <2>1, <2>2, <2>3, HostSame, CloseSame DEF SessionInv
<1> QED
  BY <1>1, <1>2, Session_cancel, Session_replies, Session_crashes, Session_close
  DEF Next, Finished

-----------------------------------------------------------------------------
(* The theorems.                                                           *)

(* Both invariants hold in every reachable state of a pool. *)
THEOREM Inductive == Spec => [](SlotInv /\ SessionInv)
<1>1. Init => SlotInv /\ SessionInv
  BY SlotInit, SessionInit
<1>2. (SlotInv /\ SessionInv) /\ [Next]_vars => (SlotInv /\ SessionInv)'
  BY SlotStep, SessionStep
<1> QED
  BY <1>1, <1>2, PTL DEF Spec

(* No counter of TaskPool leaves the naturals. *)
THEOREM TypeCorrect == Spec => []TypeOK
<1>1. SlotInv => TypeOK
  BY DEF SlotInv
<1> QED
  BY <1>1, Inductive, PTL

(* The class comment's promise: no worker ever holds a third job, although a
   slot handed over in release_slot() claims its worker only later. *)
THEOREM AtMostTwo == Spec => []TwoPerWorker
<1>1. SlotInv => TwoPerWorker
  BY DEF SlotInv
<1> QED
  BY <1>1, Inductive, PTL

(* release_slot() and try_acquire() neither lose a slot nor hand out one too
   many, and nobody waits beside a free slot. *)
THEOREM SlotsExact == Spec => []SlotAccounting
<1>1. SlotInv => SlotAccounting
  BY DEF SlotInv
<1> QED
  BY <1>1, Inductive, PTL

(* Slots and loads together: the slots handed out by try_acquire() and
   release_slot() are exact, and they bound what claim() puts on a worker. *)
THEOREM SlotsBound == Spec => []SlotsBoundLoad
<1>1. TwoPerWorker /\ SlotAccounting => SlotsBoundLoad
  BY DEF SlotsBoundLoad
<1> QED
  BY <1>1, AtMostTwo, SlotsExact, PTL

(* close_owned() terminates no session a submitted job still needs. *)
THEOREM CloseKeepsWork == Spec => []NoWorkLost
<1>1. SlotInv /\ SessionInv => NoWorkLost
  <2> SUFFICES ASSUME SlotInv, SessionInv PROVE NoWorkLost
    OBVIOUS
  <2>1. Submitted # {} => \A w \in Workers : ids[w] # 0
    BY SubmittedLive
  <2>2. \A j \in Jobs : pc[j] = "running" => session[j] \notin terminated
    BY DEF SlotInv, Placed, SessionInv, JobSessions, Sessions
  <2> QED
    BY <2>1, <2>2 DEF NoWorkLost
<1> QED
  BY <1>1, Inductive, PTL

(* crashed() and terminate() neither leak a session nor terminate one twice. *)
THEOREM SessionsExact == Spec => []SessionsOwned
<1>1. SessionInv => SessionsOwned
  BY DEF SessionInv
<1> QED
  BY <1>1, Inductive, PTL

(* The session table: close_owned() takes no session a submitted job needs,
   and replace() and terminate() neither leak a session nor end one twice. *)
THEOREM SessionsSafe == Spec => []SessionsKept
<1>1. NoWorkLost /\ SessionsOwned => SessionsKept
  BY DEF SessionsKept
<1> QED
  BY <1>1, CloseKeepsWork, SessionsExact, PTL

(* A sleeping close_owned() is always on a generation that fired or will. *)
THEOREM CloseWoken == Spec => []CloseNotStranded
<1>1. SessionInv => CloseNotStranded
  BY DEF SessionInv
<1> QED
  BY <1>1, Inductive, PTL

(* dispatch_owned() answers WorkerCrashed exactly for the jobs whose reply the
   crash swallowed, in whatever order they see the crash. *)
THEOREM CrashesReported == Spec => []CrashReported
<1>1. SessionInv => CrashReported
  BY DEF SessionInv
<1> QED
  BY <1>1, Inductive, PTL

-----------------------------------------------------------------------------
(* Nobody is stranded, and the pool's own steps run out.                   *)

(* Every waiting dispatch has its ticket in the queue. *)
Tickets ==
    \A j \in Jobs : pc[j] = "waiting" => \E i \in 1..Len(waiters) : waiters[i] = j

(* The current generation of `changed` fires only when the pool is idle. *)
Generations ==
    /\ active > 0 => changed \notin fired
    /\ \A g \in fired : g <= changed

Sized == Submitted # {} => Size > 0

WaitInv == Tickets /\ Generations /\ Sized

(* A close whose generation has fired resumes. *)
Woken(c) == cpc[c] = "waiting" /\ waitsOn[c] \in fired

(* As long as a submitted dispatch has not returned, one of them can go on:
   it has a slot, and a slot comes with a worker to claim.  A close that
   sleeps is due or waits for such a dispatch. *)
SomebodyMoves ==
    /\ Submitted # {} =>
         \E j \in Jobs : \/ pc[j] \in {"running", "settled"}
                         \/ pc[j] = "granted" /\ \E w \in Workers : LeastLoaded(w)
    /\ \A c \in Closers : cpc[c] = "waiting" => Woken(c) \/ Submitted # {}

(* claim() finds a worker: the loads have a least value, and it has a first
   place. *)
LEMMA LeastNatural ==
  ASSUME NEW T, T \subseteq Nat, T # {}
  PROVE  \E x \in T : \A y \in T : x <= y
<1>1. PICK x \in T : \A y \in T : <<y, x>> \notin OpToRel(<, Nat)
  BY NatLessThanWellFounded, WFMin, Zenon
<1>2. ASSUME NEW y \in T PROVE x <= y
  <2>1. <<y, x>> \in Nat \X Nat
    OBVIOUS
  <2>2. ~(y < x)
    BY <1>1, <2>1 DEF OpToRel
  <2> QED
    BY <2>2
<1> QED
  BY <1>2

LEMMA ClaimFinds ==
  ASSUME TypeOK, Size > 0
  PROVE  \E w \in Workers : LeastLoaded(w)
<1> DEFINE L == {loads[w] : w \in Workers}
<1>1. L \subseteq Nat /\ L # {}
  <2>1. 1 \in Workers /\ loads \in [Workers -> Nat]
    BY SizeAssumption DEF Workers, TypeOK
  <2> QED
    BY <2>1
<1>2. PICK m \in L : \A y \in L : m <= y
  <2> HIDE DEF L
  <2> QED
    BY <1>1, LeastNatural
<1> DEFINE T == {w \in Workers : loads[w] = m}
<1>3. T \subseteq Nat /\ T # {}
  BY <1>2, SizeAssumption DEF Workers
<1>4. PICK w \in T : \A v \in T : w <= v
  <2> HIDE DEF T
  <2> QED
    BY <1>3, LeastNatural
<1>5. ASSUME NEW v \in Workers
      PROVE  loads[w] < loads[v] \/ (loads[w] = loads[v] /\ w <= v)
  <2>1. m <= loads[v] /\ loads[v] \in Nat /\ m \in Nat /\ loads[w] = m
    BY <1>1, <1>2, <1>4
  <2>2. loads[v] = m => w <= v
    BY <1>4
  <2> QED
    BY <2>1, <2>2
<1> QED
  BY <1>4, <1>5 DEF LeastLoaded

(* Steps that leave the queue, the generations and the submitted alone. *)
LEMMA WaitSame ==
  ASSUME WaitInv, UNCHANGED <<waiters, active, changed, fired>>,
         \A j \in Jobs : /\ pc'[j] = "waiting" => pc[j] = "waiting"
                         /\ j \in Submitted' => j \in Submitted
  PROVE  WaitInv'
<1>1. Tickets'
  BY DEF WaitInv, Tickets
<1>2. Generations'
  BY DEF WaitInv, Generations
<1>3. Sized'
  BY DEF WaitInv, Sized, Submitted
<1> QED
  BY <1>1, <1>2, <1>3 DEF WaitInv

(* begin() opens a generation that no idle moment has fired. *)
LEMMA BeginWaits ==
  ASSUME SlotInv, WaitInv, begin, fired' = fired
  PROVE  Generations'
<1>1. active \in Nat /\ changed \in Nat /\ fired \subseteq Nat
  BY DEF SlotInv, TypeOK
<1>2. CASE active = 0
  <2>1. changed' = changed + 1 /\ \A g \in fired : g <= changed /\ g \in Nat
    BY <1>1, <1>2 DEF begin, WaitInv, Generations
  <2>2. changed' \notin fired /\ \A g \in fired : g <= changed'
    BY <1>1, <2>1
  <2> QED
    BY <2>2 DEF Generations
<1>3. CASE active # 0
  BY <1>1, <1>3 DEF begin, WaitInv, Generations
<1> QED
  BY <1>2, <1>3

LEMMA Wait_waits ==
  ASSUME SlotInv, WaitInv, NEW j \in Jobs, dispatch_waits(j)
  PROVE  WaitInv'
<1>1. /\ waiters \in Seq(Jobs) /\ waiters' = Append(waiters, j)
      /\ Size # 0 /\ begin /\ fired' = fired
      /\ \A i \in Jobs : pc'[i] = IF i = j THEN "waiting" ELSE pc[i]
  BY DEF dispatch_waits, RejectReason, SlotInv, TypeOK
<1>2. /\ Len(waiters) \in Nat /\ Len(waiters') = Len(waiters) + 1
      /\ \A i \in 1..Len(waiters) : waiters'[i] = waiters[i]
      /\ waiters'[Len(waiters) + 1] = j
  BY <1>1, AppendFacts
<1>3. Tickets'
  <2> SUFFICES ASSUME NEW i \in Jobs, pc'[i] = "waiting"
               PROVE  \E k \in 1..Len(waiters') : waiters'[k] = i
    BY DEF Tickets
  <2>1. CASE i = j
    <3>1. Len(waiters) + 1 \in 1..Len(waiters')
      BY <1>2
    <3> QED
      BY <1>2, <2>1, <3>1
  <2>2. CASE i # j
    <3>1. PICK k \in 1..Len(waiters) : waiters[k] = i
      BY <1>1, <2>2 DEF WaitInv, Tickets
    <3>2. k \in 1..Len(waiters')
      BY <1>2
    <3> QED
      BY <1>2, <3>1, <3>2
  <2> QED
    BY <2>1, <2>2
<1>4. Sized'
  BY <1>1, SizeAssumption DEF Sized
<1> QED
  BY <1>1, <1>3, <1>4, BeginWaits DEF WaitInv

LEMMA Wait_starts ==
  ASSUME SlotInv, WaitInv, NEW j \in Jobs, dispatch_starts(j)
  PROVE  WaitInv'
<1>1. Size # 0 /\ begin /\ fired' = fired /\ waiters' = waiters
  BY DEF dispatch_starts, RejectReason
<1>2. \A i \in Jobs : pc'[i] = "waiting" => pc[i] = "waiting"
  BY DEF dispatch_starts, dispatch_host, SlotInv, TypeOK
<1>3. Tickets'
  BY <1>1, <1>2 DEF WaitInv, Tickets
<1>4. Sized'
  BY <1>1, SizeAssumption DEF Sized
<1> QED
  BY <1>1, <1>3, <1>4, BeginWaits DEF WaitInv

(* finish() grants the oldest ticket, and fires the generation of a pool
   that becomes idle. *)
LEMMA FinishWaits ==
  ASSUME SlotInv, WaitInv, NEW j \in Jobs, NEW answer, finish(j, answer), j \in Holders,
         changed' = changed
  PROVE  WaitInv'
<1>1. /\ waiters \in Seq(Jobs) /\ active \in Nat /\ changed \in Nat
      /\ pc \in [Jobs -> {"new", "waiting", "granted", "running", "settled", "done"}]
  BY DEF SlotInv, TypeOK
<1>2. /\ pc'[j] = "done"
      /\ \A i \in Jobs \ {j} : pc'[i] = pc[i] \/ (pc[i] = "waiting" /\ pc'[i] = "granted")
      /\ active' = active - 1 /\ active >= 1
  BY FinishStep
<1>3. Generations'
  <2>1. fired' = IF active = 1 THEN fired \cup {changed} ELSE fired
    BY DEF finish
  <2> QED
    BY <1>1, <1>2, <2>1 DEF WaitInv, Generations
<1>4. Sized'
  <2>1. Submitted # {}
    BY DEF Holders, Submitted
  <2> QED
    BY <2>1 DEF WaitInv, Sized
<1>5. Tickets'
  <2> SUFFICES ASSUME NEW i \in Jobs, pc'[i] = "waiting"
               PROVE  \E k \in 1..Len(waiters') : waiters'[k] = i
    BY DEF Tickets
  <2>1. i # j /\ pc[i] = "waiting"
    BY <1>2
  <2>2. PICK k \in 1..Len(waiters) : waiters[k] = i
    BY <2>1 DEF WaitInv, Tickets
  <2>3. waiters # <<>>
    BY <1>1, <2>2
  <2>4. /\ Head(waiters) = waiters[1] /\ Head(waiters) \in Jobs
        /\ Len(waiters) \in Nat /\ Len(Tail(waiters)) = Len(waiters) - 1
        /\ \A n \in 1..Len(Tail(waiters)) : Tail(waiters)[n] = waiters[n + 1]
    BY <1>1, <2>3, TailFacts
  <2>5. /\ waiters' = Tail(waiters)
        /\ pc' = [[pc EXCEPT ![j] = "done"] EXCEPT ![Head(waiters)] = "granted"]
    BY <2>3 DEF finish, release_slot
  <2>6. i # Head(waiters)
    BY <1>1, <2>4, <2>5
  <2>7. k # 1
    BY <2>2, <2>4, <2>6
  <2>8. k - 1 \in 1..Len(Tail(waiters)) /\ (k - 1) + 1 = k
    BY <2>4, <2>7
  <2> QED
    BY <2>2, <2>4, <2>5, <2>8
<1> QED
  BY <1>3, <1>4, <1>5 DEF WaitInv

LEMMA WaitStep ==
  ASSUME SlotInv, WaitInv, [Next]_vars
  PROVE  WaitInv'
<1>0. pc \in [Jobs -> {"new", "waiting", "granted", "running", "settled", "done"}]
  BY DEF SlotInv, TypeOK
<1>1. ASSUME NEW j \in Jobs, dispatch_rejected(j) PROVE WaitInv'
  BY <1>0, <1>1, WaitSame DEF dispatch_rejected, poolVars, Submitted
<1>2. ASSUME NEW j \in Jobs, dispatch_waits(j) PROVE WaitInv'
  BY <1>2, Wait_waits
<1>3. ASSUME NEW j \in Jobs, dispatch_starts(j) PROVE WaitInv'
  BY <1>3, Wait_starts
<1>4. ASSUME NEW j \in Jobs, granted_starts(j) PROVE WaitInv'
  <2>1. UNCHANGED <<waiters, active, changed, fired>> /\ pc[j] = "granted"
    BY <1>4 DEF granted_starts
  <2>2. /\ pc'[j] # "waiting"
        /\ \A i \in Jobs \ {j} : pc'[i] = pc[i]
    BY <1>0, <1>4 DEF granted_starts, dispatch_host
  <2> QED
    BY <2>1, <2>2, WaitSame DEF Submitted
<1>5. ASSUME NEW j \in Jobs, granted_cancelled(j) PROVE WaitInv'
  <2>1. pc[j] = "granted" /\ finish(j, "Cancelled") /\ changed' = changed
    BY <1>5 DEF granted_cancelled
  <2>2. j \in Holders
    BY <2>1 DEF Holders
  <2> QED
    BY <2>1, <2>2, FinishWaits
<1>6. ASSUME NEW j \in Jobs, job_resumes(j) PROVE WaitInv'
  <2>1. PICK answer : finish(j, answer)
    BY <1>6 DEF job_resumes
  <2>2. j \in Holders /\ changed' = changed
    BY <1>6 DEF job_resumes, Holders
  <2> QED
    BY <2>1, <2>2, FinishWaits
<1>7. ASSUME NEW j \in Jobs, cancel(j) PROVE WaitInv'
  BY <1>7, WaitSame DEF cancel, poolVars, Submitted
<1>8. ASSUME NEW j \in Jobs, job_replies(j) PROVE WaitInv'
  BY <1>0, <1>8, WaitSame DEF job_replies, poolVars, Submitted
<1>9. ASSUME NEW c \in Closers, Close(c) PROVE WaitInv'
  BY <1>9, WaitSame DEF Close, close_starts, close_resumes, jobVars, Submitted
<1>10. ASSUME NEW w \in Workers, session_crashes(w) PROVE WaitInv'
  BY <1>0, <1>10, WaitSame DEF session_crashes, poolVars, Submitted
<1>11. CASE UNCHANGED vars
  BY <1>11, WaitSame DEF vars, poolVars, jobVars, Submitted
<1> QED
  BY <1>1, <1>2, <1>3, <1>4, <1>5, <1>6, <1>7, <1>8, <1>9, <1>10, <1>11
     DEF Next, Job, Finished

(* A dispatch that waits for a slot, and a close that waits for `changed`,
   always waits for somebody who can go on: try_acquire() queues a ticket only
   while every slot is taken, release_slot() loses none, and begin() renews a
   generation before anybody can sleep on it in vain. *)
THEOREM NobodyStranded == Spec => []SomebodyMoves
<1>1. Init => WaitInv
  BY DEF Init, WaitInv, Tickets, Generations, Sized, Submitted
<1>2. SlotInv /\ WaitInv /\ [Next]_vars => WaitInv'
  BY WaitStep
<1>3. SlotInv /\ SessionInv /\ WaitInv => SomebodyMoves
  <2> SUFFICES ASSUME SlotInv, SessionInv, WaitInv PROVE SomebodyMoves
    OBVIOUS
  <2>1. ASSUME Submitted # {}
        PROVE  \E j \in Jobs : \/ pc[j] \in {"running", "settled"}
                               \/ pc[j] = "granted" /\ \E w \in Workers : LeastLoaded(w)
    <3>1. Size > 0
      BY <2>1 DEF WaitInv, Sized
    <3>2. \E w \in Workers : LeastLoaded(w)
      BY <3>1, ClaimFinds DEF SlotInv
    <3>3. Holders # {}
      <4> SUFFICES ASSUME Holders = {} PROVE FALSE
        OBVIOUS
      <4>1. PICK j \in Jobs : pc[j] = "waiting"
        BY <2>1 DEF Submitted, Holders
      <4>2. waiters # <<>>
        BY <4>1 DEF WaitInv, Tickets
      <4>3. occupied = 2 * Size /\ occupied = 0
        BY <4>2, FS_EmptySet DEF SlotInv, SlotAccounting
      <4> QED
        BY <3>1, <4>3, SizeAssumption
    <3> QED
      BY <3>2, <3>3 DEF Holders
  <2>2. ASSUME NEW c \in Closers, cpc[c] = "waiting", ~Woken(c)
        PROVE  Submitted # {}
    <3>1. active > 0 /\ active = Cardinality(Submitted)
      BY <2>2 DEF Woken, SessionInv, CloseNotStranded, SlotInv, Counts
    <3> QED
      BY <3>1, FS_EmptySet
  <2> QED
    BY <2>1, <2>2 DEF SomebodyMoves
<1> QED
  BY <1>1, <1>2, <1>3, Inductive, PTL DEF Spec

(* What is ahead of the dispatches and the closes: a dispatch still has to be
   granted a slot, to start, to be answered and to return; a close has to
   resume, to fall asleep again if the pool is busy meanwhile, and to be woken
   and return. *)
JobsAt(S) == {j \in Jobs : pc[j] \in S}
Sleepers == {c \in Closers : cpc[c] = "waiting"}
Unfired == {c \in Sleepers : active > 0 \/ waitsOn[c] \notin fired}
Stale == {c \in Sleepers : active > 0 /\ waitsOn[c] \in fired}

JobsAhead ==
    Cardinality(JobsAt({"waiting"})) + Cardinality(JobsAt({"waiting", "granted"}))
    + Cardinality(JobsAt({"waiting", "granted", "running"})) + Cardinality(Submitted)
ClosesAhead == Cardinality(Sleepers) + Cardinality(Unfired) + Cardinality(Stale)
Variant == JobsAhead + ClosesAhead

(* The steps that the pool's run loop and the sessions owe. *)
Progress ==
    \/ \E j \in Jobs : \/ granted_starts(j) \/ granted_cancelled(j)
                       \/ job_resumes(j) \/ job_replies(j)
    \/ \E c \in Closers : close_resumes(c)

(* A call of dispatch or close that does not return at once. *)
NewCall ==
    \/ \E j \in Jobs : dispatch_waits(j) \/ dispatch_starts(j)
    \/ \E c \in Closers : close_starts(c)

LEMMA Shrinks ==
  ASSUME NEW S, IsFiniteSet(S), NEW T \in SUBSET S
  PROVE  /\ Cardinality(S) \in Nat /\ Cardinality(T) \in Nat
         /\ Cardinality(T) <= Cardinality(S)
         /\ T # S => Cardinality(T) < Cardinality(S)
<1>1. IsFiniteSet(T) /\ Cardinality(T) <= Cardinality(S)
  BY FS_Subset
<1>2. Cardinality(S) = Cardinality(T) => S = T
  BY FS_Subset
<1> QED
  BY <1>1, <1>2, FS_CardinalityType

LEMMA AheadFinite ==
  /\ \A S : IsFiniteSet(JobsAt(S)) /\ IsFiniteSet(JobsAt(S)')
  /\ IsFiniteSet(Submitted) /\ IsFiniteSet(Submitted')
  /\ IsFiniteSet(Sleepers) /\ IsFiniteSet(Sleepers')
  /\ IsFiniteSet(Unfired) /\ IsFiniteSet(Unfired')
  /\ IsFiniteSet(Stale) /\ IsFiniteSet(Stale')
<1>1. \A T \in SUBSET Jobs : IsFiniteSet(T)
  BY JobsFinite, FS_Subset
<1>2. \A T \in SUBSET Closers : IsFiniteSet(T)
  BY ClosersFinite, FS_Subset
<1> QED
  BY <1>1, <1>2 DEF JobsAt, Submitted, Sleepers, Unfired, Stale

LEMMA Sums ==
  ASSUME NEW x \in Nat, NEW y \in Nat, NEW u \in Nat, NEW v \in Nat
  PROVE  /\ x + y \in Nat
         /\ u <= x /\ v <= y => u + v <= x + y
         /\ u < x /\ v <= y => u + v < x + y
         /\ u <= x /\ v < y => u + v < x + y
OBVIOUS

LEMMA VariantSum ==
  /\ Variant = JobsAhead + ClosesAhead
  /\ Variant' = JobsAhead' + ClosesAhead'
BY DEF Variant

LEMMA AheadNat ==
  /\ JobsAhead \in Nat /\ ClosesAhead \in Nat /\ Variant \in Nat
  /\ JobsAhead' \in Nat /\ ClosesAhead' \in Nat /\ Variant' \in Nat
<1>1. \A S : Cardinality(JobsAt(S)) \in Nat /\ Cardinality(JobsAt(S)') \in Nat
  BY AheadFinite, FS_CardinalityType
<1>2. /\ Cardinality(Submitted) \in Nat /\ Cardinality(Sleepers) \in Nat
      /\ Cardinality(Unfired) \in Nat /\ Cardinality(Stale) \in Nat
  BY AheadFinite, FS_CardinalityType
<1>3. /\ Cardinality(Submitted)' \in Nat /\ Cardinality(Sleepers)' \in Nat
      /\ Cardinality(Unfired)' \in Nat /\ Cardinality(Stale)' \in Nat
  BY AheadFinite, FS_CardinalityType
<1>4. JobsAhead \in Nat /\ ClosesAhead \in Nat
  BY <1>1, <1>2 DEF JobsAhead, ClosesAhead
<1>5. JobsAhead' \in Nat /\ ClosesAhead' \in Nat
  BY <1>1, <1>3 DEF JobsAhead, ClosesAhead
<1> QED
  BY <1>4, <1>5, VariantSum, Sums

(* Dispatches only go forward. *)
LEMMA JobsDescend ==
  ASSUME \A j \in Jobs : \/ pc'[j] = pc[j]
                         \/ pc[j] = "new" /\ pc'[j] = "done"
                         \/ pc[j] = "waiting" /\ pc'[j] = "granted"
                         \/ pc[j] = "granted" /\ pc'[j] \in {"running", "settled", "done"}
                         \/ pc[j] = "running" /\ pc'[j] \in {"settled", "done"}
                         \/ pc[j] = "settled" /\ pc'[j] = "done"
  PROVE  /\ JobsAhead \in Nat /\ JobsAhead' \in Nat /\ JobsAhead' <= JobsAhead
         /\ \A j \in Jobs : pc[j] \in {"granted", "running", "settled"} /\ pc'[j] # pc[j]
                            => JobsAhead' < JobsAhead
<1> DEFINE A == JobsAt({"waiting"})
           B == JobsAt({"waiting", "granted"})
           C == JobsAt({"waiting", "granted", "running"})
           D == Submitted
<1>1. A' \subseteq A /\ B' \subseteq B /\ C' \subseteq C /\ D' \subseteq D
  BY DEF JobsAt, Submitted
<1>2. IsFiniteSet(A) /\ IsFiniteSet(B) /\ IsFiniteSet(C) /\ IsFiniteSet(D)
  BY AheadFinite
<1>3. /\ \A j \in Jobs : pc[j] = "granted" /\ pc'[j] # pc[j] => B' # B
      /\ \A j \in Jobs : pc[j] = "running" /\ pc'[j] # pc[j] => C' # C
      /\ \A j \in Jobs : pc[j] = "settled" /\ pc'[j] # pc[j] => D' # D
  BY DEF JobsAt, Submitted
<1>4. /\ JobsAhead = Cardinality(A) + Cardinality(B) + Cardinality(C) + Cardinality(D)
      /\ JobsAhead' = Cardinality(A') + Cardinality(B') + Cardinality(C') + Cardinality(D')
  BY DEF JobsAhead
<1> HIDE DEF A, B, C, D
<1>5. /\ Cardinality(A) \in Nat /\ Cardinality(A') \in Nat
      /\ Cardinality(A') <= Cardinality(A)
  BY <1>1, <1>2, Shrinks
<1>6. /\ Cardinality(B) \in Nat /\ Cardinality(B') \in Nat
      /\ Cardinality(B') <= Cardinality(B)
      /\ B' # B => Cardinality(B') < Cardinality(B)
  BY <1>1, <1>2, Shrinks
<1>7. /\ Cardinality(C) \in Nat /\ Cardinality(C') \in Nat
      /\ Cardinality(C') <= Cardinality(C)
      /\ C' # C => Cardinality(C') < Cardinality(C)
  BY <1>1, <1>2, Shrinks
<1>8. /\ Cardinality(D) \in Nat /\ Cardinality(D') \in Nat
      /\ Cardinality(D') <= Cardinality(D)
      /\ D' # D => Cardinality(D') < Cardinality(D)
  BY <1>1, <1>2, Shrinks
<1>9. /\ JobsAhead \in Nat /\ JobsAhead' \in Nat /\ JobsAhead' <= JobsAhead
      /\ B' # B \/ C' # C \/ D' # D => JobsAhead' < JobsAhead
  BY <1>4, <1>5, <1>6, <1>7, <1>8
<1> QED
  BY <1>3, <1>9

(* Closes only go forward while no call begins. *)
LEMMA ClosesDescend ==
  ASSUME Sleepers' \subseteq Sleepers, Unfired' \subseteq Unfired, Stale' \subseteq Stale
  PROVE  /\ ClosesAhead \in Nat /\ ClosesAhead' \in Nat /\ ClosesAhead' <= ClosesAhead
         /\ Sleepers' # Sleepers \/ Stale' # Stale => ClosesAhead' < ClosesAhead
<1>1. /\ Cardinality(Sleepers) \in Nat /\ Cardinality(Sleepers') \in Nat
      /\ Cardinality(Sleepers') <= Cardinality(Sleepers)
      /\ Sleepers' # Sleepers => Cardinality(Sleepers') < Cardinality(Sleepers)
  BY AheadFinite, Shrinks
<1>2. /\ Cardinality(Unfired) \in Nat /\ Cardinality(Unfired') \in Nat
      /\ Cardinality(Unfired') <= Cardinality(Unfired)
  BY AheadFinite, Shrinks
<1>3. /\ Cardinality(Stale) \in Nat /\ Cardinality(Stale') \in Nat
      /\ Cardinality(Stale') <= Cardinality(Stale)
      /\ Stale' # Stale => Cardinality(Stale') < Cardinality(Stale)
  BY AheadFinite, Shrinks
<1>4. /\ ClosesAhead = Cardinality(Sleepers) + Cardinality(Unfired) + Cardinality(Stale)
      /\ ClosesAhead' = Cardinality(Sleepers') + Cardinality(Unfired') + Cardinality(Stale')
  BY DEF ClosesAhead
<1> QED
  BY <1>1, <1>2, <1>3, <1>4

LEMMA ClosesRest ==
  ASSUME UNCHANGED <<cpc, waitsOn, active, fired>>
  PROVE  Sleepers' \subseteq Sleepers /\ Unfired' \subseteq Unfired /\ Stale' \subseteq Stale
BY DEF Sleepers, Unfired, Stale

LEMMA FinishDescends ==
  ASSUME SlotInv, NEW j \in Jobs, NEW answer, finish(j, answer), j \in Holders,
         UNCHANGED <<cpc, waitsOn>>
  PROVE  Variant' < Variant
<1>1. /\ pc'[j] = "done" /\ pc[j] \in {"granted", "running", "settled"}
      /\ \A i \in Jobs \ {j} : pc'[i] = pc[i] \/ (pc[i] = "waiting" /\ pc'[i] = "granted")
      /\ active' = active - 1 /\ active \in Nat
  BY FinishStep DEF Holders, SlotInv, TypeOK
<1>2. /\ JobsAhead \in Nat /\ JobsAhead' \in Nat /\ JobsAhead' < JobsAhead
  BY <1>1, JobsDescend
<1>3. /\ active' > 0 => active > 0
      /\ active' > 0 => fired' = fired
      /\ fired \subseteq fired'
  BY <1>1 DEF finish
<1>4. Sleepers' \subseteq Sleepers /\ Unfired' \subseteq Unfired /\ Stale' \subseteq Stale
  BY <1>3 DEF Sleepers, Unfired, Stale
<1>5. ClosesAhead \in Nat /\ ClosesAhead' \in Nat /\ ClosesAhead' <= ClosesAhead
  BY <1>4, ClosesDescend
<1> QED
  BY <1>2, <1>5, VariantSum, Sums

(* A close that resumes returns, or sleeps on a generation that has not
   fired. *)
LEMMA CloseDescends ==
  ASSUME SlotInv, WaitInv, NEW c \in Closers, close_resumes(c)
  PROVE  Variant' < Variant
<1>1. /\ cpc[c] = "waiting" /\ waitsOn[c] \in fired /\ close_loop(c)
      /\ UNCHANGED <<active, fired, changed, pc>>
      /\ cpc \in [Closers -> {"new", "waiting", "done"}] /\ waitsOn \in [Closers -> Nat]
      /\ active \in Nat
  BY DEF close_resumes, jobVars, SlotInv, TypeOK
<1>2. JobsAhead' <= JobsAhead
  <2>1. JobsAhead' = JobsAhead
    BY <1>1 DEF JobsAhead, JobsAt, Submitted
  <2> QED
    BY <2>1, AheadNat
<1>3. CASE active > 0
  <2>1. /\ cpc'[c] = "waiting" /\ waitsOn'[c] = changed /\ changed \notin fired
        /\ \A d \in Closers \ {c} : cpc'[d] = cpc[d] /\ waitsOn'[d] = waitsOn[d]
    BY <1>1, <1>3 DEF close_loop, WaitInv, Generations
  <2>2. c \in Stale /\ c \notin Stale'
    BY <1>1, <1>3, <2>1 DEF Stale, Sleepers
  <2>3. Sleepers' \subseteq Sleepers /\ Unfired' \subseteq Unfired /\ Stale' \subseteq Stale
    BY <1>1, <1>3, <2>1 DEF Sleepers, Unfired, Stale
  <2>4. ClosesAhead \in Nat /\ ClosesAhead' \in Nat /\ ClosesAhead' < ClosesAhead
    BY <2>2, <2>3, ClosesDescend
  <2> QED
    BY <1>2, <2>4, AheadNat, VariantSum, Sums
<1>4. CASE ~(active > 0)
  <2>1. /\ cpc'[c] = "done" /\ waitsOn' = waitsOn
        /\ \A d \in Closers \ {c} : cpc'[d] = cpc[d]
    BY <1>1, <1>4 DEF close_loop
  <2>2. c \in Sleepers /\ c \notin Sleepers'
    BY <1>1, <2>1 DEF Sleepers
  <2>3. Sleepers' \subseteq Sleepers /\ Unfired' \subseteq Unfired /\ Stale' \subseteq Stale
    BY <1>1, <1>4, <2>1 DEF Sleepers, Unfired, Stale
  <2>4. ClosesAhead \in Nat /\ ClosesAhead' \in Nat /\ ClosesAhead' < ClosesAhead
    BY <2>2, <2>3, ClosesDescend
  <2> QED
    BY <1>2, <2>4, AheadNat, VariantSum, Sums
<1> QED
  BY <1>3, <1>4

LEMMA ProgressDescends ==
  ASSUME SlotInv, WaitInv, Progress
  PROVE  Variant' < Variant
<1>0. pc \in [Jobs -> {"new", "waiting", "granted", "running", "settled", "done"}]
  BY DEF SlotInv, TypeOK
<1>1. ASSUME NEW j \in Jobs, granted_starts(j) \/ job_replies(j)
      PROVE  Variant' < Variant
  <2>1. /\ UNCHANGED <<cpc, waitsOn, active, fired>>
        /\ \/ pc[j] = "granted" /\ pc'[j] \in {"running", "settled"}
           \/ pc[j] = "running" /\ pc'[j] = "settled"
        /\ \A i \in Jobs \ {j} : pc'[i] = pc[i]
    BY <1>0, <1>1 DEF granted_starts, dispatch_host, job_replies, poolVars, closeVars
  <2>2. JobsAhead \in Nat /\ JobsAhead' \in Nat /\ JobsAhead' < JobsAhead
    BY <2>1, JobsDescend
  <2>3. ClosesAhead \in Nat /\ ClosesAhead' \in Nat /\ ClosesAhead' <= ClosesAhead
    BY <2>1, ClosesRest, ClosesDescend
  <2> QED
    BY <2>2, <2>3, VariantSum, Sums
<1>2. ASSUME NEW j \in Jobs, granted_cancelled(j) \/ job_resumes(j)
      PROVE  Variant' < Variant
  <2>1. PICK answer : finish(j, answer)
    BY <1>2 DEF granted_cancelled, job_resumes
  <2>2. j \in Holders /\ UNCHANGED <<cpc, waitsOn>>
    BY <1>2 DEF granted_cancelled, job_resumes, Holders, closeVars
  <2> QED
    BY <2>1, <2>2, FinishDescends
<1> QED
  BY <1>1, <1>2, CloseDescends DEF Progress

(* Cancellations, crashes and refused dispatches add nothing to wait for. *)
LEMMA OthersDescend ==
  ASSUME SlotInv, WaitInv, [Next]_vars, ~NewCall
  PROVE  Variant' <= Variant
<1>0. pc \in [Jobs -> {"new", "waiting", "granted", "running", "settled", "done"}]
  BY DEF SlotInv, TypeOK
<1>1. CASE Progress
  BY <1>1, ProgressDescends, AheadNat
<1>2. ASSUME UNCHANGED <<cpc, waitsOn, active, fired>>,
             \A j \in Jobs : \/ pc'[j] = pc[j]
                             \/ pc[j] = "new" /\ pc'[j] = "done"
                             \/ pc[j] = "running" /\ pc'[j] = "settled"
      PROVE  Variant' <= Variant
  <2>1. JobsAhead \in Nat /\ JobsAhead' \in Nat /\ JobsAhead' <= JobsAhead
    BY <1>2, JobsDescend
  <2>2. ClosesAhead \in Nat /\ ClosesAhead' \in Nat /\ ClosesAhead' <= ClosesAhead
    BY <1>2, ClosesRest, ClosesDescend
  <2> QED
    BY <2>1, <2>2, VariantSum, Sums
<1>3. ASSUME NEW j \in Jobs, dispatch_rejected(j) PROVE Variant' <= Variant
  BY <1>0, <1>2, <1>3 DEF dispatch_rejected, poolVars, closeVars
<1>4. ASSUME NEW j \in Jobs, cancel(j) PROVE Variant' <= Variant
  BY <1>2, <1>4 DEF cancel, poolVars, closeVars
<1>5. ASSUME NEW w \in Workers, session_crashes(w) PROVE Variant' <= Variant
  BY <1>0, <1>2, <1>5 DEF session_crashes, poolVars, closeVars
<1>6. CASE UNCHANGED vars
  BY <1>2, <1>6 DEF vars, poolVars, jobVars, closeVars
<1> QED
  BY <1>1, <1>3, <1>4, <1>5, <1>6 DEF Next, Job, Close, Finished, NewCall, Progress

(* Unless dispatch or close is called again, the pool runs out of work: each
   step of its run loop or of a session takes one from what is ahead of the
   calls it owes an answer, and no cancellation, crash or hand-over puts any
   back. *)
THEOREM WorkRunsOut ==
  Spec => [][ /\ Variant \in Nat
              /\ Progress => Variant' < Variant
              /\ ~NewCall => Variant' <= Variant ]_vars
<1>1. Init => WaitInv
  BY DEF Init, WaitInv, Tickets, Generations, Sized, Submitted
<1>2. SlotInv /\ WaitInv /\ [Next]_vars => WaitInv'
  BY WaitStep
<1>3. SlotInv /\ WaitInv /\ [Next]_vars =>
        [ /\ Variant \in Nat
          /\ Progress => Variant' < Variant
          /\ ~NewCall => Variant' <= Variant ]_vars
  BY AheadNat, ProgressDescends, OthersDescend
<1> QED
  BY <1>1, <1>2, <1>3, Inductive, PTL DEF Spec
=============================================================================
