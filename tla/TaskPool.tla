------------------------------ MODULE TaskPool ------------------------------
(***************************************************************************)
(* TaskPool (system/task/task_pool.dream): a fixed set of worker sessions, *)
(* at most two jobs on each, dispatches beyond that waiting in submission  *)
(* order, and a close that waits for every submitted job.                  *)
(*                                                                         *)
(* A pool belongs to one Dream thread, whose code is atomic between two    *)
(* awaits; every action below is one such stretch of a dispatch or of a    *)
(* close, or an event of a worker session.  The interleaving that matters  *)
(* is at the awaits: between a slot being handed to a waiter and the       *)
(* waiter claiming a worker, between a job's reply and its continuation,   *)
(* and between a close going to sleep and the last job finishing.          *)
(***************************************************************************)
EXTENDS Integers, Sequences, FiniteSets

CONSTANTS
    Jobs,        \* the dispatches of one pool, each made at most once
    Closers,     \* the calls of close()
    Size,        \* number of workers; the constructor clamps it at 0
    MaxCrashes   \* bound: how many worker sessions may crash

ASSUME JobsFinite == IsFiniteSet(Jobs)
ASSUME ClosersFinite == IsFiniteSet(Closers)
ASSUME SizeAssumption == Size \in Nat
ASSUME MaxCrashesAssumption == MaxCrashes \in Nat

VARIABLES
    ids,        \* worker -> its session id, 0 once terminated
    loads,      \* worker -> jobs on it
    occupied,   \* slots handed to dispatches
    waiters,    \* dispatches waiting for a slot, oldest first
    active,     \* submitted jobs that have not finished
    closing,    \* close() was called
    changed,    \* the CancellationSource closers wait on, by generation
    fired,      \* the generations of `changed` that are cancelled
    pc,         \* where each dispatch stands
    worker,     \* the worker a dispatch claimed
    session,    \* the session id it dispatched to
    token,      \* its token (or its guard) is cancelled
    wire,       \* what the host call delivered
    result,     \* what the dispatch returned
    cpc,        \* where each close stands
    waitsOn,    \* the generation a close sleeps on
    nextId,     \* the id of the next session the host starts
    failures,   \* crashed sessions the host keeps a failure record of
    crashes,    \* sessions that crashed so far
    terminated  \* sessions given to Task.terminate_host

poolVars == <<ids, loads, occupied, waiters, active, closing, changed, fired>>
jobVars == <<pc, worker, session, token, wire, result>>
closeVars == <<cpc, waitsOn>>
hostVars == <<nextId, failures, crashes, terminated>>
vars == <<poolVars, jobVars, closeVars, hostVars>>

Workers == 1..Size

\* Dispatches that begin() counted and finish() has not.
Submitted == {j \in Jobs : pc[j] \in {"waiting", "granted", "running", "settled"}}
\* Dispatches that hold one of the 2 * Size slots.
Holders == {j \in Jobs : pc[j] \in {"granted", "running", "settled"}}
\* Dispatches counted in loads[w].
JobsOn(w) == {j \in Jobs : pc[j] \in {"running", "settled"} /\ worker[j] = w}

Init ==
    /\ ids = [w \in Workers |-> w]
    /\ loads = [w \in Workers |-> 0]
    /\ occupied = 0
    /\ waiters = <<>>
    /\ active = 0
    /\ closing = FALSE
    /\ changed = 0
    /\ fired = {}
    /\ pc = [j \in Jobs |-> "new"]
    /\ worker = [j \in Jobs |-> 0]
    /\ session = [j \in Jobs |-> 0]
    /\ token = [j \in Jobs |-> FALSE]
    /\ wire = [j \in Jobs |-> "none"]
    /\ result = [j \in Jobs |-> "none"]
    /\ cpc = [c \in Closers |-> "new"]
    /\ waitsOn = [c \in Closers |-> 0]
    /\ nextId = Size + 1
    /\ failures = {}
    /\ crashes = 0
    /\ terminated = {}

-----------------------------------------------------------------------------
(* The synchronous helpers of the class.                                   *)

\* begin(): counts a job in, and opens a new generation of `changed` when
\* the pool was idle.
begin ==
    /\ active' = active + 1
    /\ changed' = IF active = 0 THEN changed + 1 ELSE changed

\* claim(): the first of the least-loaded workers.
LeastLoaded(w) ==
    \A v \in Workers : loads[w] < loads[v] \/ (loads[w] = loads[v] /\ w <= v)

\* try_acquire() answers -1: no slot is free, or others wait for one.
MustWait == occupied >= 2 * Size \/ waiters # <<>>

\* Mutant of release_slot: the slot is handed on and freed as well.
release_slot_twice(p) ==
    IF waiters = <<>>
    THEN /\ occupied' = occupied - 1
         /\ pc' = p
         /\ UNCHANGED waiters
    ELSE /\ pc' = [p EXCEPT ![Head(waiters)] = "granted"]
         /\ waiters' = Tail(waiters)
         /\ occupied' = occupied - 1

\* release_slot(): the oldest waiter inherits the slot, or it becomes free.
\* p is pc with the releasing job's own step already in it.
release_slot(p) ==
    IF waiters = <<>>
    THEN /\ occupied' = occupied - 1
         /\ pc' = p
         /\ UNCHANGED waiters
    ELSE /\ pc' = [p EXCEPT ![Head(waiters)] = "granted"]
         /\ waiters' = Tail(waiters)
         /\ UNCHANGED occupied

\* Mutant of finish: active is tested before it is decremented.
finish_tests_early(j, answer) ==
    /\ release_slot([pc EXCEPT ![j] = "done"])
    /\ result' = [result EXCEPT ![j] = answer]
    /\ active' = active - 1
    /\ fired' = IF active = 0 THEN fired \cup {changed} ELSE fired

\* finish() of a job, with the answer its dispatch returns.
finish(j, answer) ==
    /\ release_slot([pc EXCEPT ![j] = "done"])
    /\ result' = [result EXCEPT ![j] = answer]
    /\ active' = active - 1
    /\ fired' = IF active = 1 THEN fired \cup {changed} ELSE fired

\* Mutant of dispatch_host: the worker is used without counting the job on it.
dispatch_uncounted(j, w) ==
    /\ worker' = [worker EXCEPT ![j] = w]
    /\ session' = [session EXCEPT ![j] = ids[w]]
    /\ pc' = [pc EXCEPT ![j] = "running"]
    /\ UNCHANGED <<loads, wire>>

\* Task.dispatch_host: the session runs the job; a session whose crash is
\* already recorded answers at once with the empty reply.
dispatch_host(j, w) ==
    /\ worker' = [worker EXCEPT ![j] = w]
    /\ session' = [session EXCEPT ![j] = ids[w]]
    /\ loads' = [loads EXCEPT ![w] = @ + 1]
    /\ IF ids[w] \in failures
       THEN /\ pc' = [pc EXCEPT ![j] = "settled"]
            /\ wire' = [wire EXCEPT ![j] = "lost"]
       ELSE /\ pc' = [pc EXCEPT ![j] = "running"]
            /\ UNCHANGED wire

-----------------------------------------------------------------------------
(* The stretches of dispatch_owned / dispatch_async_owned.                 *)

\* The early returns of a dispatch, in their order; "none" lets it through.
RejectReason(j) ==
    IF Size = 0 THEN "InvalidSize"
    ELSE IF closing THEN "Closed"
    ELSE IF token[j] THEN "Cancelled"
    ELSE "none"

\* Refused before anything is counted.
dispatch_rejected(j) ==
    /\ pc[j] = "new" /\ RejectReason(j) # "none"
    /\ pc' = [pc EXCEPT ![j] = "done"]
    /\ result' = [result EXCEPT ![j] = RejectReason(j)]
    /\ UNCHANGED <<poolVars, worker, session, token, wire, closeVars, hostVars>>

\* Up to the await of wait_worker: no slot, so the dispatch queues a ticket.
dispatch_waits(j) ==
    /\ pc[j] = "new" /\ RejectReason(j) = "none"
    /\ MustWait
    /\ begin
    /\ waiters' = Append(waiters, j)
    /\ pc' = [pc EXCEPT ![j] = "waiting"]
    /\ UNCHANGED <<ids, loads, occupied, closing, fired, worker, session,
                   token, wire, result, closeVars, hostVars>>

\* Up to the await of dispatch_host: a slot is free.
dispatch_starts(j) ==
    /\ pc[j] = "new" /\ RejectReason(j) = "none"
    /\ ~MustWait
    /\ begin
    /\ occupied' = occupied + 1
    /\ \E w \in Workers : LeastLoaded(w) /\ dispatch_host(j, w)
    /\ UNCHANGED <<ids, waiters, closing, fired, token, result, closeVars, hostVars>>

\* Mutant of granted_starts: a granted dispatch no longer starts once close
\* was called.
granted_not_closing(j) ==
    /\ pc[j] = "granted" /\ ~token[j] /\ ~closing
    /\ \E w \in Workers : LeastLoaded(w) /\ dispatch_host(j, w)
    /\ UNCHANGED <<ids, occupied, waiters, active, closing, changed, fired,
                   token, result, closeVars, hostVars>>

\* wait_worker resumes with a slot and claims a worker for it.
granted_starts(j) ==
    /\ pc[j] = "granted" /\ ~token[j]
    /\ \E w \in Workers : LeastLoaded(w) /\ dispatch_host(j, w)
    /\ UNCHANGED <<ids, occupied, waiters, active, closing, changed, fired,
                   token, result, closeVars, hostVars>>

\* It resumes cancelled: the claimed worker is given back before any job is
\* sent to it (the claim and its release leave loads as they were).
granted_cancelled(j) ==
    /\ pc[j] = "granted" /\ token[j]
    /\ finish(j, "Cancelled")
    /\ UNCHANGED <<ids, loads, closing, changed, worker, session, token, wire,
                   closeVars, hostVars>>

\* Mutant of Crashed: only the failure record is asked for.
crashed_by_record(j) == session[j] \in failures

\* crashed(worker, id): another job already replaced the session, or the
\* session has a failure record.
Crashed(j) == ids[worker[j]] # session[j] \/ session[j] \in failures

\* Mutant of replace_session: the crashed session is never terminated.
replace_leaks(j) ==
    IF ids[worker[j]] = session[j] /\ session[j] \in failures
    THEN /\ ids' = [ids EXCEPT ![worker[j]] = nextId]
         /\ nextId' = nextId + 1
         /\ failures' = failures \ {session[j]}
         /\ UNCHANGED terminated
    ELSE UNCHANGED <<ids, nextId, failures, terminated>>

\* crashed(): the first job to see the failure terminates the session, which
\* also drops its failure record, and starts a fresh one.
replace_session(j) ==
    IF ids[worker[j]] = session[j] /\ session[j] \in failures
    THEN /\ ids' = [ids EXCEPT ![worker[j]] = nextId]
         /\ nextId' = nextId + 1
         /\ failures' = failures \ {session[j]}
         /\ terminated' = terminated \cup {session[j]}
    ELSE UNCHANGED <<ids, nextId, failures, terminated>>

\* The continuation of dispatch_host(...).await.
job_resumes(j) ==
    /\ pc[j] = "settled"
    /\ replace_session(j)
    /\ loads' = [loads EXCEPT ![worker[j]] = @ - 1]
    /\ finish(j, IF Crashed(j) THEN "WorkerCrashed"
                 ELSE IF token[j] THEN "Cancelled" ELSE "Ok")
    /\ UNCHANGED <<closing, changed, worker, session, token, wire, closeVars, crashes>>

\* The caller's token, or the dispatch's own guard, is cancelled at any time.
cancel(j) ==
    /\ pc[j] # "done" /\ ~token[j]
    /\ token' = [token EXCEPT ![j] = TRUE]
    /\ UNCHANGED <<poolVars, pc, worker, session, wire, result, closeVars, hostVars>>

-----------------------------------------------------------------------------
(* close_owned and the destructor.                                         *)

\* terminate(): every session that is left, once.
terminate ==
    /\ terminated' = terminated \cup {ids[w] : w \in {v \in Workers : ids[v] # 0}}
    /\ failures' = failures \ {ids[w] : w \in Workers}
    /\ ids' = [w \in Workers |-> 0]

\* The loop of close_owned from its first line or from its await.
close_loop(c) ==
    IF active > 0
    THEN /\ cpc' = [cpc EXCEPT ![c] = "waiting"]
         /\ waitsOn' = [waitsOn EXCEPT ![c] = changed]
         /\ UNCHANGED <<ids, failures, terminated>>
    ELSE /\ cpc' = [cpc EXCEPT ![c] = "done"]
         /\ terminate
         /\ UNCHANGED waitsOn

close_starts(c) ==
    /\ cpc[c] = "new"
    /\ closing' = TRUE
    /\ close_loop(c)
    /\ UNCHANGED <<loads, occupied, waiters, active, changed, fired, jobVars,
                   nextId, crashes>>

close_resumes(c) ==
    /\ cpc[c] = "waiting" /\ waitsOn[c] \in fired
    /\ close_loop(c)
    /\ UNCHANGED <<loads, occupied, waiters, active, closing, changed, fired,
                   jobVars, nextId, crashes>>

-----------------------------------------------------------------------------
(* The worker sessions (native threads, browser or Node workers).          *)

\* The reply of a job reaches the pool's thread.
job_replies(j) ==
    /\ pc[j] = "running"
    /\ pc' = [pc EXCEPT ![j] = "settled"]
    /\ wire' = [wire EXCEPT ![j] = "value"]
    /\ UNCHANGED <<poolVars, worker, session, token, result, closeVars, hostVars>>

\* A session crashes: every job it owes is settled with the empty reply and
\* the failure is recorded.  A reply that arrived before has resumed its
\* dispatch by then: the JS host drains the run loop in a microtask of the
\* event that delivered the reply, before the event of the crash.
session_crashes(w) ==
    LET s == ids[w]
        owed == {j \in Jobs : pc[j] = "running" /\ session[j] = s}
    IN  /\ crashes < MaxCrashes
        /\ s # 0 /\ s \notin failures
        /\ \A j \in Jobs : pc[j] = "settled" => session[j] # s
        /\ failures' = failures \cup {s}
        /\ crashes' = crashes + 1
        /\ pc' = [j \in Jobs |-> IF j \in owed THEN "settled" ELSE pc[j]]
        /\ wire' = [j \in Jobs |-> IF j \in owed THEN "lost" ELSE wire[j]]
        /\ UNCHANGED <<poolVars, worker, session, token, result, closeVars,
                       nextId, terminated>>

-----------------------------------------------------------------------------
\* Everything was dispatched, closed and answered.
Finished ==
    /\ \A j \in Jobs : pc[j] = "done"
    /\ \A c \in Closers : cpc[c] = "done"
    /\ UNCHANGED vars

Job(j) ==
    \/ dispatch_rejected(j) \/ dispatch_waits(j) \/ dispatch_starts(j)
    \/ granted_starts(j) \/ granted_cancelled(j) \/ job_resumes(j)

Close(c) == close_starts(c) \/ close_resumes(c)

Next ==
    \/ \E j \in Jobs : Job(j) \/ cancel(j) \/ job_replies(j)
    \/ \E c \in Closers : Close(c)
    \/ \E w \in Workers : session_crashes(w)
    \/ Finished

Spec == Init /\ [][Next]_vars

\* Ready continuations run (the run loop drains its ready queue), a job ends
\* unless its session crashes, and a call of dispatch or close is made or not.
Fairness ==
    /\ \A j \in Jobs :
        WF_vars(granted_starts(j) \/ granted_cancelled(j) \/ job_resumes(j) \/ job_replies(j))
    /\ \A c \in Closers : WF_vars(close_resumes(c))

FairSpec == Spec /\ Fairness

-----------------------------------------------------------------------------
(* Properties.                                                             *)

\* Type invariant: in particular loads, occupied and active never go below
\* zero.
TypeOK ==
    /\ ids \in [Workers -> Nat]
    /\ loads \in [Workers -> Nat]
    /\ occupied \in Nat
    /\ waiters \in Seq(Jobs)
    /\ active \in Nat
    /\ closing \in BOOLEAN
    /\ changed \in Nat
    /\ fired \subseteq Nat
    /\ pc \in [Jobs -> {"new", "waiting", "granted", "running", "settled", "done"}]
    /\ worker \in [Jobs -> Nat]
    /\ session \in [Jobs -> Nat]
    /\ token \in [Jobs -> BOOLEAN]
    /\ wire \in [Jobs -> {"none", "value", "lost"}]
    /\ result \in [Jobs -> {"none", "InvalidSize", "Closed", "Cancelled",
                            "WorkerCrashed", "Ok"}]
    /\ cpc \in [Closers -> {"new", "waiting", "done"}]
    /\ waitsOn \in [Closers -> Nat]
    /\ nextId \in Nat
    /\ failures \subseteq Nat
    /\ crashes \in 0..MaxCrashes
    /\ terminated \subseteq Nat

\* "Each worker holds at most two jobs": although a granted slot claims its
\* worker only later, in any order, no worker is ever claimed a third time.
TwoPerWorker == \A w \in Workers : loads[w] <= 2

\* The slot counter is exactly the dispatches that hold a slot, through every
\* hand-over, cancellation and crash; nobody waits while a slot is free.
SlotAccounting ==
    /\ occupied = Cardinality(Holders)
    /\ occupied <= 2 * Size
    /\ waiters # <<>> => occupied = 2 * Size

\* Slots are handed out exactly, and that bounds what a worker holds.
SlotsBoundLoad == TwoPerWorker /\ SlotAccounting

\* close() terminates no session a submitted job will still use: a dispatch
\* that waits, was granted or runs finds a live session.
NoWorkLost ==
    /\ Submitted # {} => \A w \in Workers : ids[w] # 0
    /\ \A j \in Jobs : pc[j] = "running" => session[j] \notin terminated

\* Every session started is either still in ids or was terminated, never both:
\* replacing crashed sessions neither leaks one nor terminates one twice.
SessionsOwned ==
    (1..(nextId - 1)) \ terminated = {ids[w] : w \in {v \in Workers : ids[v] # 0}}

\* Closing and replacing keep the sessions that are needed, and only those.
SessionsKept == NoWorkLost /\ SessionsOwned

\* A close that sleeps will be woken: its generation has fired, or it is the
\* current one and a job is left whose finish() fires it.
CloseNotStranded ==
    \A c \in Closers :
        cpc[c] = "waiting" =>
            waitsOn[c] \in fired \/ (waitsOn[c] = changed /\ active > 0)

\* The answer tells the truth about the job: the empty reply of a crashed
\* session is always reported as WorkerCrashed, by every job the session owed
\* whichever resumes first, and a reply that arrived is never reported so.
CrashReported ==
    \A j \in Jobs :
        pc[j] = "done" =>
            /\ wire[j] = "lost" <=> result[j] = "WorkerCrashed"
            /\ result[j] = "Ok" => wire[j] = "value"

\* Every submitted job is answered, and close returns, however cancellations,
\* crashes and hand-overs fall.
EveryCallReturns ==
    /\ \A j \in Jobs : j \in Submitted ~> pc[j] = "done"
    /\ \A c \in Closers : cpc[c] = "waiting" ~> cpc[c] = "done"

=============================================================================
