----------------------------- MODULE WorkerPool -----------------------------
(***************************************************************************)
(* The native worker sessions and their thread pool (sys/native/worker.c). *)
(*                                                                         *)
(* A session (struct Worker) is registered under an id and reference       *)
(* counted: the registry holds one reference, every call that looked the   *)
(* id up one, and the pool thread that serves the session one.  A dispatch *)
(* queues a job and, when the session has no thread, binds one; at the     *)
(* pool's limit the session waits in a run queue.  Threads that block give *)
(* their place up, a monitor admits one more thread when the saturated     *)
(* queue stands still, and shutdown and terminate may come at any moment   *)
(* from any thread.                                                        *)
(*                                                                         *)
(* One action is one critical section (reg_mu, w->mu, pool_mu, or w->mu    *)
(* with pool_mu inside) or the code between two of them.                   *)
(***************************************************************************)
EXTENDS Integers, Sequences, FiniteSets

CONSTANTS
    Sessions,   \* the sessions workerSpawn makes
    Jobs,       \* the calls of workerDispatchAsync, each made once
    Threads,    \* bound: names for the pool's threads, more than it ever has at once
    On,         \* job -> the session it is dispatched to
    OneShot,    \* the sessions spawned for a single job
    Keeps,      \* the sessions that own a native callback
    Waits,      \* job -> jobs it waits for in an instrumented wait
    Spins,      \* job -> jobs it waits for without one
    Shut,       \* the sessions a workerShutdown may be called on
    Ended,      \* the sessions a workerTerminate may be called on
    Limit,      \* pool_limit: the usable CPUs
    IdleMax,    \* POOL_IDLE_MAX
    MaxRefusals, \* bound: how often the system refuses to create a thread
    None        \* no session, no job

ASSUME SetsFinite == IsFiniteSet(Sessions) /\ IsFiniteSet(Jobs) /\ IsFiniteSet(Threads)
ASSUME NoneAssumption == None \notin Sessions /\ None \notin Jobs
ASSUME TargetAssumption == On \in [Jobs -> Sessions]
ASSUME DependAssumption == Waits \in [Jobs -> SUBSET Jobs] /\ Spins \in [Jobs -> SUBSET Jobs]
ASSUME LimitAssumption == Limit \in Nat \ {0} /\ IdleMax \in Nat /\ MaxRefusals \in Nat

VARIABLES
    w,          \* the session structs
    spawned,    \* sessions whose id exists
    registered, \* sessions the id table still finds
    freed,      \* sessions destroy_worker has freed
    runq,       \* the run queue
    running,    \* pool_running
    injected,   \* pool_injected
    idle,       \* idle_threads, last parked first
    refusals,   \* thread creations that failed
    watching,   \* monitor_watching
    stalled,    \* nothing was dequeued since the monitor looked
    mon,        \* the monitor thread
    tpc,        \* where each pool thread is
    word,       \* its futex word
    tw,         \* the session it serves or is assigned
    tj,         \* the job it runs
    tf,         \* the future it has to complete
    dpc,        \* each dispatch call
    xpc,        \* each workerTerminate call, by session
    xf,         \* the futures it took in stop_worker
    spc,        \* each workerShutdown call, by session
    sf,         \* the futures it took in stop_worker
    completed,  \* how often each job's future was completed
    panicked    \* the process has ended in a panic

sessionVars == <<w, spawned, registered, freed>>
poolVars == <<runq, running, injected, idle, refusals>>
monVars == <<watching, stalled, mon>>
threadVars == <<tpc, word, tw, tj, tf>>
callVars == <<dpc, xpc, xf, spc, sf>>
vars == <<sessionVars, poolVars, monVars, threadVars, callVars, completed, panicked>>

FreshSession ==
    [refs |-> 0, queue |-> <<>>, active |-> None, busy |-> FALSE, dead |-> FALSE,
     bound |-> FALSE, parked |-> FALSE, detached |-> FALSE]

Init ==
    /\ w = [s \in Sessions |-> FreshSession]
    /\ spawned = {} /\ registered = {} /\ freed = {}
    /\ runq = <<>> /\ running = 0 /\ injected = 0 /\ idle = <<>> /\ refusals = 0
    /\ watching = FALSE /\ stalled = FALSE /\ mon = "none"
    /\ tpc = [t \in Threads |-> "none"]
    /\ word = [t \in Threads |-> "IDLE"]
    /\ tw = [t \in Threads |-> None]
    /\ tj = [t \in Threads |-> None]
    /\ tf = [t \in Threads |-> None]
    /\ dpc = [j \in Jobs |-> "new"]
    /\ xpc = [s \in Sessions |-> "new"]
    /\ xf = [s \in Sessions |-> {}]
    /\ spc = [s \in Sessions |-> "new"]
    /\ sf = [s \in Sessions |-> {}]
    /\ completed = [j \in Jobs |-> 0]
    /\ panicked = FALSE

-----------------------------------------------------------------------------
(* Helpers.                                                                *)

Elems(q) == {q[i] : i \in 1..Len(q)}

\* q without s, which it holds at most once.
Without(q, s) ==
    IF s \in Elems(q)
    THEN LET i == CHOOSE i \in 1..Len(q) : q[i] = s
         IN  SubSeq(q, 1, i - 1) \o SubSeq(q, i + 1, Len(q))
    ELSE q

\* dream_complete_foreign_owned on each future of a set (0 is no future).
complete(J) ==
    completed' = [j \in Jobs |-> completed[j] + (IF j \in J THEN 1 ELSE 0)]

pool_capacity == Limit + injected

\* start_thread may fail only when it has to create a thread.
MayFail == idle = <<>> /\ refusals < MaxRefusals
start_fails == MayFail /\ refusals' = refusals + 1 /\ UNCHANGED <<idle, word, tw>>

\* start_thread: hands s to an idle thread, waking it if it parked, or to a
\* new one.  P is tpc with the caller's own step in it.
start_thread(s, P) ==
    /\ UNCHANGED refusals
    /\ IF idle # <<>>
       THEN LET t == Head(idle) IN
            /\ idle' = Tail(idle)
            /\ word' = [word EXCEPT ![t] = "ASSIGNED"]
            /\ tw' = [tw EXCEPT ![t] = s]
            /\ tpc' = IF word[t] = "PARKED" THEN [P EXCEPT ![t] = "serve"] ELSE P
       ELSE LET t == CHOOSE u \in Threads : tpc[u] = "none" IN
            /\ \E u \in Threads : tpc[u] = "none"
            /\ word' = [word EXCEPT ![t] = "ASSIGNED"]
            /\ tw' = [tw EXCEPT ![t] = s]
            /\ tpc' = [P EXCEPT ![t] = "serve"]
            /\ UNCHANGED idle

\* Mutant: a failed start stays counted in pool_running.
start_queued_counts_failure(r, P) ==
    \/ /\ start_thread(Head(runq), P)
       /\ runq' = Tail(runq)
       /\ running' = r + 1
       /\ stalled' = FALSE
    \/ /\ start_fails
       /\ running' = r + 1
       /\ tpc' = P
       /\ UNCHANGED <<runq, stalled>>

\* start_queued_locked with r threads running: the head of the run queue gets
\* a thread, or stays at the head when none can be started.
start_queued(r, P) ==
    \/ /\ start_thread(Head(runq), P)
       /\ runq' = Tail(runq)
       /\ running' = r + 1
       /\ stalled' = FALSE
    \/ /\ start_fails
       /\ running' = r
       /\ tpc' = P
       /\ UNCHANGED <<runq, stalled>>

\* pool_blocking(1): the thread gives its place to a queued session.
pool_blocking(P) ==
    IF runq # <<>> /\ running - 1 < pool_capacity
    THEN start_queued(running - 1, P)
    ELSE /\ running' = running - 1
         /\ tpc' = P
         /\ UNCHANGED <<runq, idle, refusals, word, tw, stalled>>

\* tpc once the serving thread, if it waits on the condition variable of s, is woken.
Signalled(s) ==
    [t \in Threads |-> IF tpc[t] = "cond" /\ tw[t] = s THEN "resume" ELSE tpc[t]]

\* Mutant: tests the new value of the count where the old one is meant.
drop_ref_early(s, v, J) ==
    /\ w' = [w EXCEPT ![s] = [v EXCEPT !.refs = @ - 1]]
    /\ IF v.refs = 2
       THEN freed' = freed \cup {s} /\ complete(J \cup Elems(v.queue))
       ELSE UNCHANGED freed /\ complete(J)

\* Dropping a reference of s, the struct being v otherwise; the last one runs
\* destroy_worker, which cancels the jobs still queued.
drop_ref(s, v, J) ==
    /\ w' = [w EXCEPT ![s] = [v EXCEPT !.refs = @ - 1]]
    /\ IF v.refs = 1
       THEN freed' = freed \cup {s} /\ complete(J \cup Elems(v.queue))
       ELSE UNCHANGED freed /\ complete(J)

-----------------------------------------------------------------------------
(* workerSpawn and workerDispatchAsync.                                    *)

workerSpawn(s) ==
    /\ s \notin spawned
    /\ spawned' = spawned \cup {s}
    /\ registered' = registered \cup {s}
    /\ w' = [w EXCEPT ![s].refs = 1]
    /\ UNCHANGED <<freed, poolVars, monVars, threadVars, callVars, completed, panicked>>

\* acquire_worker; an id that is gone answers the future at once.
dispatch_acquire(j) ==
    LET s == On[j] IN
    /\ dpc[j] = "new" /\ s \in spawned
    /\ IF s \in registered
       THEN /\ w' = [w EXCEPT ![s].refs = @ + 1]
            /\ dpc' = [dpc EXCEPT ![j] = "enqueue"]
            /\ UNCHANGED completed
       ELSE /\ complete({j})
            /\ dpc' = [dpc EXCEPT ![j] = "done"]
            /\ UNCHANGED w
    /\ UNCHANGED <<spawned, registered, freed, poolVars, monVars, threadVars,
                   xpc, xf, spc, sf, panicked>>

\* enqueue refuses a dead session, and a second job of a one-shot session.
Refused(s) == w[s].dead \/ (s \in OneShot /\ w[s].bound)

\* Mutant: every accepted job asks for a thread.
enqueue_always_binds(j) ==
    LET s == On[j] IN
    /\ dpc[j] = "enqueue"
    /\ IF Refused(s)
       THEN /\ dpc' = [dpc EXCEPT ![j] = "refused"]
            /\ UNCHANGED <<w, tpc>>
       ELSE /\ dpc' = [dpc EXCEPT ![j] = "bind"]
            /\ w' = [w EXCEPT ![s].queue = Append(@, j),
                              ![s].bound = TRUE,
                              ![s].parked = FALSE]
            /\ tpc' = IF w[s].parked THEN Signalled(s) ELSE tpc
    /\ UNCHANGED <<spawned, registered, freed, poolVars, monVars, word, tw, tj, tf,
                   xpc, xf, spc, sf, completed, panicked>>

\* enqueue, under w->mu: the one linearization point with termination.
enqueue(j) ==
    LET s == On[j] IN
    /\ dpc[j] = "enqueue"
    /\ IF Refused(s)
       THEN /\ dpc' = [dpc EXCEPT ![j] = "refused"]
            /\ UNCHANGED <<w, tpc>>
       ELSE /\ dpc' = [dpc EXCEPT ![j] = IF w[s].bound THEN "release" ELSE "bind"]
            /\ w' = [w EXCEPT ![s].queue = Append(@, j),
                              ![s].bound = TRUE,
                              ![s].parked = FALSE]
            /\ tpc' = IF w[s].parked THEN Signalled(s) ELSE tpc
    /\ UNCHANGED <<spawned, registered, freed, poolVars, monVars, word, tw, tj, tf,
                   xpc, xf, spc, sf, completed, panicked>>

\* monitor_watch_locked: starts the monitor unless the system refuses the
\* thread, or signals it if it sleeps.
monitor_watch ==
    \/ /\ mon' = IF mon = "none" \/ (~watching /\ mon = "sleep") THEN "check" ELSE mon
       /\ watching' = TRUE
       /\ UNCHANGED <<stalled, refusals>>
    \/ /\ mon = "none" /\ refusals < MaxRefusals
       /\ refusals' = refusals + 1
       /\ UNCHANGED monVars


\* bind_thread: the thread's reference, and assign_thread.
bind_thread(j) ==
    LET s == On[j] IN
    /\ dpc[j] = "bind"
    /\ w' = [w EXCEPT ![s].refs = @ + 1]
    /\ \/ /\ running >= pool_capacity
          /\ runq' = Append(runq, s)
          /\ monitor_watch
          /\ UNCHANGED <<registered, running, idle, word, tw, tpc, panicked>>
       \/ /\ running < pool_capacity
          /\ running' = running + 1
          /\ start_thread(s, tpc)
          /\ UNCHANGED <<registered, runq, monVars, panicked>>
       \/ /\ running < pool_capacity /\ running > 0
          /\ start_fails
          /\ runq' = Append(runq, s)
          /\ UNCHANGED <<registered, running, tpc, monVars, panicked>>
       \/ /\ running = 0
          /\ start_fails
          /\ panicked' = TRUE
          /\ registered' = registered \ {s}
          /\ UNCHANGED <<runq, running, tpc, monVars>>
    /\ dpc' = [dpc EXCEPT ![j] = IF panicked' THEN @ ELSE "release"]
    /\ UNCHANGED <<spawned, freed, injected, tj, tf, xpc, xf, spc, sf, completed>>

\* release_job of a refused job.
dispatch_refused(j) ==
    /\ dpc[j] = "refused"
    /\ complete({j})
    /\ dpc' = [dpc EXCEPT ![j] = "release"]
    /\ UNCHANGED <<sessionVars, poolVars, monVars, threadVars, xpc, xf, spc, sf, panicked>>

dispatch_release(j) ==
    /\ dpc[j] = "release"
    /\ drop_ref(On[j], w[On[j]], {})
    /\ dpc' = [dpc EXCEPT ![j] = "done"]
    /\ UNCHANGED <<spawned, registered, poolVars, monVars, threadVars, xpc, xf, spc, sf,
                   panicked>>

-----------------------------------------------------------------------------
(* run_worker and worker_main.                                             *)

\* The thread takes the next job.
take_job(t) ==
    LET s == tw[t] IN
    /\ tpc[t] = "serve" /\ w[s].queue # <<>> /\ ~w[s].dead
    /\ w' = [w EXCEPT ![s].queue = Tail(@), ![s].busy = TRUE,
                      ![s].active = Head(w[s].queue)]
    /\ tj' = [tj EXCEPT ![t] = Head(w[s].queue)]
    /\ tpc' = [tpc EXCEPT ![t] = "run"]
    /\ UNCHANGED <<spawned, registered, freed, poolVars, monVars, word, tw, tf,
                   callVars, completed, panicked>>

\* An idle session that owns a native callback keeps its thread, parked.
park_session(t) ==
    LET s == tw[t] IN
    /\ tpc[t] = "serve" /\ w[s].queue = <<>> /\ ~w[s].dead /\ s \in Keeps
    /\ w' = [w EXCEPT ![s].parked = TRUE]
    /\ pool_blocking([tpc EXCEPT ![t] = "cond"])
    /\ UNCHANGED <<spawned, registered, freed, injected, watching, mon, tj, tf,
                   callVars, completed, panicked>>

\* Mutant: the second blocking hook is missing.
unpark_uncounted(t) ==
    /\ tpc[t] = "resume"
    /\ w' = [w EXCEPT ![tw[t]].parked = FALSE]
    /\ tpc' = [tpc EXCEPT ![t] = "serve"]
    /\ UNCHANGED <<spawned, registered, freed, runq, running, injected, idle, refusals, monVars, word, tw,
                   tj, tf, callVars, completed, panicked>>

\* dream_cond_wait returns: the thread counts as running again.
unpark_session(t) ==
    /\ tpc[t] = "resume"
    /\ running' = running + 1
    /\ w' = [w EXCEPT ![tw[t]].parked = FALSE]
    /\ tpc' = [tpc EXCEPT ![t] = "serve"]
    /\ UNCHANGED <<spawned, registered, freed, runq, injected, idle, refusals, monVars, word, tw,
                   tj, tf, callVars, completed, panicked>>

\* Nothing to serve: the thread leaves w->mu for owner_finish.
leave_session(t) ==
    LET s == tw[t] IN
    /\ tpc[t] = "serve"
    /\ w[s].dead \/ (w[s].queue = <<>> /\ s \notin Keeps)
    /\ tpc' = [tpc EXCEPT ![t] = "finish"]
    /\ UNCHANGED <<sessionVars, poolVars, monVars, word, tw, tj, tf, callVars,
                   completed, panicked>>

\* Back under w->mu: a post that came meanwhile is served, otherwise the thread
\* releases the session, its reference together with bound.
unbind(t) ==
    LET s == tw[t] IN
    /\ tpc[t] = "finish"
    /\ IF w[s].queue # <<>> /\ ~w[s].dead
       THEN /\ tpc' = [tpc EXCEPT ![t] = "serve"]
            /\ UNCHANGED <<w, freed, tw, xpc, completed>>
       ELSE /\ drop_ref(s, [w[s] EXCEPT !.bound = FALSE], {})
            /\ xpc' = [xpc EXCEPT ![s] = IF @ = "wait" THEN "look" ELSE @]
            /\ tpc' = [tpc EXCEPT ![t] = "after"]
            /\ tw' = [tw EXCEPT ![t] = None]
    /\ UNCHANGED <<spawned, registered, poolVars, monVars, word, tj, tf, dpc, xf,
                   spc, sf, panicked>>

\* The job's body waits for other jobs: an instrumented wait gives the pool
\* slot up and takes it back.
job_blocks(t) ==
    /\ tpc[t] = "run"
    /\ \E k \in Waits[tj[t]] : completed[k] = 0
    /\ pool_blocking([tpc EXCEPT ![t] = "blocked"])
    /\ UNCHANGED <<sessionVars, injected, watching, mon, tj, tf, callVars, completed, panicked>>

job_unblocks(t) ==
    /\ tpc[t] = "blocked"
    /\ \A k \in Waits[tj[t]] : completed[k] > 0
    /\ running' = running + 1
    /\ tpc' = [tpc EXCEPT ![t] = "run"]
    /\ UNCHANGED <<sessionVars, runq, injected, idle, refusals, monVars, word, tw, tj, tf,
                   callVars, completed, panicked>>

\* dream_worker_invoke returned; the future is still this thread's unless a
\* stop took it.
job_ends(t) ==
    LET s == tw[t] IN
    /\ tpc[t] = "run"
    /\ \A k \in Waits[tj[t]] \cup Spins[tj[t]] : completed[k] > 0
    /\ tf' = [tf EXCEPT ![t] = w[s].active]
    /\ w' = [w EXCEPT ![s].busy = FALSE, ![s].active = None,
                      ![s].dead = @ \/ s \in OneShot]
    /\ tpc' = [tpc EXCEPT ![t] = "reply"]
    /\ UNCHANGED <<spawned, registered, freed, poolVars, monVars, word, tw, tj, callVars,
                   completed, panicked>>


\* The reply is delivered, except that a one-shot session keeps it until the
\* thread has left the session.
reply(t) ==
    /\ tpc[t] = "reply"
    /\ IF tw[t] \in OneShot
       THEN UNCHANGED <<tf, completed>>
       ELSE complete({tf[t]}) /\ tf' = [tf EXCEPT ![t] = None]
    /\ tj' = [tj EXCEPT ![t] = None]
    /\ tpc' = [tpc EXCEPT ![t] = "serve"]
    /\ UNCHANGED <<sessionVars, poolVars, monVars, word, tw, callVars, panicked>>

\* A finishing thread serves the next queued session, unless the pool is over
\* its capacity after a blocked thread resumed.
MayTakeBelow == runq # <<>> /\ running < pool_capacity
MayTake == runq # <<>> /\ running <= pool_capacity

\* worker_main, under pool_mu: next queued session, idle list, or exit.
thread_next(t) ==
    /\ tpc[t] = "after"
    /\ MayTake
    /\ tw' = [tw EXCEPT ![t] = Head(runq)]
    /\ runq' = Tail(runq)
    /\ stalled' = FALSE
    /\ tpc' = [tpc EXCEPT ![t] = "deliver"]
    /\ UNCHANGED <<sessionVars, running, injected, idle, refusals, watching, mon, word, tj, tf,
                   callVars, completed, panicked>>


thread_retires(t) ==
    /\ tpc[t] = "after"
    /\ ~MayTake
    /\ running' = running - 1
    /\ injected' = IF runq = <<>> THEN 0 ELSE injected
    /\ IF Len(idle) >= IdleMax
       THEN /\ tpc' = [tpc EXCEPT ![t] = "deliver_exit"]
            /\ UNCHANGED <<word, idle>>
       ELSE /\ tpc' = [tpc EXCEPT ![t] = "deliver_park"]
            /\ word' = [word EXCEPT ![t] = "IDLE"]
            /\ idle' = <<t>> \o idle
    /\ UNCHANGED <<sessionVars, runq, refusals, monVars, tw, tj, tf, callVars, completed, panicked>>

\* The one-shot reply, after the thread is available again.
deliver(t) ==
    /\ tpc[t] \in {"deliver", "deliver_exit", "deliver_park"}
    /\ complete({tf[t]})
    /\ tf' = [tf EXCEPT ![t] = None]
    /\ tpc' = [tpc EXCEPT ![t] = CASE @ = "deliver" -> "serve"
                                   [] @ = "deliver_exit" -> "none"
                                   [] @ = "deliver_park" -> "park"]
    /\ UNCHANGED <<sessionVars, poolVars, monVars, word, tw, tj, callVars, panicked>>

\* The idle thread parks on its word unless it was assigned meanwhile.
park_thread(t) ==
    /\ tpc[t] = "park"
    /\ IF word[t] = "IDLE"
       THEN /\ word' = [word EXCEPT ![t] = "PARKED"]
            /\ tpc' = [tpc EXCEPT ![t] = "parked"]
       ELSE /\ tpc' = [tpc EXCEPT ![t] = "serve"]
            /\ UNCHANGED word
    /\ UNCHANGED <<sessionVars, poolVars, monVars, tw, tj, tf, callVars, completed, panicked>>

-----------------------------------------------------------------------------
(* pool_monitor.                                                           *)

MonitorNeeded == runq # <<>> /\ running >= pool_capacity

\* The wait at the top of the loop, and taking `seen`.
monitor_check ==
    /\ mon = "check"
    /\ IF MonitorNeeded
       THEN mon' = "timed" /\ watching' = TRUE /\ stalled' = TRUE
       ELSE mon' = "sleep" /\ watching' = FALSE /\ UNCHANGED stalled
    /\ UNCHANGED <<sessionVars, poolVars, threadVars, callVars, completed, panicked>>

\* Mutant: the stall test is inverted.
timeout_never_injects ==
    /\ mon = "timed"
    /\ mon' = "check"
    /\ IF MonitorNeeded /\ ~stalled
       THEN injected' = injected + 1 /\ start_queued(running, tpc)
       ELSE UNCHANGED <<injected, runq, running, idle, refusals, tpc, word, tw, stalled>>
    /\ UNCHANGED <<sessionVars, watching, tj, tf, callVars, completed, panicked>>

\* POOL_STARVATION_NS passed: a queue that stood still gets one more thread.
monitor_timeout ==
    /\ mon = "timed"
    /\ mon' = "check"
    /\ IF MonitorNeeded /\ stalled
       THEN injected' = injected + 1 /\ start_queued(running, tpc)
       ELSE UNCHANGED <<injected, runq, running, idle, refusals, tpc, word, tw, stalled>>
    /\ UNCHANGED <<sessionVars, watching, tj, tf, callVars, completed, panicked>>

-----------------------------------------------------------------------------
(* stop_worker, workerShutdown and workerTerminate.                        *)

\* Mutant: the running job keeps its future as well.
StoppedKeepsActive(s) ==
    [w[s] EXCEPT !.dead = TRUE, !.queue = <<>>, !.active = @,
                 !.detached = @ \/ w[s].busy]

\* stop_worker under w->mu: the session dies and its futures change hands.
Stopped(s) ==
    [w[s] EXCEPT !.dead = TRUE, !.queue = <<>>, !.active = None,
                 !.detached = @ \/ w[s].busy]
Taken(s) == Elems(w[s].queue) \cup ({w[s].active} \ {None})

shutdown_acquire(s) ==
    /\ spc[s] = "new" /\ s \in Shut /\ s \in registered
    /\ w' = [w EXCEPT ![s].refs = @ + 1]
    /\ spc' = [spc EXCEPT ![s] = "stop"]
    /\ UNCHANGED <<spawned, registered, freed, poolVars, monVars, threadVars,
                   dpc, xpc, xf, sf, completed, panicked>>

shutdown_stop(s) ==
    /\ spc[s] = "stop"
    /\ w' = [w EXCEPT ![s] = Stopped(s)]
    /\ sf' = [sf EXCEPT ![s] = Taken(s)]
    /\ tpc' = Signalled(s)
    /\ xpc' = [xpc EXCEPT ![s] = IF @ = "wait" THEN "look" ELSE @]
    /\ spc' = [spc EXCEPT ![s] = "complete"]
    /\ UNCHANGED <<spawned, registered, freed, poolVars, monVars, word, tw, tj, tf,
                   dpc, xf, completed, panicked>>

shutdown_completes(s) ==
    /\ spc[s] = "complete"
    /\ complete(sf[s])
    /\ sf' = [sf EXCEPT ![s] = {}]
    /\ spc' = [spc EXCEPT ![s] = "release"]
    /\ UNCHANGED <<sessionVars, poolVars, monVars, threadVars, dpc, xpc, xf, panicked>>

shutdown_release(s) ==
    /\ spc[s] = "release"
    /\ drop_ref(s, w[s], {})
    /\ spc' = [spc EXCEPT ![s] = "done"]
    /\ UNCHANGED <<spawned, registered, poolVars, monVars, threadVars, dpc, xpc, xf, sf,
                   panicked>>

\* take_worker: the call inherits the registry's reference.
terminate_take(s) ==
    /\ xpc[s] = "new" /\ s \in Ended /\ s \in registered
    /\ registered' = registered \ {s}
    /\ xpc' = [xpc EXCEPT ![s] = "stop"]
    /\ UNCHANGED <<w, spawned, freed, poolVars, monVars, threadVars, dpc, xf, spc, sf,
                   completed, panicked>>

terminate_stop(s) ==
    /\ xpc[s] = "stop"
    /\ w' = [w EXCEPT ![s] = Stopped(s)]
    /\ xf' = [xf EXCEPT ![s] = Taken(s)]
    /\ tpc' = Signalled(s)
    /\ xpc' = [xpc EXCEPT ![s] = "complete"]
    /\ UNCHANGED <<spawned, registered, freed, poolVars, monVars, word, tw, tj, tf,
                   dpc, spc, sf, completed, panicked>>

terminate_completes(s) ==
    /\ xpc[s] = "complete"
    /\ complete(xf[s])
    /\ xf' = [xf EXCEPT ![s] = {}]
    /\ xpc' = [xpc EXCEPT ![s] = "unqueue"]
    /\ UNCHANGED <<sessionVars, poolVars, monVars, threadVars, dpc, spc, sf, panicked>>

\* unqueue_worker: a session without a thread leaves the run queue, and the
\* caller owns the reference of the thread it will not get.
unqueue_worker(s) ==
    /\ xpc[s] = "unqueue"
    /\ runq' = Without(runq, s)
    /\ xpc' = [xpc EXCEPT ![s] = IF s \in Elems(runq) THEN "unbind" ELSE "look"]
    /\ UNCHANGED <<sessionVars, running, injected, idle, refusals, monVars, threadVars, dpc, xf,
                   spc, sf, completed, panicked>>

terminate_unbind(s) ==
    /\ xpc[s] = "unbind"
    /\ w' = [w EXCEPT ![s].bound = FALSE]
    /\ xpc' = [xpc EXCEPT ![s] = "unref"]
    /\ UNCHANGED <<spawned, registered, freed, poolVars, monVars, threadVars, dpc, xf,
                   spc, sf, completed, panicked>>

terminate_unref(s) ==
    /\ xpc[s] = "unref"
    /\ drop_ref(s, w[s], {})
    /\ xpc' = [xpc EXCEPT ![s] = "look"]
    /\ UNCHANGED <<spawned, registered, poolVars, monVars, threadVars, dpc, xf, spc, sf,
                   panicked>>

\* Mutant: terminate returns without waiting.
terminate_no_wait(s) ==
    /\ xpc[s] = "look"
    /\ xpc' = [xpc EXCEPT ![s] = "release"]
    /\ UNCHANGED <<sessionVars, poolVars, monVars, threadVars, dpc, xf, spc, sf,
                   completed, panicked>>

\* Waits for the serving thread unless the session was stopped mid-job.
terminate_look(s) ==
    /\ xpc[s] = "look"
    /\ xpc' = [xpc EXCEPT ![s] = IF ~w[s].detached /\ w[s].bound THEN "wait" ELSE "release"]
    /\ UNCHANGED <<sessionVars, poolVars, monVars, threadVars, dpc, xf, spc, sf,
                   completed, panicked>>

terminate_release(s) ==
    /\ xpc[s] = "release"
    /\ drop_ref(s, w[s], {})
    /\ xpc' = [xpc EXCEPT ![s] = "done"]
    /\ UNCHANGED <<spawned, registered, poolVars, monVars, threadVars, dpc, xf, spc, sf,
                   panicked>>

-----------------------------------------------------------------------------
Dispatch(j) ==
    dispatch_acquire(j) \/ enqueue(j) \/ bind_thread(j) \/ dispatch_refused(j) \/ dispatch_release(j)

Thread(t) ==
    \/ take_job(t) \/ park_session(t) \/ unpark_session(t) \/ leave_session(t) \/ unbind(t)
    \/ job_blocks(t) \/ job_unblocks(t) \/ job_ends(t) \/ reply(t)
    \/ thread_next(t) \/ thread_retires(t) \/ deliver(t) \/ park_thread(t)

Monitor == monitor_check \/ monitor_timeout

Shutdown(s) ==
    shutdown_acquire(s) \/ shutdown_stop(s) \/ shutdown_completes(s) \/ shutdown_release(s)

Terminate(s) ==
    \/ terminate_take(s) \/ terminate_stop(s) \/ terminate_completes(s) \/ unqueue_worker(s)
    \/ terminate_unbind(s) \/ terminate_unref(s) \/ terminate_look(s) \/ terminate_release(s)

\* Nothing is left to do: no job waits anywhere and every thread rests, or the
\* process has panicked.
Quiet ==
    /\ \/ panicked
       \/ /\ \A j \in Jobs : dpc[j] = "done" /\ completed[j] > 0
          /\ \A t \in Threads : tpc[t] \in {"none", "parked", "cond"}
          /\ \A s \in Sessions : xpc[s] \in {"new", "done"} /\ spc[s] \in {"new", "done"}
    /\ UNCHANGED vars

Next ==
    \/ /\ ~panicked
       /\ \/ \E s \in Sessions : workerSpawn(s) \/ Shutdown(s) \/ Terminate(s)
          \/ \E j \in Jobs : Dispatch(j)
          \/ \E t \in Threads : Thread(t)
          \/ Monitor
    \/ Quiet

Spec == Init /\ [][Next]_vars

\* Threads are scheduled, calls that began return their locks, and the
\* monitor's timed wait ends.  Nothing makes a caller dispatch, shut down or
\* terminate.
Fairness ==
    /\ \A j \in Jobs : WF_vars(~panicked /\ dpc[j] # "new" /\ Dispatch(j))
    /\ \A t \in Threads : WF_vars(~panicked /\ Thread(t))
    /\ WF_vars(~panicked /\ Monitor)
    /\ \A s \in Sessions : /\ WF_vars(~panicked /\ spc[s] # "new" /\ Shutdown(s))
                           /\ WF_vars(~panicked /\ xpc[s] # "new" /\ Terminate(s))

FairSpec == Spec /\ Fairness

-----------------------------------------------------------------------------
(* Properties.                                                             *)

\* Type invariant.
TypeOK ==
    /\ w \in [Sessions ->
              [refs : Nat, queue : Seq(Jobs), active : Jobs \cup {None}, busy : BOOLEAN,
               dead : BOOLEAN, bound : BOOLEAN, parked : BOOLEAN, detached : BOOLEAN]]
    /\ registered \subseteq spawned /\ freed \subseteq spawned /\ spawned \subseteq Sessions
    /\ runq \in Seq(Sessions) /\ running \in Nat /\ injected \in Nat /\ idle \in Seq(Threads)
    /\ refusals \in 0..MaxRefusals
    /\ watching \in BOOLEAN /\ stalled \in BOOLEAN
    /\ mon \in {"none", "check", "timed", "sleep"}
    /\ tpc \in [Threads -> {"none", "serve", "cond", "resume", "run", "blocked", "reply",
                            "finish", "after", "deliver", "deliver_exit", "deliver_park",
                            "park", "parked"}]
    /\ word \in [Threads -> {"IDLE", "ASSIGNED", "PARKED"}]
    /\ tw \in [Threads -> Sessions \cup {None}]
    /\ tj \in [Threads -> Jobs \cup {None}]
    /\ tf \in [Threads -> Jobs \cup {None}]
    /\ dpc \in [Jobs -> {"new", "enqueue", "bind", "refused", "release", "done"}]
    /\ xpc \in [Sessions -> {"new", "stop", "complete", "unqueue", "unbind", "unref", "look",
                             "wait", "release", "done"}]
    /\ xf \in [Sessions -> SUBSET Jobs]
    /\ spc \in [Sessions -> {"new", "stop", "complete", "release", "done"}]
    /\ sf \in [Sessions -> SUBSET Jobs]
    /\ completed \in [Jobs -> Nat]
    /\ panicked \in BOOLEAN

One(b) == IF b THEN 1 ELSE 0
Servers(s) == {t \in Threads : tw[t] = s}
Binding(s) == {j \in Jobs : On[j] = s /\ dpc[j] = "bind"}
Dispatching(s) == {j \in Jobs : On[j] = s /\ dpc[j] \in {"enqueue", "bind", "refused", "release"}}

\* bound means exactly one thing: one thread serves the session, or it waits in
\* the run queue, or one dispatch is about to find it a thread, or a terminate
\* has just unqueued it.  No session is ever served by two threads.
BoundOnce ==
    \A s \in Sessions :
        Cardinality(Servers(s)) + Cardinality(Binding(s)) + One(s \in Elems(runq))
            + One(xpc[s] = "unbind") = One(w[s].bound)

\* The reference count is exactly the registry, the calls that looked the
\* session up, and the thread's reference, wherever that one is.
RefAccounting ==
    \A s \in Sessions :
        w[s].refs = One(s \in registered) + Cardinality(Dispatching(s))
                    + One(spc[s] \in {"stop", "complete", "release"})
                    + One(xpc[s] \notin {"new", "done"})
                    + Cardinality(Servers(s)) + One(s \in Elems(runq))
                    + One(xpc[s] \in {"unbind", "unref"})

\* A freed session is out of everyone's reach.
NoUseAfterFree ==
    \A s \in freed :
        /\ s \notin registered /\ s \notin Elems(runq)
        /\ Servers(s) = {} /\ Dispatching(s) = {}
        /\ xpc[s] \in {"new", "done"} /\ spc[s] \in {"new", "done"}

\* The references are exact, and nothing is left behind when the last one goes.
SessionRefs == RefAccounting /\ NoUseAfterFree

\* Every dispatched future is in exactly one place until it is completed, and
\* is completed once: by the reply, by whoever stopped the session, or by the
\* dispatch that was refused.
FutureConserved ==
    \A j \in Jobs :
        LET s == On[j] IN
        completed[j] + One(dpc[j] \in {"new", "enqueue", "refused"})
            + One(j \in Elems(w[s].queue)) + One(w[s].active = j)
            + Cardinality({t \in Threads : tf[t] = j})
            + One(j \in xf[s]) + One(j \in sf[s]) = 1

\* pool_running counts the threads that hold a pool slot, across blocking,
\* hand-over, idling and waking.
CountedThread(t) ==
    \/ tpc[t] \in {"serve", "run", "reply", "finish", "after", "deliver"}
    \/ tpc[t] \in {"deliver_park", "park"} /\ word[t] = "ASSIGNED"
PoolAccounting == running = Cardinality({t \in Threads : CountedThread(t)})

\* A session waits in the run queue only while the pool is saturated, and then
\* the monitor is on its feet.  (While the system grants threads.)
WorkConserving ==
    runq # <<>> => running >= pool_capacity /\ mon \in {"check", "timed"}

\* A terminate that returns has waited for the thread, unless the session was
\* stopped in the middle of a job; and it waits only while somebody is left who
\* will unbind the session and wake it.
TerminatedIsUnserved ==
    \A s \in Sessions :
        /\ xpc[s] \in {"release", "done"} /\ ~w[s].detached => Servers(s) = {}
        /\ xpc[s] = "wait" => w[s].bound

\* Once everything is dispatched every future is completed, although jobs wait
\* for one another in either way on a pool that is too small for them.  (While
\* the system grants threads.)
AllAnswered ==
    (\A j \in Jobs : dpc[j] # "new")
        ~> (\A j \in Jobs : completed[j] = 1) \/ refusals > 0

\* "A failed start leaves the session at the queue head for the next finishing
\* thread or monitor pass": a queued session leaves the queue again once the
\* monitor is there.  (Where the monitor's own thread was refused, the code gives
\* up the protection against jobs that spin on each other; the comment at
\* monitor_watch_locked says so, and those states are left out.)
QueueDrains ==
    \A s \in Sessions :
        s \in Elems(runq) /\ mon # "none" ~> s \notin Elems(runq) \/ panicked
=============================================================================
