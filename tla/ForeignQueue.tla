---------------------------- MODULE ForeignQueue ----------------------------
(***************************************************************************)
(* Completion of host futures from foreign threads: the hand-off between   *)
(* one scheduler (the thread in dream_run_loop that owns the frames) and   *)
(* the host threads that complete them.                                    *)
(*   sys/native/foreign_queue.h  F_SCHEDULER claims, the completion queue, *)
(*                               pending credits, parking and signalling   *)
(*   sys/shared/async.c          start, await, cancel, complete, run loop  *)
(*                                                                         *)
(* A frame f is one host future; "the task of f" is the coroutine that     *)
(* creates it, holds it in a slot and may await it.  Every action is one   *)
(* atomic access of a shared word or one critical section of sched.mu;     *)
(* owner-only code between two such accesses is merged into them.          *)
(***************************************************************************)
EXTENDS Naturals, FiniteSets, Sequences

CONSTANTS
    Frames,      \* host futures, each created at most once
    Completers,  \* host threads that call dream_complete_foreign
    NoFrame      \* "no frame"

ASSUME FramesFinite == IsFiniteSet(Frames)
ASSUME CompletersFinite == IsFiniteSet(Completers)
ASSUME NoFrameFresh == NoFrame \notin Frames

VARIABLES
    (* frame words *)
    scheduler,   \* F_SCHEDULER: "null", "owner" (&sched) or "claimed"
    status,      \* F_STATUS: 0 running, 1 completed, 2 cancelled
    started,     \* F_NEXT: 0 lazy, 1 scheduler retain held, 2 retain dropped
    result,      \* F_RESULT: FALSE while it is the zero a fresh frame holds
    waker,       \* F_WAKER names the task of f
    rc,          \* reference count; a started frame with 0 has been freed
    (* Scheduler *)
    pending,     \* foreign_pending
    fq,          \* fq_head..fq_tail
    parked,      \* the owner is blocked on cv and nobody signalled yet
    hook,        \* a park hook replaces the condition variable
    hookEvent,   \* the hook's event loop has a wake queued
    (* owner thread *)
    pc,          \* where the run loop is
    cur,         \* frame of the task being polled (poll_current)
    cancelling,  \* frame whose dream_cancel won the status CAS
    batch,       \* list that foreign_drain detached and has not handled
    rq,          \* ready queue, as the frames of the queued tasks
    timers,      \* frames on the timer heap
    task,        \* what the task of f is doing
    slot,        \* the task's slot owns a reference to f
    pin,         \* the host owns a reference to f
    (* host threads *)
    calls,       \* completion calls the host may still make on f
    cpc,         \* where in complete_foreign a thread is
    cf           \* the frame it completes

frameVars == <<scheduler, status, started, result, waker, rc>>
schedVars == <<pending, fq, parked, hook, hookEvent>>
ownerVars == <<pc, cur, cancelling, batch, rq, timers>>
progVars  == <<task, slot, pin, calls>>
hostVars  == <<cpc, cf>>
vars == <<frameVars, schedVars, ownerVars, progVars, hostVars>>

TypeOK ==
    /\ scheduler \in [Frames -> {"null", "owner", "claimed"}]
    /\ status \in [Frames -> 0..2]
    /\ started \in [Frames -> 0..2]
    /\ result \in [Frames -> BOOLEAN]
    /\ waker \in [Frames -> BOOLEAN]
    /\ rc \in [Frames -> Nat]
    /\ pending \in Nat
    /\ fq \in Seq(Frames)
    /\ parked \in BOOLEAN /\ hook \in BOOLEAN /\ hookEvent \in BOOLEAN
    /\ pc \in {"drain", "run", "poll", "cancel", "drain2", "check", "park",
               "wait", "timers", "done"}
    /\ cur \in Frames \cup {NoFrame}
    /\ cancelling \in Frames \cup {NoFrame}
    /\ batch \in Seq(Frames)
    /\ rq \in Seq(Frames)
    /\ timers \in SUBSET Frames
    /\ task \in [Frames -> {"new", "holding", "waiting", "ended", "cancelled"}]
    /\ slot \in [Frames -> BOOLEAN]
    /\ pin \in [Frames -> BOOLEAN]
    /\ calls \in [Frames -> 0..2]
    /\ cpc \in [Completers -> {"idle", "claimed", "write", "publish", "queue"}]
    /\ cf \in [Completers -> Frames \cup {NoFrame}]

(* The tasks start on the ready queue in some order. *)
Init ==
    /\ scheduler = [f \in Frames |-> "null"]
    /\ status = [f \in Frames |-> 0]
    /\ started = [f \in Frames |-> 0]
    /\ result = [f \in Frames |-> FALSE]
    /\ waker = [f \in Frames |-> FALSE]
    /\ rc = [f \in Frames |-> 0]
    /\ pending = 0 /\ fq = <<>> /\ parked = FALSE
    /\ hook \in BOOLEAN /\ hookEvent = FALSE
    /\ pc = "drain" /\ cur = NoFrame /\ cancelling = NoFrame
    /\ batch = <<>> /\ timers = {}
    /\ rq \in {s \in [1..Cardinality(Frames) -> Frames] :
                 \A i, j \in 1..Cardinality(Frames) : s[i] = s[j] => i = j}
    /\ task = [f \in Frames |-> "new"]
    /\ slot = [f \in Frames |-> FALSE]
    /\ pin = [f \in Frames |-> FALSE]
    /\ calls = [f \in Frames |-> 0]
    /\ cpc = [c \in Completers |-> "idle"]
    /\ cf = [c \in Completers |-> NoFrame]

-----------------------------------------------------------------------------
(* Helpers on the owner thread *)

(* dream_enqueue: nothing when the task is queued already or has settled. *)
dream_enqueue(t) ==
    IF (\E i \in 1..Len(rq) : rq[i] = t) \/ task[t] \in {"ended", "cancelled"}
    THEN rq ELSE Append(rq, t)

(* dream_cancel unlinks a cancelled task from the ready queue. *)
Unlink(t) ==
    IF \E i \in 1..Len(rq) : rq[i] = t
    THEN LET i == CHOOSE k \in 1..Len(rq) : rq[k] = t
         IN SubSeq(rq, 1, i - 1) \o SubSeq(rq, i + 1, Len(rq))
    ELSE rq

(* scheduler_drop_start_retain: the latch makes the drop happen once. *)
scheduler_drop_start_retain(f) ==
    IF started[f] = 1
    THEN /\ started' = [started EXCEPT ![f] = 2]
         /\ rc' = [rc EXCEPT ![f] = @ - 1]
    ELSE UNCHANGED <<started, rc>>

(* Mutant: the waiting task is not put on the ready queue. *)
wake_forgets_waiter(f) ==
    /\ waker' = [waker EXCEPT ![f] = FALSE]
    /\ UNCHANGED rq
    /\ scheduler_drop_start_retain(f)

(* A completion resumes the awaiting task and gives up the start retain. *)
WakeAndDrop(f) ==
    /\ waker' = [waker EXCEPT ![f] = FALSE]
    /\ rq' = IF waker[f] THEN dream_enqueue(f) ELSE rq
    /\ scheduler_drop_start_retain(f)

(* dream_async_complete, on the owner's thread only. *)
dream_async_complete(f) ==
    IF status[f] # 0
    THEN UNCHANGED <<status, result, waker, rq, started, rc>>
    ELSE /\ result' = [result EXCEPT ![f] = TRUE]
         /\ status' = [status EXCEPT ![f] = 1]
         /\ WakeAndDrop(f)
(* scheduler_signal, with sched.mu held. *)
scheduler_signal ==
    /\ parked' = FALSE
    /\ hookEvent' = (hookEvent \/ hook)

(* awaited_child_unshared: besides the scheduler only the slot owns f. *)
awaited_child_unshared(f) ==
    /\ status[f] = 0
    /\ rc[f] = 1 + (IF started[f] = 1 THEN 1 ELSE 0)

-----------------------------------------------------------------------------
(* What a task does while it is polled (pc = "poll").  The program decides;  *)
(* the guards are what the language lets it do with a future it owns.        *)
(* dream_event_new / the poll of an @async_host import that defers: start    *)
(* retain, pending credit and F_SCHEDULER, then the hand-off to the host.    *)
(* A host that may complete a frame from two places keeps it pinned.         *)
dream_foreign_work_begin(f, pinned) ==
    /\ pc = "poll" /\ cur = f /\ task[f] = "new"
    /\ started' = [started EXCEPT ![f] = 1]
    /\ rc' = [rc EXCEPT ![f] = IF pinned THEN 3 ELSE 2]
    /\ pending' = pending + 1
    /\ scheduler' = [scheduler EXCEPT ![f] = "owner"]
    /\ calls' = [calls EXCEPT ![f] = IF pinned THEN 2 ELSE 1]
    /\ task' = [task EXCEPT ![f] = "holding"]
    /\ slot' = [slot EXCEPT ![f] = TRUE]
    /\ pin' = [pin EXCEPT ![f] = pinned]
    /\ UNCHANGED <<status, result, waker, fq, parked, hook, hookEvent,
                   ownerVars, hostVars>>

(* delayMsAsync: the credit is taken, the timer armed, and the credit given  *)
(* back by dream_foreign_work_end because the host returned 0.               *)
delayMsAsync(f) ==
    /\ pc = "poll" /\ cur = f /\ task[f] = "new"
    /\ started' = [started EXCEPT ![f] = 1]
    /\ rc' = [rc EXCEPT ![f] = 2]
    /\ timers' = timers \cup {f}
    /\ task' = [task EXCEPT ![f] = "holding"]
    /\ slot' = [slot EXCEPT ![f] = TRUE]
    /\ UNCHANGED <<scheduler, status, result, waker, schedVars, pc, cur,
                   cancelling, batch, rq, pin, calls, hostVars>>

(* dream_await: a settled child re-queues the parent at once, otherwise the  *)
(* waker is set.  Awaiting a cancelled future panics, so no program does.    *)
dream_await(f) ==
    /\ pc = "poll" /\ cur = f /\ task[f] = "holding" /\ status[f] # 2
    /\ IF status[f] = 1
       THEN rq' = dream_enqueue(f) /\ UNCHANGED waker
       ELSE waker' = [waker EXCEPT ![f] = TRUE] /\ UNCHANGED rq
    /\ task' = [task EXCEPT ![f] = "waiting"]
    /\ pc' = "run" /\ cur' = NoFrame
    /\ UNCHANGED <<scheduler, status, started, result, rc, schedVars,
                   cancelling, batch, timers, slot, pin, calls, hostVars>>

(* The task gives up its slot and ends: after resuming from its await, or    *)
(* without having awaited the future it started.                             *)
ReleaseSlot(f) ==
    /\ pc = "poll" /\ cur = f /\ task[f] \in {"holding", "waiting"}
    /\ rc' = [rc EXCEPT ![f] = @ - 1]
    /\ slot' = [slot EXCEPT ![f] = FALSE]
    /\ task' = [task EXCEPT ![f] = "ended"]
    /\ pc' = "run" /\ cur' = NoFrame
    /\ UNCHANGED <<scheduler, status, started, result, waker, schedVars,
                   cancelling, batch, rq, timers, pin, calls, hostVars>>

(* Mutant: the owner takes its credit back although a host has claimed f. *)
event_complete_unchecked(f) ==
    /\ pc = "poll" /\ calls[f] > 0
    /\ calls' = [calls EXCEPT ![f] = @ - 1]
    /\ scheduler' = [scheduler EXCEPT ![f] = "null"]
    /\ pending' = pending - 1
    /\ dream_async_complete(f)
    /\ UNCHANGED <<fq, parked, hook, hookEvent, pc, cur, cancelling, batch,
                   timers, task, slot, pin, hostVars>>

(* dream_event_complete on the owner.  While F_SCHEDULER still names this    *)
(* scheduler dream_foreign_work_end takes the frame back and the owner       *)
(* completes it, or drops the retain a cancellation left; after a claim the  *)
(* claiming thread hands the frame back and there is nothing to do.          *)
dream_event_complete(f) ==
    /\ pc = "poll" /\ calls[f] > 0
    /\ calls' = [calls EXCEPT ![f] = @ - 1]
    /\ IF scheduler[f] = "owner"
       THEN /\ scheduler' = [scheduler EXCEPT ![f] = "null"]
            /\ pending' = pending - 1
            /\ IF status[f] = 2
               THEN /\ scheduler_drop_start_retain(f)
                    /\ UNCHANGED <<status, result, waker, rq>>
               ELSE dream_async_complete(f)
       ELSE UNCHANGED <<frameVars, pending, rq>>
    /\ UNCHANGED <<fq, parked, hook, hookEvent, pc, cur, cancelling, batch,
                   timers, task, slot, pin, hostVars>>

(* dream_cancel of a host future by one of its owners: the status CAS.       *)
dream_cancel(f) ==
    /\ pc = "poll" /\ slot[f] /\ status[f] = 0
    /\ status' = [status EXCEPT ![f] = 2]
    /\ cancelling' = f
    /\ pc' = "cancel"
    /\ UNCHANGED <<scheduler, started, result, waker, rc, schedVars, cur,
                   batch, rq, timers, progVars, hostVars>>

(* Mutant: the retain is dropped although the host still holds the frame. *)
cancel_ignores_in_flight ==
    /\ pc = "cancel"
    /\ waker' = [waker EXCEPT ![cancelling] = FALSE]
    /\ timers' = timers \ {cancelling}
    /\ scheduler_drop_start_retain(cancelling)
    /\ cancelling' = NoFrame
    /\ pc' = "poll"
    /\ UNCHANGED <<scheduler, status, result, schedVars, cur, batch, rq,
                   progVars, hostVars>>

(* The rest of dream_cancel: F_SCHEDULER read after the CAS decides whether  *)
(* the host still holds the frame, in which case foreign_drain drops the     *)
(* retain; the waker and the timer go at once.                               *)
dream_cancel_rest ==
    /\ pc = "cancel"
    /\ waker' = [waker EXCEPT ![cancelling] = FALSE]
    /\ timers' = timers \ {cancelling}
    /\ IF scheduler[cancelling] = "null"
       THEN scheduler_drop_start_retain(cancelling)
       ELSE UNCHANGED <<started, rc>>
    /\ cancelling' = NoFrame
    /\ pc' = "poll"
    /\ UNCHANGED <<scheduler, status, result, schedVars, cur, batch, rq,
                   progVars, hostVars>>

(* dream_cancel of the task of f, which is not the one being polled.  It     *)
(* leaves the ready queue and its waker; when its frame dies the slot is     *)
(* released (before the child is cancelled), and a child that nobody else    *)
(* owns is cancelled too.                                                    *)
dream_cancel_task(f, dies) ==
    /\ pc = "poll" /\ cur # f
    /\ task[f] \in {"new", "holding", "waiting"}
    /\ rq' = Unlink(f)
    /\ waker' = [waker EXCEPT ![f] = FALSE]
    /\ task' = [task EXCEPT ![f] = "cancelled"]
    /\ IF dies /\ slot[f]
       THEN /\ slot' = [slot EXCEPT ![f] = FALSE]
            /\ rc' = [rc EXCEPT ![f] = @ - 1]
       ELSE UNCHANGED <<slot, rc>>
    /\ IF waker[f] /\ awaited_child_unshared(f)
       THEN /\ status' = [status EXCEPT ![f] = 2]
            /\ cancelling' = f
            /\ pc' = "cancel"
       ELSE UNCHANGED <<status, cancelling, pc>>
    /\ UNCHANGED <<scheduler, started, result, schedVars, cur, batch, timers,
                   pin, calls, hostVars>>

(* The frame of a cancelled task is freed later and releases its slot.       *)
FreeCancelledTask(f) ==
    /\ task[f] = "cancelled" /\ slot[f] /\ pc \in {"poll", "run"}
    /\ slot' = [slot EXCEPT ![f] = FALSE]
    /\ rc' = [rc EXCEPT ![f] = @ - 1]
    /\ UNCHANGED <<scheduler, status, started, result, waker, schedVars,
                   ownerVars, task, pin, calls, hostVars>>

(* The host drops its pin once every completion call on f has returned.      *)
Unpin(f) ==
    /\ pin[f] /\ calls[f] = 0 /\ \A c \in Completers : cf[c] # f
    /\ pin' = [pin EXCEPT ![f] = FALSE]
    /\ rc' = [rc EXCEPT ![f] = @ - 1]
    /\ UNCHANGED <<scheduler, status, started, result, waker, schedVars,
                   ownerVars, task, slot, calls, hostVars>>

(* dream_sched_set_park: a window loop installs or removes its park hook.    *)
dream_sched_set_park(h) ==
    /\ pc = "poll" /\ hook # h
    /\ hook' = h /\ hookEvent' = FALSE
    /\ UNCHANGED <<frameVars, pending, fq, parked, ownerVars, progVars,
                   hostVars>>

-----------------------------------------------------------------------------
(* dream_run_loop on the owner thread. *)

(* foreign_drain takes the whole list under sched.mu; an empty list ends it. *)
foreign_drain_take ==
    /\ pc \in {"drain", "drain2"} /\ batch = <<>>
    /\ batch' = fq /\ fq' = <<>>
    /\ pc' = IF fq # <<>> THEN pc
             ELSE IF pc = "drain" THEN "run"
             ELSE IF rq # <<>> THEN "drain" ELSE "check"
    /\ UNCHANGED <<frameVars, pending, parked, hook, hookEvent, cur,
                   cancelling, rq, timers, progVars, hostVars>>

(* One detached node: clear the sentinel, resume the waiter, drop the retain. *)
foreign_drain_node ==
    /\ pc \in {"drain", "drain2"} /\ batch # <<>>
    /\ scheduler' = [scheduler EXCEPT ![Head(batch)] = "null"]
    /\ WakeAndDrop(Head(batch))
    /\ batch' = Tail(batch)
    /\ UNCHANGED <<status, result, schedVars, pc, cur, cancelling, timers,
                   progVars, hostVars>>

(* run_ready pops the queue until it is empty; a settled task is skipped.    *)
run_ready ==
    /\ pc = "run"
    /\ IF rq = <<>>
       THEN pc' = "drain2" /\ UNCHANGED <<cur, rq>>
       ELSE /\ rq' = Tail(rq)
            /\ IF task[Head(rq)] \in {"ended", "cancelled"}
               THEN UNCHANGED <<pc, cur>>
               ELSE pc' = "poll" /\ cur' = Head(rq)
    /\ UNCHANGED <<frameVars, schedVars, cancelling, batch, timers, progVars,
                   hostVars>>

(* Mutant: pending host work does not keep the loop running. *)
check_ignores_pending ==
    /\ pc = "check"
    /\ pc' = IF timers = {} /\ fq = <<>> THEN "done" ELSE "park"
    /\ UNCHANGED <<frameVars, schedVars, cur, cancelling, batch, rq, timers,
                   progVars, hostVars>>

(* Mutant: an installed park hook counts as outstanding work. *)
check_waits_for_hook ==
    /\ pc = "check"
    /\ pc' = IF timers = {} /\ fq = <<>> /\ pending = 0 /\ ~hook THEN "done" ELSE "park"
    /\ UNCHANGED <<frameVars, schedVars, cur, cancelling, batch, rq, timers,
                   progVars, hostVars>>

(* foreign_outstanding, and the only way out of the loop.                    *)
run_loop_check ==
    /\ pc = "check"
    /\ pc' = IF timers = {} /\ fq = <<>> /\ pending = 0 THEN "done" ELSE "park"
    /\ UNCHANGED <<frameVars, schedVars, cur, cancelling, batch, rq, timers,
                   progVars, hostVars>>

(* Mutant: the queue is not checked again under sched.mu. *)
park_without_recheck ==
    /\ pc = "park"
    /\ pc' = "wait" /\ parked' = ~hook
    /\ UNCHANGED <<frameVars, pending, fq, hook, hookEvent, cur, cancelling,
                   batch, rq, timers, progVars, hostVars>>

(* scheduler_park, after the re-check of the queue under sched.mu.           *)
scheduler_park ==
    /\ pc = "park" /\ fq = <<>>
    /\ pc' = "wait" /\ parked' = ~hook
    /\ UNCHANGED <<frameVars, pending, fq, hook, hookEvent, cur, cancelling,
                   batch, rq, timers, progVars, hostVars>>

(* No parking: a node is queued, a callback is pending or a timer is due.    *)
skip_park ==
    /\ pc = "park"
    /\ pc' = "timers"
    /\ UNCHANGED <<frameVars, schedVars, cur, cancelling, batch, rq, timers,
                   progVars, hostVars>>

(* The wait ends: signalled, the hook saw its event, or the timeout passed.  *)
Wake ==
    /\ pc = "wait"
    /\ (~hook /\ ~parked) \/ (hook /\ hookEvent) \/ timers # {}
    /\ pc' = "timers" /\ parked' = FALSE /\ hookEvent' = FALSE
    /\ UNCHANGED <<frameVars, pending, fq, hook, cur, cancelling, batch, rq,
                   timers, progVars, hostVars>>

(* A condition variable, or a window event, may end the wait for nothing.    *)
SpuriousWake ==
    /\ pc = "wait"
    /\ pc' = "timers" /\ parked' = FALSE
    /\ UNCHANGED <<frameVars, pending, fq, hook, hookEvent, cur, cancelling,
                   batch, rq, timers, progVars, hostVars>>

(* A due timer completes its frame.                                          *)
fire_timer(f) ==
    /\ pc = "timers" /\ f \in timers
    /\ timers' = timers \ {f}
    /\ dream_async_complete(f)
    /\ UNCHANGED <<scheduler, schedVars, pc, cur, cancelling, batch, progVars,
                   hostVars>>

(* No further timer is due: back to the top of the loop.                     *)
timers_done ==
    /\ pc = "timers"
    /\ pc' = "drain"
    /\ UNCHANGED <<frameVars, schedVars, cur, cancelling, batch, rq, timers,
                   progVars, hostVars>>

-----------------------------------------------------------------------------
(* complete_foreign on a host thread. *)

(* The claim: the load and CAS loop swaps &sched for the sentinel, or gives  *)
(* up because another completer or dream_foreign_work_end was first.         *)
complete_foreign_claim(c, f) ==
    /\ cpc[c] = "idle" /\ calls[f] > 0
    /\ calls' = [calls EXCEPT ![f] = @ - 1]
    /\ IF scheduler[f] = "owner"
       THEN /\ scheduler' = [scheduler EXCEPT ![f] = "claimed"]
            /\ cpc' = [cpc EXCEPT ![c] = "claimed"]
            /\ cf' = [cf EXCEPT ![c] = f]
       ELSE UNCHANGED <<scheduler, cpc, cf>>
    /\ UNCHANGED <<status, started, result, waker, rc, schedVars, ownerVars,
                   task, slot, pin>>

(* A frame that is settled already is only handed back.                      *)
complete_foreign_check(c) ==
    /\ cpc[c] = "claimed"
    /\ cpc' = [cpc EXCEPT ![c] = IF status[cf[c]] # 0 THEN "queue" ELSE "write"]
    /\ UNCHANGED <<frameVars, schedVars, ownerVars, progVars, cf>>

complete_foreign_write(c) ==
    /\ cpc[c] = "write"
    /\ result' = [result EXCEPT ![cf[c]] = TRUE]
    /\ cpc' = [cpc EXCEPT ![c] = "publish"]
    /\ UNCHANGED <<scheduler, status, started, waker, rc, schedVars, ownerVars,
                   progVars, cf>>

(* Mutant: the loser of the CAS leaves its result in the frame. *)
publish_keeps_result(c) ==
    /\ cpc[c] = "publish"
    /\ status' = [status EXCEPT ![cf[c]] = IF @ = 0 THEN 1 ELSE @]
    /\ cpc' = [cpc EXCEPT ![c] = "queue"]
    /\ UNCHANGED <<scheduler, started, result, waker, rc, schedVars, ownerVars,
                   progVars, cf>>

(* Mutant: a plain store instead of the CAS. *)
publish_stores(c) ==
    /\ cpc[c] = "publish"
    /\ status' = [status EXCEPT ![cf[c]] = 1]
    /\ cpc' = [cpc EXCEPT ![c] = "queue"]
    /\ UNCHANGED <<scheduler, started, result, waker, rc, schedVars, ownerVars,
                   progVars, cf>>

(* The status CAS against dream_cancel; the loser takes the result back.     *)
complete_foreign_publish(c) ==
    /\ cpc[c] = "publish"
    /\ IF status[cf[c]] = 0
       THEN status' = [status EXCEPT ![cf[c]] = 1] /\ UNCHANGED result
       ELSE result' = [result EXCEPT ![cf[c]] = FALSE] /\ UNCHANGED status
    /\ cpc' = [cpc EXCEPT ![c] = "queue"]
    /\ UNCHANGED <<scheduler, started, waker, rc, schedVars, ownerVars,
                   progVars, cf>>
(* One critical section: return the credit, append, signal if it was empty.  *)
complete_foreign_queue(c) ==
    /\ cpc[c] = "queue"
    /\ pending' = pending - 1
    /\ fq' = Append(fq, cf[c])
    /\ IF fq = <<>> THEN scheduler_signal ELSE UNCHANGED <<parked, hookEvent>>
    /\ cpc' = [cpc EXCEPT ![c] = "idle"]
    /\ cf' = [cf EXCEPT ![c] = NoFrame]
    /\ UNCHANGED <<frameVars, hook, ownerVars, progVars>>

(* callback_wake: a callback thread signals the scheduler.                   *)
callback_wake ==
    /\ pc # "done"
    /\ scheduler_signal
    /\ UNCHANGED <<frameVars, pending, fq, hook, ownerVars, progVars, hostVars>>

-----------------------------------------------------------------------------
(* The poll of the current task goes on: it creates its future, then awaits  *)
(* it or lets it go.                                                         *)
PollStep ==
    \E f \in Frames :
        \/ \E pinned \in BOOLEAN : dream_foreign_work_begin(f, pinned)
        \/ delayMsAsync(f)
        \/ dream_await(f)
        \/ ReleaseSlot(f)

Program ==
    \E f \in Frames :
        \/ dream_event_complete(f)
        \/ dream_cancel(f)
        \/ \E dies \in BOOLEAN : dream_cancel_task(f, dies)
        \/ FreeCancelledTask(f)
        \/ Unpin(f)


RunLoop ==
    \/ foreign_drain_take \/ foreign_drain_node
    \/ run_ready \/ run_loop_check
    \/ scheduler_park \/ skip_park \/ Wake \/ timers_done
    \/ dream_cancel_rest

CompleteStep(c) ==
    \/ complete_foreign_check(c) \/ complete_foreign_write(c)
    \/ complete_foreign_publish(c) \/ complete_foreign_queue(c)

(* dream_run_loop has returned for good. *)
Terminated == pc = "done" /\ UNCHANGED vars

Next ==
    \/ PollStep \/ Program \/ RunLoop
    \/ \E h \in BOOLEAN : dream_sched_set_park(h)
    \/ SpuriousWake
    \/ \E f \in Frames : fire_timer(f)
    \/ \E c \in Completers, f \in Frames : complete_foreign_claim(c, f)
    \/ \E c \in Completers : CompleteStep(c)
    \/ callback_wake
    \/ Terminated

Spec == Init /\ [][Next]_vars

(* The owner thread keeps running its loop and the polls inside it return;   *)
(* a started call of complete_foreign runs to its end; time passes, so a     *)
(* timer that stays armed is found due; and a host completes what it took.   *)
Fairness ==
    /\ WF_vars(RunLoop) /\ WF_vars(PollStep)
    /\ \A f \in Frames : SF_vars(fire_timer(f))
    /\ \A c \in Completers : WF_vars(CompleteStep(c))
    /\ \A f \in Frames :
         WF_vars(\E c \in Completers : complete_foreign_claim(c, f))

FairSpec == Spec /\ Fairness

-----------------------------------------------------------------------------
(* Properties *)

Count(b) == IF b THEN 1 ELSE 0

(* The reference count of a frame is exactly the references that exist: the  *)
(* task's slot, the host's pin and the scheduler's start retain.  Neither a  *)
(* cancel racing a completion nor a late drain drops one twice or leaks one. *)
RetainAccounting ==
    \A f \in Frames :
        rc[f] = Count(slot[f]) + Count(pin[f]) + Count(started[f] = 1)

(* No raw pointer outlives its frame: the frame in a host thread's hands, on *)
(* the completion queue, in a detached batch, on the timer heap, or still to *)
(* be completed is allocated, although the host owns no reference to it.     *)
NoUseAfterFree ==
    /\ \A c \in Completers : cf[c] # NoFrame => rc[cf[c]] > 0
    /\ \A i \in 1..Len(fq) : rc[fq[i]] > 0
    /\ \A i \in 1..Len(batch) : rc[batch[i]] > 0
    /\ \A f \in timers : rc[f] > 0
    /\ \A f \in Frames : calls[f] > 0 => rc[f] > 0
    /\ cancelling # NoFrame => rc[cancelling] > 0

(* Host threads hold raw pointers only, and the counts they rely on are      *)
(* exact.                                                                    *)
FrameOwnership == RetainAccounting /\ NoUseAfterFree

Unclaimed == {f \in Frames : scheduler[f] = "owner"}
Claiming == {c \in Completers : cf[c] # NoFrame}

(* foreign_pending counts the frames a host has not claimed and the claims   *)
(* that are not queued yet; run_loop_check relies on it being exact.         *)
PendingCredits == pending = Cardinality(Unclaimed) + Cardinality(Claiming)

(* "A scheduler with work in flight never leaves dream_run_loop": when the   *)
(* loop has returned no frame names it, nobody is completing into it, its    *)
(* queues are empty and every start retain was given back.                   *)
ReturnsOnlyWhenIdle ==
    pc = "done" =>
        /\ \A f \in Frames : scheduler[f] = "null" /\ started[f] # 1
        /\ \A c \in Completers : cpc[c] = "idle"
        /\ fq = <<>> /\ rq = <<>> /\ timers = {}

(* The credits are what keeps the loop running: they are exact, and a loop   *)
(* that returned left nothing behind.                                        *)
CreditsKeepLoop == PendingCredits /\ ReturnsOnlyWhenIdle

(* A completion queued while the owner sleeps has woken it: only the first   *)
(* node signals, and the owner re-checks the queue before it blocks.         *)
NoLostWake ==
    pc = "wait" /\ fq # <<>> => IF hook THEN hookEvent ELSE ~parked

(* A resumed task finds its child completed and the result written, never a  *)
(* half-published or cancelled one (async.c: "a cancelled frame never wrote  *)
(* the result slot the resumed parent would read").                          *)
ResumeSeesResult ==
    pc = "poll" /\ cur # NoFrame /\ task[cur] = "waiting" =>
        status[cur] = 1 /\ result[cur] /\ ~waker[cur]

(* A frame that was cancelled while a host wrote its result is handed back   *)
(* with an empty result slot.                                                *)
CancelledHasNoResult ==
    \A f \in Frames :
        status[f] = 2 /\ (\A c \in Completers : cf[c] = f => cpc[c] # "publish")
            => ~result[f]

(* What a frame's result slot holds agrees with how the frame was settled,   *)
(* whoever looks.                                                            *)
ResultMatchesStatus == ResumeSeesResult /\ CancelledHasNoResult

(* A future settles once: no step changes a status that is not 0, or the     *)
(* result of a completed future.                                             *)
SettlesOnce ==
    [][\A f \in Frames : status[f] # 0 =>
          /\ status'[f] = status[f]
          /\ status[f] = 1 => result'[f] = result[f]]_vars

(* A task waiting on a host future is resumed, unless it or the future is    *)
(* cancelled.                                                                *)
AwaiterResumes ==
    \A f \in Frames :
        task[f] = "waiting" ~> task[f] # "waiting" \/ status[f] = 2

(* Every completion is drained and the run loop comes to its end.            *)
RunLoopReturns == <>(pc = "done")

=============================================================================
