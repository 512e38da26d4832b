# Verification of Dream's concurrent parts

Dream is a compiled language; its programs run natively (generated C linked
with a C runtime) or in a JavaScript host (WebAssembly with a JavaScript
runtime). This directory holds TLA+ models of the parts of the repository that
are hardest to test because several actors meet in them: the single-threaded
async scheduler and the host threads that complete its futures, channels between
workers, the task pool of the standard library, the native worker sessions with
their thread pool, the native HTTP server, the language server's document
handling and the compiler's build cache. The compiler itself is a sequential
tree transformation with a large test suite of its own and is outside the scope.

`PROJECT.json` maps every definition that models code to the lines it stands
for, and lists the components, the hazards, the runs, the mutants and the
theorems. Paths below are relative to `src/`;
`c/` abbreviates `crates/dream-mir/src/runtime/c/` and `std/` abbreviates
`crates/dream-stdlib/src/system/`.

## 1. The system

### Parts, state and operations

| Part | State | Operations |
|---|---|---|
| async scheduler, `c/sys/shared/async.c`, `async_frame.h`, `ready_queue.h` | one `Scheduler` per thread: ready queue, timer heap, poll state; frames with status, waker, result, reference count | start a frame, await, complete, cancel, drop, `dream_run_loop` |
| foreign completion queue, `c/sys/native/foreign_queue.h` | completion list and `foreign_pending` under the scheduler's mutex, condition variable or park hook, the `F_SCHEDULER` word of each frame | `dream_foreign_work_begin`, `dream_complete_foreign`, drain, park, signal |
| timer heap, `c/sys/shared/timer_heap.h` | array heap with back pointers in the frames | insert, cancel, pop due |
| future combinators, `c/sys/shared/async_combinators.c` | counters in the combinator frame, one waker per child | `all`, `race`, child settled |
| cancellation, `c/sys/shared/cancellation.c`, `std/core/cancellation_*.dream` | FIFO registration list per source, reference counts | register, unregister, cancel (wake all), `notify_one` |
| shared channel, `c/sys/shared/channel.c`, `std/task/shared_*.dream` | ring buffer, open endpoints, closed flags, a readable and a writable signal, under one mutex | new, endpoint, close, send, receive, status, wait; the retry loops above them |
| local channel, `std/task/channel*.dream` | the same interface inside one thread | send, receive, close |
| task pool, `std/task/task_pool*.dream` | session id and load per worker, `occupied` slots, waiters, `active`, the `changed` source | construct, dispatch, dispatch_async, close |
| structured tasks, `std/task/task*.dream` | scopes, handles, deadlines, failures | scope, spawn, map |
| native workers, `c/sys/native/worker.c` | sessions (queue, active job, flags, reference count), the id table, run queue, idle list, `pool_running`, `pool_injected`, monitor | spawn, dispatch, serve, reply, blocking hook, shutdown, terminate |
| JavaScript workers, `runtime/src/workers.js` | slots, idle workers, boot timers, failure records | spawn, dispatch, ready, reply, crash, terminate |
| JavaScript async bridge, `runtime/src/async.js` | pinned frames, pump state | pin, settle, cancel, pump |
| native callbacks, `c/sys/native/callback.c` | owner table, pending releases, wakes in flight | create, invoke, release, owner_finish |
| locks and semaphores, `c/sys/native/sync.c`, `std/core/lock.dream` | lock targets with owner, depth, waiters | acquire, timed acquire, release, forget |
| blocking pool, `c/sys/native/blocking.c` | ring of 128 jobs, four threads | submit, run |
| reference counting, `c/core/ownership.c`, `weak.c`, `defer.c`, `publish.c` | counts in object headers, weak table | retain, release, weak load, publish |
| HTTP server, `crates/dream-host-net/src/http_server/`, `std/webapi/web_app.dream` | server and request tables, channel of request ids, per request a reply sender, a body sender and a disconnect signal, stop and done signals | listen, drain, serve, dispatch, accept, respond, stream, upgrade, disconnect, release |
| host operations, `crates/dream-host-abi/src/operations.rs` | table of started operations with their results | start, claim, release (abort) |
| language server, `tooling/dream-lsp/src/backend.rs`, `backend/lifecycle.rs` | open documents, index cache, pending diagnostics | open, change, close, watched files, requests, debounced passes |
| build cache, `src/driver/compiler/cache.rs`, `pipeline.rs`, `src/driver/output.rs`, `src/main.rs` | output lock, artifacts, intermediate file, stored build | early lookup, load, stamp, lookup, emit, link, store |

The remaining parts (guest heap, text and number helpers, host input/output,
graphics and audio hosts, compiler, generators, package manager, vendored code) are listed in
`PROJECT.json` with the reason why they are not modelled.

### Interactions

A Dream thread runs one scheduler. Its code is atomic between awaits, so
everything written in Dream on top of it (task pool, channel loops, scopes)
interleaves at awaits only. Host threads reach the scheduler through one door,
`dream_complete_foreign`; a worker reply, a finished file operation and a
channel wake-up all go through it. Workers are sessions: a dispatch puts a job
in the session's queue and asks the thread pool for a thread; the job runs a
scheduler of its own on that thread. Shared channels and locks connect
schedulers of different threads. A task pool owns worker sessions and sees them
only through dispatch, failure records and terminate.

The HTTP server runs on tokio tasks. It meets the guest in one channel of
request ids, which the guest's accept operation reads, in the request table, and
in the reply sender that a responder takes out of the request. Whoever drops a
request last (guest, unclaimed result, connection, drain) releases it.

The language server handles notifications one at a time; its diagnostics passes
are tasks that share an index cache with the requests. Compiler invocations are
processes that meet in the files of one output, under a file lock.

### What is hard

* cancel, completion, drain and return of the run loop race for one frame, its
  reference count and its pending credit;
* wake-ups: a completion between the last drain and the wait, a send between
  looking and registering, a notification given to a call that gives up;
* hand-over of a scarce thing to a waiter that acts on it later: a slot of the
  task pool, a slot of the thread pool, a notification;
* crash and replacement of a session that two jobs share;
* stop of a session at any moment of its thread: queued, between jobs, mid-job,
  parked, being bound; and who completes the futures and frees the session;
* a thread pool as large as the number of processors whose jobs wait for one
  another; failing thread creation;
* a request whose client leaves, whose accept is aborted, whose responder has
  begun and whose server drains, all at once;
* analyses that overlap with edits, closing and changes on disk and store what
  they saw in a shared cache;
* an edit between loading and hashing the sources, and a build that fails or is
  killed between the files it writes.

The hazards in `PROJECT.json` list these places line by line, with the
properties that catch them going wrong.

### What makes each part correct

* scheduler and foreign queue: reference counts and pending credits exact, no
  pointer outlives its frame, no lost wake-up, a future settles once, a resumed
  task sees a written result, the loop returns only when idle and does return;
* channel: a FIFO queue, each value delivered at most once, end of file final,
  no call asleep next to what it waits for, closure ends every call;
* task pool: at most two jobs per worker, slots exact, `close` waits for all
  work and returns, crashed jobs say so, no session leaked or ended twice;
* thread pool: a session is served by at most one thread and by one when it has
  work, references exact, each future completed once, `pool_running` exact, all
  jobs finish, `terminate` returns;
* HTTP server: no request is orphaned, a started response wins, the drain ends
  and leaves nothing waiting, only the program stops the server;
* language server: once it is quiet the diagnostics and the cache are those of
  the current text and files, and every text that stays is shown;
* build cache: a stored build is one whole build, and what is reported was
  compiled for the request from the sources that were seen;
* planned parts: see section 7.

## 2. Modules

| Module | Models | Main state |
|---|---|---|
| `ForeignQueue` | foreign completion queue with the scheduler around it | frames, scheduler, owner thread, host threads |
| `ForeignQueueProofs` | proofs about it: ownership, credits, wake-ups | |
| `ForeignQueueResults` | proofs about it: results and settling; extends the former | |
| `ChannelFifo` | abstract: what a channel promises | |
| `SharedChannel` | shared channel with its waits and loops; implements `ChannelFifo` | ring, signals, endpoints, calls |
| `SharedChannelProofs` | proofs about it, with the refinement of `ChannelFifo` | |
| `TaskPool` | the task pool | pool fields, dispatches, closes, host sessions |
| `TaskPoolProofs` | proofs about it | |
| `WorkerPool` | native sessions and thread pool | sessions, pool, monitor, threads, calls |
| `WorkerPoolProofs` | proofs about it | |
| `HttpServer` | HTTP server, with the accept operation and the guest's accept loop | listener, connections, requests, channel, guest |
| `HttpServerProofs` | proofs about it | |
| `LspServer` | one document of the language server | document, cache, passes, a request |
| `LspServerProofs` | proofs about it | |
| `BuildCache` | invocations of the compiler on one output | sources, files, lock, invocations |
| `BuildCacheProofs` | proofs about it | |
| `MC*` | root modules of the runs, with symmetry sets and constant functions | |

Definitions named `..._without_...`, `..._keeps_...`, `..._ignores_...` and the
like, each marked "Mutant", are deliberately wrong variants of the definition
that follows them. They are used by no specification; `PROJECT.json` pairs each
with the property that must fail when it replaces the right one.

### ForeignQueue

A frame `f` is one host future; the task of `f` creates it, holds it in a slot
and may await it. `scheduler[f]` is the `F_SCHEDULER` word, whose exchange
decides who owns a completion; `started[f]` is the `F_NEXT` word that says
whether the scheduler still holds its start retain. The owner's `pc` follows
`dream_run_loop`: drain, run ready tasks (with `poll` inside, and `cancel`
between the status exchange of `dream_cancel` and the rest of it), drain again,
check for the end, park, wait, timers. A host thread's `cpc` follows
`dream_complete_foreign`: claim, check the status, write the result, publish by
exchange (taking the result back if cancel won), queue and signal. An action is
one atomic access or one critical section of the scheduler mutex.
Both ways of parking are in: condition variable (with spurious wake-ups) and
park hook. Timers are a set of frames of which any may be found due.

External, from how this code uses them: the host's pin of a frame, the number
of times a host calls completion (it may call twice while it holds a pin), and
`callback_wake`, a signal without a queued node.

### SharedChannel and ChannelFifo

Each endpoint runs one call at a time: `top` (token check), `try` (the critical
section of send or receive), `status` (a second critical section that says why
nothing was received), `wait` (register and look, one critical section),
`sleep`. A call is blocking or a `try_` call. Closing may come through an alias
of an endpoint while its call sleeps. The signals are the FIFO registration
lists of `cancellation.c`; `notify_one` wakes the oldest, closure wakes all.
The argument of `dream_channel_new` is chosen in `Init` from `Capacities`, so
one run covers bounded and unbounded channels. `inbox` is a history variable
for the refinement: the ring read from `head` is the abstract queue, the values
already accepted are those numbered up to `sends`.

### TaskPool

One action per stretch of a dispatch or a close between two awaits:
`dispatch_rejected`, `dispatch_waits`, `dispatch_starts`, `granted_starts`,
`granted_cancelled`, `job_resumes`, `close_starts`, `close_resumes`, and the
events `cancel`, `job_replies`, `session_crashes`. `finish` (decrement, fire
`changed` when the last job ends) and `release_slot` (hand the slot to the
oldest waiter or give it back) are part of the actions that call them.
`changed` is a generation number because `begin` replaces the source when the
pool was idle. The failure records are those of `runtime/src/workers.js`, which
TaskPool sees as: a crash loses the replies of every job of the session and
leaves a record until the session is terminated.

### WorkerPool

One action per critical section of `reg_mu`, a session's mutex or `pool_mu`, or
the code between two of them. `w[s]` is the session struct; `tpc` follows
`worker_main` and `run_worker`, `word` is the futex word through which a
parked idle thread is assigned a session; `dpc`, `spc` and `xpc` follow
`workerDispatchAsync`, `workerShutdown` and `workerTerminate`; `mon` is the
starvation monitor. `On`, `OneShot`, `Keeps`, `Waits` and `Spins` describe the
program: which job goes to which session, which sessions are one-shot or own a
native callback (so that their thread parks on the session), and which jobs
wait for which others, inside the blocking hook or by spinning. Thread creation
may fail up to `MaxRefusals` times at each of the places that create one.

### HttpServer

An action is one stretch of code without an await or a lock at which another
actor could change its outcome. `dispatch[r]` follows `request::dispatch`:
sending the id, waiting for the reply, waiting for a responder that has taken the
sender, sending the body. `table[r]` splits `state::release` where it gives up
the table's lock; `leave[r]` splits `state::disconnect` between its test of
`accepted` and what it does about it; `reply[r]` splits `stream::begin` between
taking the reply and storing the body's sender. `accept` follows the guest's
loop and its operation, whose result owns the request until it is claimed;
`AcceptDrop` is the cancellation that aborts it. `limit_concurrency` and the
grace period are chosen at the steps that read them. Connections carry one
request at a time (HTTP/1.1).

### LspServer

`did_open`, `did_change`, `did_close` and `did_change_watched_files` are whole
handlers. Only the last awaits anything: between clearing the index cache and
scheduling the passes it takes the lock of the workspace cache
(`lifecycle.rs:146`), which no holder keeps across an await and which guards
nothing modelled here, so the handler is atomic for this state. A pass sleeps, looks at `pending` and the cache, analyzes, stores, looks at `pending`
again and publishes. An analysis is the version, text and state of imported
files it saw. The debounce is modelled by one ordering: a pass that had finished
its analysis when another was scheduled has published before the other wakes.
`raced` is a history variable for the two overlaps named in section 5: it is set
when one of them happens and cleared by the event that makes it harmless
(`Outdated`, or a close with no pass under way), so `QuietIsCurrent` also states
the recovery.

### BuildCache

The source tree is one value and a hash stands for what it is computed from.
`pc` follows `main` and `Compiler::compile`: lock, early lookup, load, stamp,
lookup, compile, emit, link, store, record. `Stamped` and `Early` are the
requests `build_stamp` and `early_build_lookup` accept. `Interrupted` is what a
failed or killed invocation leaves of the files it was writing. `Edit`,
`RemoveArtifact` and `Crash` are the environment.

## 3. Runs

| Run | Instance | Shows |
|---|---|---|
| `foreign` | 2 futures, 1 completing thread, either way of parking | ownership of frames, credits, no lost wake-up, results, settling once; awaiting tasks resume and the run loop returns |
| `channel_fifo` | 1 sender (4 values), 2 receivers, capacity 1 and unbounded from 2 slots, every call cancellable, symmetric | refinement of `ChannelFifo`, end of file final, registrations exact |
| `channel_live` | 1 sender (2 values), 2 receivers, capacity 1 and 2, no cancellation | nobody sleeps next to a value or a slot, closure ends calls |
| `channel_cancel` | 1 sender, 2 receivers, one of them cancellable | finding 1 |
| `pool` | 1 worker (2 slots), 3 dispatches, 2 closes, 1 crash | slots, sessions, closes and crash reports; every job is answered and every close returns |
| `worker` | 2 sessions (one one-shot, one with a callback), 3 jobs, 1 pool slot, a shutdown and a terminate | one thread per session, references and futures exact, queueing only when saturated, the promise of terminate |
| `worker_live` | a one-shot job that waits for the first and spins on the second job of an ordinary session, 1 pool slot, at most one refused thread | all futures completed unless a thread was refused; `pool_running` exact even then |
| `worker_refused` | 3 one-shot jobs, the first waiting for the second, the second spinning on the third, at most one refused thread | finding 2 |
| `http` | 2 requests on up to 2 connections, a channel of one id, limits none and 1, with and without grace period | no orphaned request, a started response wins, the drain ends and leaves nothing waiting |
| `http_stop` | the same | finding 3 |
| `lsp` | 3 texts, 2 versions, 3 passes, 1 change on disk | quiet means current; every text is shown |
| `cache` | 2 invocations, 3 kinds of request, 2 texts, symmetric | a stored build is one build, results are current |

Properties that name several facts are conjunctions of named parts in their
module: `FrameOwnership`, `CreditsKeepLoop`, `ResultMatchesStatus`,
`SlotsBoundLoad`, `SessionsKept`, `SessionRefs`.

### Bounds

* Two frames give a drain with one and with two nodes and a completion while
  another frame is cancelled; the host thread may complete a pinned frame twice
  and races with the owner. Two completing threads at once are covered by the
  proofs, which hold for any number and state every safety property of this run.
* Four values through a ring of two slots are the least that makes an unbounded
  channel grow while it is wrapped around (two queued, one taken, one wrapped,
  one more). Two receivers are needed for one to take a value between another's
  receive and status, and for a notification to go to the wrong one. The two
  sides of the channel are mirror images in the code, so contention is explored
  on the receiving side.
* Three dispatches on one worker are the least that fills its slots and leaves one
  waiting; two closes are needed for one to be woken by a source the other waits
  on as well. The choice among several workers is left to `TaskPoolProofs`, which
  removes the bounds for safety.
* A thread pool with `Limit = 1` is saturated by one job, so the run queue, the
  blocking hook and the monitor all act; three jobs give an instrumented wait and
  a spin. The second session of `worker_live` is ordinary, neither one-shot nor
  kept by a callback, and has two jobs: its thread leaves it when the queue is
  empty and looks once more (`worker.c:245`), and without that look the second
  job can be left to nobody and `AllAnswered` fails. In `worker` the sessions are
  of the other two kinds; the proofs hold for any mixture. `IdleMax = 1` makes both a parked and an
  exiting idle thread occur. `Threads` has as many names as threads that can
  exist at once.
* Two requests and a channel of one id make a dispatch wait for room while the
  other request is accepted, answered, dropped or drained; the second connection
  makes the limit on connections matter. Two connections can also carry the two
  requests one after the other.
* Three texts in two versions make a document that is closed and opened again
  reuse a version; three passes overlap while a fourth notification is awaited.
* Two texts and two invocations are enough for an edit between any two steps and
  for the lock to matter; of the three requests one may be reused early, one only
  after loading, one never.
* `MaxSends`, `MaxCrashes` and `MaxRefusals` bound the counters that would grow
  for ever. Deadlock checking is off for the channel, whose callers may simply
  stop calling, for the runs with refused threads, where finding 2 is a
  state in which nothing moves, for the HTTP server, which ends, and for the
  language server, whose bounded inputs run out.

### Fairness

* `ForeignQueue`: the owner's loop and its polls run (the thread is scheduled
  and a poll returns), a completion call that began ends, and a host completes
  what it was given: weak fairness each. A timer is found due only when the
  loop looks at the heap, so it has strong fairness: time passes, and a timer
  that stays armed is eventually due when the loop looks.
* `SharedChannel`: weak fairness of each call's own steps; nothing obliges an
  endpoint to start a call or to close.
* `TaskPool`: a ready continuation runs and a job ends (or its session crashes);
  nothing obliges a program to dispatch or to close.
* `WorkerPool`: threads, calls that began, and the monitor's timed wait make
  progress; nothing obliges a program to dispatch, shut down or terminate. A job
  body is fair once the jobs it waits for have been answered.

* `LspServer`: a pass that is due wakes, analyses end, messages are sent; nothing
  obliges the editor to do anything.
* `HttpServer` is checked for safety; instead of a temporal property
  `NothingStuck` says of every state in which no task can go on (`~Due`: none of
  the guards that the actions of `Progress` share with it holds) that nothing is
  left to do. Tasks are polled, handlers end and the grace period passes, and
  `ProgressRunsOut` proves that the tasks take finitely many steps by themselves,
  so this is what progress needs.

## 4. Proofs

`tlapm` proves the following for every number of frames, host threads, workers,
dispatches, closes, invocations, requests, endpoints, connections, texts,
sessions, jobs and pool threads. The assumptions are those the modules state
about their constants: the sets are finite, the values that mean "none" are
fresh, sizes and bounds are natural numbers.

**`ForeignQueueProofs`**: `TypeCorrect`, `FramesOwned` (from `RetainsExact` and
`MemorySafe`), `LoopKept` (from `CreditsExact` and `ReturnsIdle`) and
`WakeNotLost`, all from `Inductive`.
`RetainAccounting` alone is not inductive: that a drain may drop the start
retain has to follow from the node being the only one that names the frame. The
invariant `IInv` adds who owns a frame at each moment. `ClaimHolders` and
`QueueNodes` say that a claimed frame is with exactly one host thread or on
exactly one list node; `ClaimsPlaced` that it is with one of them; `Retains`
links the `F_SCHEDULER`, `F_NEXT` and status words (a held start retain means
that a host, a node or the timer heap is going to give it back); `OwnerPlace`
says which lists are empty where in the loop. `PendingCredits` is a cardinality
argument: a claim moves one credit from the unclaimed frames to the claiming
threads, queueing removes it. `ReturnsIdle` then follows: with no pending
credit, no node and no timer, no start retain can be left. `NoLostWake` is
preserved by itself: only the first node signals, and the owner re-checks the
list under the mutex before it sleeps.

**`ForeignQueueResults`** adds a second layer, `RInv`. `Results`: a result exists
when the frame is completed or while the thread that wrote it has not published
it, and the frame of such a thread is not completed; that nobody else completes
it is `ClaimHolders` of the first layer. `ReadyTasks` and `CurrentTask`: a task is
on the ready queue once, because it is new or because its future completed and
its waker was used up. `ResultsRight` (`ResultMatchesStatus`) and
`SettledForGood` (the action property `SettlesOnce`) follow.

**`TaskPoolProofs`**: `TypeCorrect`, `SlotsBound` (from `AtMostTwo` and
`SlotsExact`), `SessionsSafe` (from `CloseKeepsWork` and `SessionsExact`),
`CloseWoken`, `CrashesReported`, `NobodyStranded`, `WorkRunsOut`. The
invariant has two layers. `SlotInv` says that the three counters are the
cardinalities of the sets of dispatches they stand for and that the waiters are
distinct waiting dispatches. `AtMostTwo` is the pigeonhole lemma
`RoomOnLeastLoaded`: a granted dispatch holds a slot but is on no worker, so the
loads add up to less than `2 * Size` and the least loaded worker has room.
`SessionInv` says that session ids are fresh and distinct, that a running job's
session is current and not failed, and that a settled job's reply was lost
exactly when the job will find it crashed; this is what makes the answer of the
second job right after the first one replaced the session and cleared the
failure record.
The last two theorems are the safety core of `EveryCallReturns`. `NobodyStranded`:
while a submitted dispatch has not returned, some dispatch runs, is settled, or was
granted a slot and finds a worker to claim (`ClaimFinds`: finitely many natural
loads have a least one), and a sleeping close was woken or waits for such a
dispatch. It needs `WaitInv`: the tickets are the waiting dispatches, an open
generation of `changed` is not fired while jobs are active, and nothing is
submitted to a pool without workers. `WorkRunsOut`: each step of the run loop or of a session lowers
`Variant`, which counts what is ahead of every dispatch and close, and nothing but
a new call raises it; a close that wakes and finds the pool busy again pays for
that with a generation that has fired. The sets of dispatches and of closes are
assumed finite.

**`BuildCacheProofs`**: `TypeCorrect`, `StoredBuildWhole`, `ReportsCurrent`. The
properties speak of the stored build and of finished invocations only; the
invariant adds what holds on the way there. `Locked` says that one invocation
works at a time, `Known` that a stamp is of the invocation's request and of the
text it loaded, `OnDisk` that between its writes the files are its own or
missing, and that an early hit is the stored build it verified. The proof also
shows where the exception of `ResultIsCurrent` comes from: an early hit knows
`manifest.inputs`, not `manifest.key`.

**`SharedChannelProofs`**: `TypeCorrect`, `DrainedIsFinal` (`EofIsFinal`),
`NoLostWaiter` (`SleepersRegistered`), `ClosureWakes`, `NothingLeftToSleepers` and
`RefinesFifo`: the specification
implies `ImplementsFifo`, that the ring buffer implements `ChannelFifo` for any
endpoints, capacities and number of values. `EofIsFinal` rests on `Counted` (the
two counters are the numbers of open endpoints, so "no sender" means that no
open endpoint can send) and on `Unsent` (a sender inside a call still has a
value to send, so it is not one that was told "closed"). `Ring` is what the
refinement needs: until the last receiver discards the buffer, the `count` slots
from `head` hold values; that slots are distinct modulo the capacity is
`ModFacts` and `SlotFacts`. The refinement mapping reads those slots from the
oldest on, and the proof shows that a growth copies them in the same order, that
a send appends, a receive takes the head, the last close discards, and that all
other steps stutter. `Signals` is `SleepersRegistered` with the distinctness of
both lists said once; `RestFacts` and `WithoutFacts` describe a notification and
a cancelled registration. Two theorems are the safety core of the liveness
properties. `ClosureWakes`: a call sleeps only on an open endpoint of a channel
neither side of which is closed, whatever is cancelled. `NothingLeftToSleepers`
(`WakesSuffice`): while a receive sleeps there are at least as many awake receives
as queued values, and while a send sleeps at least as many awake sends as free
slots; a notification makes one more call awake for the value or slot it
announces, and a call that takes one uses up one of each. Its hypothesis is that no
call can be cancelled; that it is needed is finding 1.

**`HttpServerProofs`**: `TypeCorrect`, `EveryRequestOwned` (`NoOrphan`),
`ResponseNotReplaced` (`ResponseWins`), `DrainComplete` (`DoneIsQuiet`),
`NobodyStuck` (`NothingStuck`) and `ProgressRunsOut`.
`ResponseWins` follows from `Sender`: a responder that took the sender of the
reply is recorded in `kind`, and only a dropped sender yields 500. Keeping
`Sender` needs `Over` (an unfinished dispatch has neither an answer nor a
departed client) and `Unarrived`. `NoOrphan` needs `Sent` (an id enters the
channel after its request is in the table) and `Owned` (what an accept
received stays with its result or with the guest). `DoneIsQuiet` needs
`OneAtATime` and `AllClosed`: a connection works on one request, so that no open
connection means no unfinished dispatch. The proof also shows that the 503
branch of `dispatch` is not reached once a request was sent on the channel:
`answer = "503"` implies that the request never entered the table.
`NobodyStuck` follows from a second layer, `JInv`, that names for each thing that
waits who makes its next step: a loop that ended has stopped the server and only a
pending accept keeps the receiver from the drain (`Waits`), a busy connection has a
request to work on (`Busy`), a dispatch waits for a reply sender that somebody has
or had (`Pending`), a streamed response has a body (`Streams`), and `disconnect`
runs only once the connection is over (`Leaving`). `ProgressRunsOut` gives the
variant: stages ahead of each request and open connections, weighted above the
ids in the channel, the requests the guest holds and the positions of the two
loops. With weak fairness of `Progress` the two say that every request is answered
and that the drain ends; that last temporal step is not mechanised. `DueIsNeeded`
ties `Due` to the actions: no step of `Progress` is taken while nothing is due.

**`LspServerProofs`**: `TypeCorrect`, `DiagnosticsCurrent` (`QuietIsCurrent`).
The property speaks of states without a pass under way; the invariant says what
every pass holds on the way there. `PendingIsOpen` and `Numbered` identify the
newest pass. Outside the two overlaps named by `raced`, `CacheFresh`,
`RequestFresh` and `BuildsFresh` say that an analysis that is cached or may still
be cached is not newer than the open document and, if it is of the current
version, saw the files last reported. Older versions are left out of the second
half on purpose: after an edit that ends a race, stale analyses of older versions
may still be cached or under way, and the proof shows that they do no harm.
`EndsFresh` is the argument for the debounce: a pass that already has its
analysis either ends before the newest pass wakes, or what it is going to show
is current. `NewestDone` is the conclusion for the newest pass.

**`WorkerPoolProofs`**: `TypeCorrect`, `BoundOnceHolds`, `SessionRefsHold`,
`FutureConservedHolds`, `TerminatedIsUnservedHolds`, `PoolAccountingHolds`,
`FreedOnce` and `WorkConservingHolds`. All but the last come from one inductive
invariant over every action, refused thread creations included, because its parts need each
other: a session is freed with an empty queue because a queued job keeps the
session bound (`QueuesRight`), a bound session has a holder besides the call that
drops its reference (`Exclusive`, in `QueueHeld`), and that holder is counted
(`RefsRight`). `ThreadsRight` says which threads have a session and which are on
the idle list, through the two ways in which an idle thread learns of an
assignment; `start_thread` is described once (`Started`) and used by
`bind_thread`, the blocking hook and the monitor. `RunsRight` ties `busy` and
`active` to the thread that runs the job, and says that a thread which keeps the
reply of a one-shot session finds that session dead, so that it takes no second
job before it delivers. `Home` says that a future never leaves its session,
`FutureOnce` and `Exclusive` are the two conservation properties with sets of at
most one element written as Booleans, `Ends` is `TerminatedIsUnserved` in terms
of `bound`. The exact reference count is claimed only until `panicked`:
`bind_thread` panics after it took the thread's reference and removed the id, and
nothing runs afterwards. `FreedOnce` turns the count into a statement about steps
(`FreesRight`): nobody writes a freed session or frees it a second time, and the
session that is freed has no job queued, so the loop of `destroy_worker` that
cancels jobs never finds one. `WorkConservingHolds` has the hypothesis that no thread
creation is refused; that it is needed is finding 2.

Only model-checked: the liveness properties, because the prover has no reasoning
about fairness and ENABLED. For the channel, the task pool and the HTTP server the
theorems above prove what they rest on. `SomebodyMoves`, `WakesSuffice`,
`SleepsOpen`, `FreesRight` and the two variants appear in proofs only and not in
the runs.

## 5. Findings

1. **A cancelled receive takes a wake-up with it** (`channel_cancel`, code).
   `dream_channel_send` wakes one registration. If the woken call's token is
   cancelled before it retries, the call returns Cancelled and the wake-up is
   gone; another receiver sleeps next to the queued value. The blocked send has
   the same shape.
2. **A refused thread can strand a queued session** (`worker_refused`, comment
   and code differ). The monitor raises `pool_injected` before it starts the
   thread; when the start fails the count stays raised, `pool_running` is below
   capacity, and the monitor considers itself not needed although a session is
   queued. The same follows a failed start in the blocking hook.
   `QueueDrains` speaks of sessions queued while the monitor exists: where the
   monitor's own thread is refused, the comment at `worker.c:423` itself gives up
   the protection against jobs that spin on each other, and that case is not
   counted against the code.
3. **A client that leaves early stops the server** (`http_stop`, code). A request
   whose client disconnects before the guest accepts it is released, but its id
   stays in the channel. The accept of that id fails with ECLOSED, and
   `WebApp.serve` answers any failed accept by shutting the server down.

Seen while modelling, and contained in the passing runs:

* `listen.rs:176` says that requests that were never accepted "get a 503". The
  drain releases them, which drops the reply's sender first, and the biased
  select of `dispatch` then answers 500, "handler abandoned request".
* `stream::begin` takes the reply's sender and stores the body's sender under two
  locks. A release between them leaves the body's sender in a request nobody can
  reach: the response does not end, and a drain without a grace period waits for
  it (`OrphanStream`, the exception of `NothingStuck`).
* A dispatch that waits for room in the channel when the grace period ends is
  aborted before anybody owns its request, which stays in the table (the
  exception of `NoOrphan`).
* Language server: an analysis under way while a change of imported files is
  handled stores its index after the cache was cleared; the pass scheduled for
  the change finds the version cached and publishes the old result. And a pass
  that outlives the close of its document takes the next opening with the same
  version for its own. The first ends with the next edit. The second ends with an
  edit whose version is above those of the old pass and of the entry it stored,
  because up to there the entry is found or not replaced, and is what a pass
  publishes. Both are checked and proved (`raced`, `Outdated`).
* Build cache: an edit between loading and `build_stamp` yields a stored build
  whose key is of the old text and whose inputs are of the new one. The lookup
  after loading compares the key; the early lookup does not, and reuses
  artifacts of the old text until something changes (`Torn`).

While modelling `workerTerminate` it was also seen that a dispatch between its
enqueue and its bind can push the session on the run queue after the terminate
has looked there; the terminate then waits until a thread takes the session off
the queue, behind busy threads. `worker` contains that interleaving and
shows that it leaks and double-binds nothing.

## 6. Not modelled

* `ForeignQueue`: combinators, nested futures (a task awaits one host future or
  timer), task-local contexts, the storage of queue nodes, the single-threaded
  WebAssembly variants.
* `SharedChannel`: freeing the channel itself, reference counts of cancellation
  sources, task contexts and linked tokens. The payload is a number.
* `TaskPool`: the typed wire format, and the pool object dropped without close.
* `WorkerPool`: isolated threads (`dream_worker_isolate_threads`), the generations of the
  id table (ids are fresh), a session that stops itself from its own job, a
  terminate made by a pool thread (which would enter the blocking hook), and the
  owner table behind `Keeps`.
* `HttpServer`: HTTP/2 (several requests of a connection at once), bodies and
  uploads, TLS, the messages of a WebSocket and the close frames the stopping
  listener sends to those it finds (one that is upgraded later gets none).
* `LspServer`: several documents (they share only the clearing of the cache), the
  workspace cache, panics of the analyzer. Deleted files are filtered out by
  `handle_did_change_watched_files` and are no event of the model.
* `BuildCache`: WebAssembly artifacts, and the launch of the program that was
  built, before which `main` gives the lock back.
* The Rust compiler (syntax, analysis, lowering, optimization, back ends), which
  is most of the repository's lines: passes over unbounded syntax trees, without
  shared state or interleaving. A finite model would restate them line by line,
  and what is to be shown, that they preserve meaning, needs a semantics of the
  language. Generators, command line and package manager are sequential too;
  their caches shared between processes are planned.
* The components with status `not_modelled` in `PROJECT.json`.

## 7. Plan

Done, in this order: the foreign queue (every other part completes its futures
through it), the shared channel, the task pool, the native thread pool, the HTTP
server, the language server, the build cache.

Next modules:

1. `JsWorkers`: slots, boot timeout, late ready messages, reuse of idle workers
   and retirement in `runtime/src/workers.js`, with pin, settle and cancel of
   `async.js`. Properties: a message is credited to the session it belongs to,
   every dispatch settles once, a timed-out boot is not revived. Its failure
   records are what `TaskPool` assumes of its host, so `TaskPool`'s session events
   become the abstract specification it implements.
2. `Combinators`: `all` and `race` over children that are repeated, awaited by
   someone else or settled before they are added.
3. `Callbacks` (owner table, releases from other threads, `owner_finish`) and
   `RecursiveLock` (one condition variable per lock target, timed waiters).
4. `SharedCache`: generator executables and runtime units, content-addressed and
   evicted by age, shared by all builds of a machine.
5. The local channel as a second implementation of `ChannelFifo`; the timer heap
   as a pure algorithm against a sorted reference; `WeakRefs` for a weak load
   racing the last release.

Every invariant and every action property of the runs is a theorem.
Next theorems: the safety of `JsWorkers` and of `Callbacks` once they are
modelled, and that `TaskPool`'s host events are implemented by `JsWorkers`.
