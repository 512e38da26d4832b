--------------------------- MODULE SharedChannel ----------------------------
(***************************************************************************)
(* The channel that carries shared values between workers.                 *)
(*   sys/shared/channel.c       ring buffer, endpoints, closure, waits     *)
(*   sys/shared/cancellation.c  the registration lists the waits sleep on  *)
(*   shared_sender.dream, shared_receiver.dream, shared_channel_wait.dream *)
(*                              the send and receive loops                 *)
(*                                                                         *)
(* Every endpoint runs one call at a time.  An action is one critical      *)
(* section of the channel's mutex (with the lock of a signal nested in     *)
(* it), or one step of the loop between two of them.                       *)
(***************************************************************************)
EXTENDS Naturals, FiniteSets, Sequences

CONSTANTS
    Senders, Receivers,  \* endpoints
    Cancellable,         \* endpoints whose calls have a token to be cancelled
    Capacities,          \* arguments of dream_channel_new; 0 asks for no bound
    InitialCapacity,     \* slots an unbounded channel starts with
    MaxSends             \* bound: values each sender sends

ASSUME EndpointsFinite == IsFiniteSet(Senders) /\ IsFiniteSet(Receivers)
ASSUME EndpointsDisjoint == Senders \cap Receivers = {}
ASSUME CapacityType == Capacities \subseteq Nat /\ InitialCapacity \in Nat \ {0}
ASSUME MaxSendsType == MaxSends \in Nat

Endpoints == Senders \cup Receivers
Values == Senders \X (1..MaxSends)
NoValue == <<>>
NULL == [i \in {} |-> NoValue]  \* the ring after its release

VARIABLES
    (* SharedChannel *)
    items, capacity, head, count, \* ring
    bounded,                      \* a full ring makes senders wait
    senders, receivers,           \* open endpoints of each kind
    send_closed, receive_closed,
    readable, writable,           \* endpoints registered on each signal, oldest first
    (* ChannelEndpoint and the call it runs *)
    endpoint,                     \* "none", "open" or "closed"
    pc,                           \* where the call is
    blocking,                     \* receive/send, as opposed to try_receive/try_send
    done,                         \* the registration the call sleeps on was woken
    cancelled,                    \* the token of the current call is cancelled
    sends,                        \* values a sender had accepted
    (* history *)
    inbox                         \* what each receiver was given

ringVars == <<items, capacity, head, count>>
stateVars == <<bounded, senders, receivers, send_closed, receive_closed>>
signalVars == <<readable, writable, done>>
callVars == <<endpoint, pc, blocking, cancelled, sends, inbox>>
vars == <<ringVars, stateVars, signalVars, callVars>>

TypeOK ==
    /\ capacity \in Nat \ {0}
    /\ items = NULL \/ items \in [0..(capacity - 1) -> Values \cup {NoValue}]
    /\ head \in 0..(capacity - 1) /\ count \in 0..capacity
    /\ bounded \in BOOLEAN
    /\ senders \in 0..Cardinality(Senders)
    /\ receivers \in 0..Cardinality(Receivers)
    /\ send_closed \in BOOLEAN /\ receive_closed \in BOOLEAN
    /\ readable \in Seq(Receivers) /\ writable \in Seq(Senders)
    /\ endpoint \in [Endpoints -> {"none", "open", "closed"}]
    /\ pc \in [Endpoints -> {"idle", "top", "try", "status", "wait", "sleep",
                             "closed", "eof"}]
    /\ blocking \in [Endpoints -> BOOLEAN]
    /\ done \in [Endpoints -> BOOLEAN]
    /\ cancelled \in [Endpoints -> BOOLEAN]
    /\ sends \in [Senders -> 0..MaxSends]
    /\ inbox \in [Receivers -> Seq(Values)]

(* dream_channel_new *)
Init ==
    /\ \E c \in Capacities : /\ bounded = (c > 0)
                             /\ capacity = IF bounded THEN c ELSE InitialCapacity
    /\ items = [i \in 0..(capacity - 1) |-> NoValue]
    /\ head = 0 /\ count = 0
    /\ senders = 0 /\ receivers = 0
    /\ send_closed = FALSE /\ receive_closed = FALSE
    /\ readable = <<>> /\ writable = <<>>
    /\ endpoint = [e \in Endpoints |-> "none"]
    /\ pc = [e \in Endpoints |-> "idle"]
    /\ blocking = [e \in Endpoints |-> TRUE]
    /\ done = [e \in Endpoints |-> FALSE]
    /\ cancelled = [e \in Endpoints |-> FALSE]
    /\ sends = [s \in Senders |-> 0]
    /\ inbox = [r \in Receivers |-> <<>>]

-----------------------------------------------------------------------------
(* Signals: the FIFO registration list of a Cancellation source *)

(* notify_one: the oldest registration is detached and woken.               *)
notify_one(signal) ==
    IF signal = <<>> THEN UNCHANGED done
    ELSE done' = [done EXCEPT ![Head(signal)] = TRUE]

Rest(signal) == IF signal = <<>> THEN signal ELSE Tail(signal)

On(signal, e) == \E i \in 1..Len(signal) : signal[i] = e

(* detach of one registration, if it is linked. *)
Without(signal, e) ==
    IF On(signal, e)
    THEN LET i == CHOOSE i \in 1..Len(signal) : signal[i] = e
         IN  SubSeq(signal, 1, i - 1) \o SubSeq(signal, i + 1, Len(signal))
    ELSE signal

(* notify: cancelling the source wakes every registration; the next waiter  *)
(* creates a new source.                                                    *)
notify_all ==
    /\ done' = [e \in Endpoints |-> done[e] \/ On(readable, e) \/ On(writable, e)]
    /\ readable' = <<>> /\ writable' = <<>>

-----------------------------------------------------------------------------
(* Endpoints *)

(* dream_channel_endpoint: a new sender or receiver, at any time.           *)
dream_channel_endpoint(e) ==
    /\ endpoint[e] = "none"
    /\ endpoint' = [endpoint EXCEPT ![e] = "open"]
    /\ IF e \in Senders
       THEN senders' = senders + 1 /\ UNCHANGED receivers
       ELSE receivers' = receivers + 1 /\ UNCHANGED senders
    /\ UNCHANGED <<ringVars, bounded, send_closed, receive_closed, signalVars, pc,
                   blocking, cancelled, sends, inbox>>

(* Mutant: closing an endpoint again counts it twice. *)
close_again(e) ==
    /\ endpoint[e] # "none"
    /\ endpoint' = [endpoint EXCEPT ![e] = "closed"]
    /\ IF e \in Senders
       THEN senders' = senders - 1 /\ UNCHANGED receivers
       ELSE receivers' = receivers - 1 /\ UNCHANGED senders
    /\ notify_all
    /\ UNCHANGED <<ringVars, bounded, send_closed, receive_closed, pc, blocking,
                   cancelled, sends, inbox>>

(* dream_channel_close, also through an alias of the endpoint while its     *)
(* call sleeps.  The last receiver discards the queue.                      *)
dream_channel_close(e) ==
    /\ endpoint[e] = "open"
    /\ endpoint' = [endpoint EXCEPT ![e] = "closed"]
    /\ IF e \in Senders
       THEN /\ senders' = senders - 1
            /\ send_closed' = (send_closed \/ senders = 1)
            /\ UNCHANGED <<receivers, receive_closed, ringVars>>
       ELSE /\ receivers' = receivers - 1
            /\ receive_closed' = (receive_closed \/ receivers = 1)
            /\ IF receivers = 1
               THEN items' = NULL /\ head' = 0 /\ count' = 0 /\ UNCHANGED capacity
               ELSE UNCHANGED ringVars
            /\ UNCHANGED <<senders, send_closed>>
    /\ notify_all
    /\ UNCHANGED <<bounded, pc, blocking, cancelled, sends, inbox>>

-----------------------------------------------------------------------------
(* Calls *)

(* A call of send or receive (blocking) or of try_send or try_receive.      *)
(* Only a result of Closed or drained ends an endpoint's use for good.      *)
Start(e, b) ==
    /\ pc[e] = "idle" /\ endpoint[e] # "none"
    /\ e \in Senders => sends[e] < MaxSends
    /\ pc' = [pc EXCEPT ![e] = IF b THEN "top" ELSE "try"]
    /\ blocking' = [blocking EXCEPT ![e] = b]
    /\ UNCHANGED <<ringVars, stateVars, signalVars, endpoint, cancelled, sends,
                   inbox>>

(* The call goes on at p, or has returned; the token ends with the call.    *)
GoTo(e, p) ==
    /\ pc' = [pc EXCEPT ![e] = p]
    /\ cancelled' = [cancelled EXCEPT ![e] = @ /\ p \notin {"idle", "closed", "eof"}]
    /\ blocking' = [blocking EXCEPT ![e] = @ \/ p \in {"idle", "closed", "eof"}]

(* The top of the loop: is_cancelled_opt.                                   *)
CheckToken(e) ==
    /\ pc[e] = "top"
    /\ GoTo(e, IF cancelled[e] THEN "idle" ELSE "try")
    /\ UNCHANGED <<ringVars, stateVars, signalVars, endpoint, sends, inbox>>

(* Mutant: growing copies the slots without unwrapping them. *)
grown_wrapped == [i \in 0..(2 * capacity - 1) |->
                    IF i < count THEN items[i] ELSE NoValue]

(* The ring a full unbounded channel grows into.                            *)
Grown == [i \in 0..(2 * capacity - 1) |->
            IF i < count THEN items[(head + i) % capacity] ELSE NoValue]

(* What a finished attempt that must wait leads to: the blocking loop goes  *)
(* on, try_send and try_receive return Full or Empty.                       *)
MustWait(e) == IF blocking[e] THEN "wait" ELSE "idle"

(* dream_channel_send.                                                      *)
dream_channel_send(s) ==
    /\ pc[s] = "try"
    /\ IF endpoint[s] = "closed" \/ send_closed \/ receive_closed
       THEN /\ GoTo(s, "closed")
            /\ UNCHANGED <<ringVars, readable, done, sends>>
       ELSE IF count = capacity /\ bounded
       THEN /\ GoTo(s, MustWait(s))
            /\ UNCHANGED <<ringVars, readable, done, sends>>
       ELSE LET v == <<s, sends[s] + 1>> IN
            /\ IF count = capacity
               THEN /\ items' = [Grown EXCEPT ![count] = v]
                    /\ capacity' = 2 * capacity /\ head' = 0
               ELSE /\ items' = [items EXCEPT ![(head + count) % capacity] = v]
                    /\ UNCHANGED <<capacity, head>>
            /\ count' = count + 1
            /\ notify_one(readable) /\ readable' = Rest(readable)
            /\ sends' = [sends EXCEPT ![s] = @ + 1]
            /\ GoTo(s, "idle")
    /\ UNCHANGED <<stateVars, writable, endpoint, inbox>>

(* Mutant: no sender is notified. *)
receive_without_notify(r) ==
    /\ pc[r] = "try"
    /\ IF endpoint[r] = "closed" \/ receive_closed \/ count = 0
       THEN GoTo(r, "status") /\ UNCHANGED <<ringVars, inbox>>
       ELSE /\ inbox' = [inbox EXCEPT ![r] = Append(@, items[head])]
            /\ items' = [items EXCEPT ![head] = NoValue]
            /\ head' = (head + 1) % capacity
            /\ count' = count - 1 /\ UNCHANGED capacity
            /\ GoTo(r, "idle")
    /\ UNCHANGED <<stateVars, signalVars, endpoint, sends>>



(* dream_channel_receive.                                                   *)
dream_channel_receive(r) ==
    /\ pc[r] = "try"
    /\ IF endpoint[r] = "closed" \/ receive_closed \/ count = 0
       THEN /\ GoTo(r, "status")
            /\ UNCHANGED <<ringVars, writable, done, inbox>>
       ELSE /\ inbox' = [inbox EXCEPT ![r] = Append(@, items[head])]
            /\ items' = [items EXCEPT ![head] = NoValue]
            /\ head' = (head + 1) % capacity
            /\ count' = count - 1 /\ UNCHANGED capacity
            /\ notify_one(writable) /\ writable' = Rest(writable)
            /\ GoTo(r, "idle")
    /\ UNCHANGED <<stateVars, readable, endpoint, sends>>

(* Mutant: drained is reported although values are queued. *)
status_ignores_count(r) ==
    /\ pc[r] = "status"
    /\ GoTo(r, IF endpoint[r] = "closed" \/ receive_closed THEN "closed"
               ELSE IF send_closed THEN "eof"
               ELSE MustWait(r))
    /\ UNCHANGED <<ringVars, stateVars, signalVars, endpoint, sends, inbox>>

(* dream_channel_status: why nothing was received, looked at in a critical  *)
(* section of its own.                                                      *)
dream_channel_status(r) ==
    /\ pc[r] = "status"
    /\ GoTo(r, IF endpoint[r] = "closed" \/ receive_closed THEN "closed"
               ELSE IF send_closed /\ count = 0 THEN "eof"
               ELSE MustWait(r))
    /\ UNCHANGED <<ringVars, stateVars, signalVars, endpoint, sends, inbox>>

(* Mutant: a waiter does not look whether the channel was closed. *)
ready_ignores_closure(e) ==
    IF e \in Senders THEN ~bounded \/ count < capacity ELSE count > 0

(* Mutant: a waiter does not look whether a value or a slot came up. *)
ready_ignores_queue(e) == endpoint[e] = "closed" \/ receive_closed \/ send_closed

(* Readiness, as dream_channel_wait sees it.                                *)
Ready(e) ==
    \/ endpoint[e] = "closed" \/ receive_closed \/ send_closed
    \/ IF e \in Senders THEN ~bounded \/ count < capacity ELSE count > 0

(* dream_channel_wait: the registration is linked, and detached and woken   *)
(* again in the same critical section when the channel is ready.            *)
dream_channel_wait(e) ==
    /\ pc[e] = "wait"
    /\ GoTo(e, "sleep")
    /\ done' = [done EXCEPT ![e] = Ready(e)]
    /\ IF e \in Senders
       THEN /\ writable' = IF Ready(e) THEN writable ELSE Append(writable, e)
            /\ UNCHANGED readable
       ELSE /\ readable' = IF Ready(e) THEN readable ELSE Append(readable, e)
            /\ UNCHANGED writable
    /\ UNCHANGED <<ringVars, stateVars, endpoint, sends, inbox>>

(* Mutant: the registration stays linked. *)
unregister_keeps_link(e) ==
    done' = [done EXCEPT ![e] = FALSE] /\ UNCHANGED <<readable, writable>>

(* dream_cancellation_unregister: waiting.close() detaches what is linked.  *)
unregister(e) ==
    /\ readable' = Without(readable, e)
    /\ writable' = Without(writable, e)
    /\ done' = [done EXCEPT ![e] = FALSE]

(* The signal won: the loop tries again.                                    *)
WaitCompleted(e) ==
    /\ pc[e] = "sleep" /\ done[e]
    /\ unregister(e)
    /\ GoTo(e, "top")
    /\ UNCHANGED <<ringVars, stateVars, endpoint, sends, inbox>>

(* The token won the race of wait_completion; the signal may be set too.    *)
WaitCancelled(e) ==
    /\ pc[e] = "sleep" /\ cancelled[e]
    /\ unregister(e)
    /\ GoTo(e, "idle")
    /\ UNCHANGED <<ringVars, stateVars, endpoint, sends, inbox>>

(* CancellationSource.cancel of the token of a send or receive.             *)
CancelToken(e) ==
    /\ e \in Cancellable /\ ~cancelled[e]
    /\ blocking[e] /\ pc[e] \notin {"idle", "closed", "eof"}
    /\ cancelled' = [cancelled EXCEPT ![e] = TRUE]
    /\ UNCHANGED <<ringVars, stateVars, signalVars, endpoint, pc, blocking,
                   sends, inbox>>

-----------------------------------------------------------------------------
(* The loop of a call that was started. *)
Step(e) ==
    \/ CheckToken(e)
    \/ e \in Senders /\ dream_channel_send(e)
    \/ e \in Receivers /\ dream_channel_receive(e)
    \/ e \in Receivers /\ dream_channel_status(e)
    \/ dream_channel_wait(e)
    \/ WaitCompleted(e) \/ WaitCancelled(e)

Next ==
    \E e \in Endpoints :
        \/ dream_channel_endpoint(e) \/ dream_channel_close(e)
        \/ \E b \in BOOLEAN : Start(e, b)
        \/ Step(e)
        \/ CancelToken(e)

Spec == Init /\ [][Next]_vars

(* Each call runs on a scheduler that keeps polling it while it is runnable. *)
Fairness == \A e \in Endpoints : WF_vars(Step(e))

FairSpec == Spec /\ Fairness

-----------------------------------------------------------------------------
(* Properties *)

(* The queued values, oldest first. *)
Contents == [i \in 1..count |-> items[(head + i - 1) % capacity]]

(* The bound, the values accepted so far and the closed sides. *)
Room == IF bounded THEN capacity ELSE 0
Accepted == {v \in Values : v[2] <= sends[v[1]]}
Closed == {side \in {"send", "receive"} :
             IF side = "send" THEN send_closed ELSE receive_closed}

(* The ring with its growth, wrap-around and discarding implements a FIFO    *)
(* queue that delivers every accepted value at most once.                    *)
Fifo == INSTANCE ChannelFifo WITH
            queue <- Contents, limit <- Room, accepted <- Accepted, closed <- Closed
ImplementsFifo == Fifo!Spec

(* A receiver that was told "drained" can rely on it: the queue is empty and *)
(* stays empty, although receive and status are separate critical sections.  *)
EofIsFinal ==
    (\E r \in Receivers : pc[r] = "eof") => count = 0 /\ send_closed

(* A call sleeps registered, exactly once and on its own signal, until it is *)
(* woken; no stale registration stays behind.                                *)
SleepersRegistered ==
    \A e \in Endpoints :
        /\ pc[e] = "sleep" /\ ~done[e] <=> On(readable, e) \/ On(writable, e)
        /\ \A i, j \in 1..Len(readable) : readable[i] = readable[j] => i = j
        /\ \A i, j \in 1..Len(writable) : writable[i] = writable[j] => i = j

Asleep(e) == pc[e] = "sleep" /\ ~done[e]

(* A receiver does not sleep for ever next to a queued value.                *)
QueuedIsReceived ==
    \A r \in Receivers :
        (Asleep(r) /\ count > 0) ~> (~Asleep(r) \/ count = 0)

(* A sender does not sleep for ever next to a free slot.                     *)
RoomIsUsed ==
    \A s \in Senders :
        (Asleep(s) /\ count < capacity) ~> (~Asleep(s) \/ count = capacity)

(* Closing either side for good ends every call that is in progress.         *)
ClosureEndsCalls ==
    \A e \in Endpoints :
        send_closed \/ receive_closed ~> pc[e] \in {"idle", "closed", "eof"}

=============================================================================
