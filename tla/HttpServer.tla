----------------------------- MODULE HttpServer -----------------------------
(***************************************************************************)
(* The native HTTP server behind the guest's WebApp: the listener task and *)
(* its drain, the connection tasks (HTTP/1.1, one request at a time), the  *)
(* dispatch of a request to the guest, the accept operation with the       *)
(* result that owns its request until it is claimed, the responders,       *)
(* upgrades to WebSockets, and the release of a request by whoever drops   *)
(* it last.  Tokio tasks, the operations' tasks and the guest thread run   *)
(* in parallel; an action is one stretch of code without an await or a     *)
(* lock at which another actor could change its outcome.  Bodies, headers, *)
(* uploads and HTTP/2 streams are left out.                                *)
(***************************************************************************)
EXTENDS Integers, Sequences, FiniteSets

CONSTANTS MaxRequests,     \* bound on the requests, numbered as they arrive
          MaxConnections,  \* bound on the connections, numbered as they open
          QueueRoom,       \* capacity of the channel to accept (256)
          Limits,          \* values of limit_concurrency, 0 for none
          None

ASSUME HttpAssumption ==
    /\ MaxRequests \in Nat /\ MaxConnections \in Nat
    /\ QueueRoom \in Nat \ {0}
    /\ Limits \subseteq Nat
    /\ None \notin Int /\ None \notin {"accept", "drain"}

Requests == 1..MaxRequests
Connections == 1..MaxConnections

VARIABLES
    stop,      \* Server.stop
    listener,  \* the task of listen: "accept", "drain" or, with a grace
               \* period, "timed", and "done"
    conn,      \* the task serve of a connection
    at,        \* the connection a request arrived on
    dispatch,  \* where dispatch is with a request
    answer,    \* what the client was sent
    leave,     \* progress of state::disconnect
    table,     \* the request in Tables.requests, and the rest of its release
    accepted,  \* Request.accepted
    reply,     \* the oneshot of the response
    kind,      \* what the responder answers: "full", "stream", "switch"
    stream,    \* Request.stream: "none", "open", "closed"
    gone,      \* Request.disconnected
    incoming,  \* the channel of request ids
    lock,      \* who holds Server.incoming
    accept,    \* the guest's accept loop and its operation
    got,       \* the request that the operation's result owns
    held       \* requests the guest has claimed and not dropped

requestVars == <<table, accepted, reply, kind, stream, gone>>
pathVars == <<conn, at, dispatch, answer, leave>>
guestVars == <<accept, got, held>>
serverVars == <<stop, listener>>
vars == <<serverVars, requestVars, pathVars, guestVars, incoming, lock>>

Elems(s) == {s[i] : i \in DOMAIN s}

Open(c) == conn[c] \in {"idle", "busy"}
Unfinished(r) == dispatch[r] \in {"sending", "waiting", "taken"}
done == listener = "done"

(* Both counters of limit_concurrency live as long as a task's Slot.       *)
InFlight == Cardinality({r \in Requests : Unfinished(r)})
Serving(c) == Open(c) \/ \E r \in Requests : at[r] = c /\ leave[r] # "no"
OpenConnections == Cardinality({c \in Connections : Serving(c)})

Init ==
    /\ stop = FALSE /\ listener = "accept"
    /\ conn = [c \in Connections |-> "new"]
    /\ at = [r \in Requests |-> None]
    /\ dispatch = [r \in Requests |-> "none"]
    /\ answer = [r \in Requests |-> "none"]
    /\ leave = [r \in Requests |-> "no"]
    /\ table = [r \in Requests |-> "absent"]
    /\ accepted = [r \in Requests |-> FALSE]
    /\ reply = [r \in Requests |-> "none"]
    /\ kind = [r \in Requests |-> "none"]
    /\ stream = [r \in Requests |-> "none"]
    /\ gone = [r \in Requests |-> FALSE]
    /\ incoming = <<>> /\ lock = None
    /\ accept = "idle" /\ got = None /\ held = {}

-----------------------------------------------------------------------------
(* state::release, by the guest, by an unclaimed result, by disconnect or  *)
(* by the drain: a no-op for all but the first to find the request in the  *)
(* table.                                                                  *)
Remove(r) == table' = [table EXCEPT ![r] = IF @ = "live" THEN "removed" ELSE @]

(* The rest of release, without the table's lock: it ends the stream,      *)
(* drops the reply's sender and signals the disconnect.                    *)
Release(r) ==
    /\ table[r] = "removed"
    /\ table' = [table EXCEPT ![r] = "released"]
    /\ stream' = [stream EXCEPT ![r] = IF @ = "open" THEN "closed" ELSE @]
    /\ reply' = [reply EXCEPT ![r] = IF @ = "held" THEN "dropped" ELSE @]
    /\ gone' = [gone EXCEPT ![r] = TRUE]
    /\ UNCHANGED <<serverVars, pathVars, guestVars, incoming, lock,
                   accepted, kind>>

-----------------------------------------------------------------------------
(* Connections.                                                            *)

(* The select of the listener is biased: it looks at stop first.           *)
Connect(c) ==
    /\ listener = "accept" /\ ~stop
    /\ conn[c] = "new" /\ \A b \in 1..(c - 1) : conn[b] # "new"
    /\ conn' = [conn EXCEPT ![c] = "idle"]
    /\ UNCHANGED <<serverVars, requestVars, guestVars, incoming, lock,
                   at, dispatch, answer, leave>>

(* hyper drops the futures of connections that end: a dispatch in progress,*)
(* and the guard of a body, whose drop signals the disconnect.  A response *)
(* that switches protocols has no guard.                                   *)
DropFutures(cs, name) ==
    /\ conn' = [c \in Connections |-> IF c \in cs THEN "closed" ELSE conn[c]]
    /\ dispatch' = [r \in Requests |->
                      IF at[r] \in cs /\ (Unfinished(r) \/ dispatch[r] = "body")
                      THEN name ELSE dispatch[r]]
    /\ gone' = [r \in Requests |->
                  gone[r] \/ (at[r] \in cs /\ dispatch[r] = "body" /\ kind[r] # "switch")]

(* The end of serve: every id of the connection goes to disconnect.        *)
EndConnection(c) ==
    /\ DropFutures({c}, "dropped")
    /\ leave' = [r \in Requests |->
                   IF at[r] = c /\ table[r] = "live" THEN "check" ELSE leave[r]]
    /\ UNCHANGED <<serverVars, guestVars, incoming, lock, at, answer,
                   table, accepted, reply, kind, stream>>

(* The client closes the connection, or stays silent for too long.         *)
ClientGone(c) == Open(c) /\ EndConnection(c)

(* graceful_shutdown closes an idle connection.                            *)
IdleAtStop(c) == stop /\ conn[c] = "idle"
GracefulClose(c) == IdleAtStop(c) /\ EndConnection(c)

(* A 101 response hands the transport over and ends the connection task.   *)
Switched(c) ==
    /\ conn[c] = "busy"
    /\ \E r \in Requests : at[r] = c /\ dispatch[r] = "body" /\ answer[r] = "switch"

SwitchProtocols(c) == Switched(c) /\ EndConnection(c)

(* state::disconnect reads accepted and acts on it later.                  *)
DisconnectCheck(r) ==
    /\ leave[r] = "check"
    /\ leave' = [leave EXCEPT ![r] = IF table[r] = "live" /\ ~accepted[r] THEN "act" ELSE "no"]
    /\ gone' = [gone EXCEPT ![r] = @ \/ (table[r] = "live" /\ accepted[r] /\ kind[r] # "switch")]
    /\ UNCHANGED <<serverVars, guestVars, incoming, lock, conn, at, dispatch, answer,
                   table, accepted, reply, kind, stream>>

DisconnectRelease(r) ==
    /\ leave[r] = "act"
    /\ Remove(r)
    /\ leave' = [leave EXCEPT ![r] = "no"]
    /\ UNCHANGED <<serverVars, guestVars, incoming, lock, conn, at, dispatch, answer,
                   accepted, reply, kind, stream, gone>>

-----------------------------------------------------------------------------
(* dispatch: one request from its arrival to its response.                 *)

(* limit_concurrency is some value of Limits; choosing it anew at each     *)
(* arrival covers every fixed choice.                                      *)
Rejected(limit) ==
    \/ limit > 0 /\ (InFlight + 1 > limit \/ OpenConnections > limit)
    \/ stop

\* Mutant of HasRoom: one id too many.
room_for_one_more == Len(incoming) <= QueueRoom

HasRoom == Len(incoming) < QueueRoom

(* Admission by the two counters and stop; the request enters the table    *)
(* and its id the channel, for which dispatch may have to wait.            *)
Arrive(r, c) ==
    /\ at[r] = None /\ \A q \in 1..(r - 1) : at[q] # None
    /\ conn[c] = "idle"
    /\ at' = [at EXCEPT ![r] = c]
    /\ \E limit \in Limits :
         IF Rejected(limit)
         THEN /\ answer' = [answer EXCEPT ![r] = "503"]
              /\ UNCHANGED <<conn, dispatch, table, reply, incoming>>
         ELSE /\ conn' = [conn EXCEPT ![c] = "busy"]
              /\ table' = [table EXCEPT ![r] = "live"]
              /\ reply' = [reply EXCEPT ![r] = "held"]
              /\ dispatch' = [dispatch EXCEPT ![r] = IF HasRoom THEN "waiting" ELSE "sending"]
              /\ incoming' = IF HasRoom THEN Append(incoming, r) ELSE incoming
              /\ UNCHANGED answer
    /\ UNCHANGED <<serverVars, guestVars, lock, leave, accepted, kind, stream, gone>>

(* incoming.send waited for room in the channel.                           *)
MaySend(r) == dispatch[r] = "sending" /\ HasRoom

Enqueue(r) ==
    /\ MaySend(r)
    /\ incoming' = Append(incoming, r)
    /\ dispatch' = [dispatch EXCEPT ![r] = "waiting"]
    /\ UNCHANGED <<serverVars, requestVars, guestVars, lock, conn, at, answer, leave>>

\* Mutant of Outcome: the disconnect is answered without asking whether a
\* responder has taken the sender.
disconnect_first(r) ==
    CASE reply[r] = "sent" -> kind[r]
      [] reply[r] = "dropped" -> "500"
      [] gone[r] -> "503"
      [] OTHER -> "none"

(* What the biased select makes of the two notifications: the response,    *)
(* else a dropped sender, else the disconnect; a sender that a responder   *)
(* has taken is waited for.                                                *)
Outcome(r) ==
    CASE reply[r] = "sent" -> kind[r]
      [] reply[r] = "dropped" -> "500"
      [] gone[r] /\ dispatch[r] = "waiting" /\ reply[r] = "held" -> "503"
      [] gone[r] /\ dispatch[r] = "waiting" -> "wait"
      [] OTHER -> "none"

MayAnswer(r) == dispatch[r] \in {"waiting", "taken"} /\ Outcome(r) # "none"

Answer(r) ==
    /\ MayAnswer(r)
    /\ IF Outcome(r) = "wait"
       THEN dispatch' = [dispatch EXCEPT ![r] = "taken"] /\ UNCHANGED answer
       ELSE /\ dispatch' = [dispatch EXCEPT ![r] = "body"]
            /\ answer' = [answer EXCEPT ![r] = Outcome(r)]
    /\ UNCHANGED <<serverVars, requestVars, guestVars, incoming, lock, conn, at, leave>>

(* The body is sent; a streamed one ends with its sender.  Dropping its    *)
(* guard signals the disconnect, and the connection takes the next request.*)
BodyEnds(r) ==
    /\ dispatch[r] = "body" /\ answer[r] # "switch"
    /\ answer[r] = "stream" => stream[r] = "closed"

BodySent(r) ==
    /\ BodyEnds(r)
    /\ dispatch' = [dispatch EXCEPT ![r] = "sent"]
    /\ gone' = [gone EXCEPT ![r] = TRUE]
    /\ conn' = [conn EXCEPT ![at[r]] = "idle"]
    /\ UNCHANGED <<serverVars, guestVars, incoming, lock, at, answer, leave,
                   table, accepted, reply, kind, stream>>

-----------------------------------------------------------------------------
(* The accept operation and the guest's loop around it (WebApp.serve).     *)

AcceptStart ==
    /\ accept = "idle"
    /\ IF ~stop /\ lock = None THEN accept' = "waiting" /\ lock' = "accept"
                               ELSE accept' = "failed" /\ UNCHANGED lock
    /\ UNCHANGED <<serverVars, requestVars, pathVars, incoming, got, held>>

(* request::accepted marks the request; an id whose request was released   *)
(* fails the operation.                                                    *)
IdReceived == accept = "waiting" /\ incoming # <<>>

AcceptReceive ==
    /\ IdReceived
    /\ incoming' = Tail(incoming)
    /\ lock' = None
    /\ IF table[Head(incoming)] = "live"
       THEN /\ accept' = "received" /\ got' = Head(incoming)
            /\ accepted' = [accepted EXCEPT ![Head(incoming)] = TRUE]
       ELSE accept' = "failed" /\ UNCHANGED <<got, accepted>>
    /\ UNCHANGED <<serverVars, pathVars, held, table, reply, kind, stream, gone>>

\* Mutant of StopSeen: the pending accept does not watch stop, and keeps the
\* receiver from the drain.
accept_ignores_stop == FALSE

StopSeen == accept = "waiting" /\ stop

AcceptStopped ==
    /\ StopSeen
    /\ accept' = "failed" /\ lock' = None
    /\ UNCHANGED <<serverVars, requestVars, pathVars, incoming, got, held>>

(* The loop reads the result, claims the request and releases the          *)
(* operation.                                                              *)
AcceptClaim ==
    /\ accept = "received"
    /\ held' = held \cup {got}
    /\ accept' = "idle" /\ got' = None
    /\ UNCHANGED <<serverVars, requestVars, pathVars, incoming, lock>>

(* The loop ends on any error, and shuts the server down.                  *)
AcceptFailed ==
    /\ accept = "failed"
    /\ accept' = "over"
    /\ stop' = TRUE
    /\ UNCHANGED <<listener, requestVars, pathVars, incoming, lock, got, held>>

(* The server's token is cancelled, or the guest drops the loop's frame:   *)
(* Operations::release aborts the operation, unless its task is past the   *)
(* last await, and the server is shut down.                                *)
AcceptDrop ==
    /\ accept \in {"waiting", "received"}
    /\ stop' = TRUE
    /\ accept' = IF accept = "received" THEN "orphan" ELSE "over"
    /\ lock' = IF accept = "waiting" THEN None ELSE lock
    /\ UNCHANGED <<listener, requestVars, pathVars, incoming, got, held>>

\* Mutant of AcceptUnclaimed: the result is dropped as if it had been claimed.
unclaimed_detached ==
    /\ accept = "orphan"
    /\ accept' = "over" /\ got' = None
    /\ UNCHANGED <<serverVars, requestVars, pathVars, incoming, lock, held>>

(* A result that nobody claimed is dropped with the request it owns.       *)
AcceptUnclaimed ==
    /\ accept = "orphan"
    /\ accept' = "over" /\ got' = None
    /\ Remove(got)
    /\ UNCHANGED <<serverVars, pathVars, incoming, lock, held,
                   accepted, reply, kind, stream, gone>>

(* WebApp.shutdown, or the guest closes the server.                        *)
Shutdown ==
    /\ ~stop
    /\ stop' = TRUE
    /\ UNCHANGED <<listener, requestVars, pathVars, guestVars, incoming, lock>>

-----------------------------------------------------------------------------
(* The guest's handlers.  A responder runs as an operation of its own and  *)
(* overlaps with the guest dropping the request.                           *)

(* The common start of response::send, stream::begin and upgrade: the      *)
(* request is looked up and its sender taken.                              *)
Take(r, k) ==
    /\ r \in held /\ table[r] = "live" /\ reply[r] = "held"
    /\ reply' = [reply EXCEPT ![r] = IF k = "stream" THEN "begin" ELSE "taken"]
    /\ kind' = [kind EXCEPT ![r] = k]
    /\ UNCHANGED <<serverVars, pathVars, guestVars, incoming, lock, table,
                   accepted, stream, gone>>

Respond(r) == Take(r, "full")
StreamBegin(r) == Take(r, "stream")
Upgrade(r) == Take(r, "switch")

(* stream::begin keeps the sender of the body in the request.              *)
StreamOpen(r) ==
    /\ reply[r] = "begin"
    /\ stream' = [stream EXCEPT ![r] = "open"]
    /\ reply' = [reply EXCEPT ![r] = "taken"]
    /\ UNCHANGED <<serverVars, pathVars, guestVars, incoming, lock, table,
                   accepted, kind, gone>>

(* The response goes to dispatch, if that still runs.                      *)
SendReply(r) ==
    /\ reply[r] = "taken"
    /\ reply' = [reply EXCEPT ![r] = IF Unfinished(r) THEN "sent" ELSE "lost"]
    /\ UNCHANGED <<serverVars, pathVars, guestVars, incoming, lock, table,
                   accepted, kind, stream, gone>>

StreamEnd(r) ==
    /\ r \in held /\ table[r] = "live" /\ stream[r] = "open"
    /\ stream' = [stream EXCEPT ![r] = "closed"]
    /\ UNCHANGED <<serverVars, pathVars, guestVars, incoming, lock, table,
                   accepted, reply, kind, gone>>

(* on_upgrade yields the transport once hyper has sent the 101.  The       *)
(* WebSocket lives apart from the connection, and its watcher signals the  *)
(* disconnect.                                                             *)
SocketClosed(r) ==
    /\ answer[r] = "switch" /\ dispatch[r] # "body" /\ ~gone[r]
    /\ gone' = [gone EXCEPT ![r] = TRUE]
    /\ UNCHANGED <<serverVars, pathVars, guestVars, incoming, lock, table, accepted,
                   reply, kind, stream>>

(* HttpIncoming is dropped.                                                *)
GuestRelease(r) ==
    /\ r \in held
    /\ held' = held \ {r}
    /\ Remove(r)
    /\ UNCHANGED <<serverVars, pathVars, incoming, lock, accept, got,
                   accepted, reply, kind, stream, gone>>

-----------------------------------------------------------------------------
(* The listener's end.                                                     *)

(* It leaves its loop because of stop or because accepting failed.  Here   *)
(* timeout_graceful_shutdown, a setting, is first read; choosing it here   *)
(* covers both of its values.                                              *)
StopListening ==
    /\ listener = "accept"
    /\ listener' \in {"drain", "timed"} /\ stop' = TRUE
    /\ UNCHANGED <<requestVars, pathVars, guestVars, incoming, lock>>

(* "Requests that arrived but were never accepted by the guest": the drain *)
(* takes the receiver and releases what is in it, until all senders, the   *)
(* connections', are gone.                                                 *)
ReceiverFree == listener \in {"drain", "timed"} /\ lock = None

DrainLock ==
    /\ ReceiverFree
    /\ lock' = "drain"
    /\ UNCHANGED <<serverVars, requestVars, pathVars, guestVars, incoming>>

NeverAccepted == lock = "drain" /\ incoming # <<>>

DrainOne ==
    /\ NeverAccepted
    /\ incoming' = Tail(incoming)
    /\ Remove(Head(incoming))
    /\ UNCHANGED <<serverVars, pathVars, guestVars, lock,
                   accepted, reply, kind, stream, gone>>

(* The grace period ends: connections are aborted, which drops serve       *)
(* before it tells the requests.                                           *)
GraceOver == listener = "timed" /\ \E c \in Connections : Open(c)

DrainTimeout ==
    /\ GraceOver
    /\ DropFutures({c \in Connections : Open(c)}, "aborted")
    /\ UNCHANGED <<serverVars, guestVars, incoming, lock, at, answer, leave,
                   table, accepted, reply, kind, stream>>

SendersGone == lock = "drain" /\ incoming = <<>> /\ \A c \in Connections : ~Serving(c)

\* Mutant of Finish: the requests the guest still has are told nothing.
finish_silently ==
    /\ SendersGone
    /\ listener' = "done" /\ lock' = None
    /\ UNCHANGED <<stop, requestVars, pathVars, guestVars, incoming>>

(* The requests that are left learn that their client is gone.             *)
Finish ==
    /\ SendersGone
    /\ listener' = "done" /\ lock' = None
    /\ gone' = [r \in Requests |-> gone[r] \/ table[r] = "live"]
    /\ UNCHANGED <<stop, pathVars, guestVars, incoming, table, accepted, reply, kind,
                   stream>>

-----------------------------------------------------------------------------
(* Steps of tasks and of the guest that are due once they are possible.    *)
AcceptTask == AcceptStart \/ AcceptReceive \/ AcceptStopped \/ AcceptClaim
              \/ AcceptFailed \/ AcceptUnclaimed
DrainTask == DrainLock \/ DrainOne \/ Finish
DispatchTask(r) == Enqueue(r) \/ Answer(r) \/ BodySent(r)
DisconnectTask(r) == DisconnectCheck(r) \/ DisconnectRelease(r)
ResponderTask(r) == StreamOpen(r) \/ SendReply(r)
ConnectionTask(c) == GracefulClose(c) \/ SwitchProtocols(c)

(* Steps that clients and handlers take if they like.                      *)
Choice ==
    \/ AcceptDrop \/ Shutdown \/ StopListening
    \/ \E c \in Connections : Connect(c) \/ ClientGone(c)
    \/ \E r \in Requests : \/ Respond(r) \/ StreamBegin(r) \/ Upgrade(r) \/ StreamEnd(r)
                           \/ SocketClosed(r)
                           \/ \E c \in Connections : Arrive(r, c)

(* Tasks that are polled until they end, handlers that end, and the grace  *)
(* period.  No step of theirs can be repeated for ever.                    *)
Progress ==
    \/ AcceptTask \/ DrainTask \/ DrainTimeout \/ (stop /\ StopListening)
    \/ \E c \in Connections : ConnectionTask(c)
    \/ \E r \in Requests : \/ Release(r) \/ DispatchTask(r) \/ DisconnectTask(r)
                           \/ ResponderTask(r) \/ GuestRelease(r)

(* The guards of Progress: some of its steps can be taken.                 *)
Due ==
    \/ accept \in {"idle", "received", "failed", "orphan"} \/ IdReceived \/ StopSeen
    \/ ReceiverFree \/ NeverAccepted \/ SendersGone \/ GraceOver
    \/ stop /\ listener = "accept"
    \/ \E c \in Connections : IdleAtStop(c) \/ Switched(c)
    \/ \E r \in Requests : \/ table[r] = "removed" \/ MaySend(r) \/ MayAnswer(r) \/ BodyEnds(r)
                           \/ leave[r] \in {"check", "act"} \/ reply[r] \in {"begin", "taken"}
                           \/ r \in held

Next == Progress \/ Choice

Spec == Init /\ [][Next]_vars

(* Every task is polled when it can go on, every handler ends, and the     *)
(* grace period passes.  Clients and handlers may do nothing at all.       *)
FairSpec == Spec /\ WF_vars(Progress)

-----------------------------------------------------------------------------
TypeOK ==
    /\ stop \in BOOLEAN
    /\ listener \in {"accept", "drain", "timed", "done"}
    /\ conn \in [Connections -> {"new", "idle", "busy", "closed"}]
    /\ at \in [Requests -> Connections \cup {None}]
    /\ dispatch \in [Requests -> {"none", "sending", "waiting", "taken", "body", "sent",
                                 "dropped", "aborted"}]
    /\ answer \in [Requests -> {"none", "full", "stream", "switch", "500", "503"}]
    /\ leave \in [Requests -> {"no", "check", "act"}]
    /\ table \in [Requests -> {"absent", "live", "removed", "released"}]
    /\ accepted \in [Requests -> BOOLEAN]
    /\ reply \in [Requests -> {"none", "held", "begin", "taken", "sent", "dropped", "lost"}]
    /\ kind \in [Requests -> {"none", "full", "stream", "switch"}]
    /\ stream \in [Requests -> {"none", "open", "closed"}]
    /\ gone \in [Requests -> BOOLEAN]
    /\ incoming \in Seq(Requests) /\ Len(incoming) <= QueueRoom
    /\ lock \in {None, "accept", "drain"}
    /\ accept \in {"idle", "waiting", "received", "orphan", "failed", "over"}
    /\ got \in Requests \cup {None} /\ held \subseteq Requests

(* A request in the table is on its way to somebody who will release it:   *)
(* the channel, a dispatch that still sends, an accept result, the guest   *)
(* or a disconnect.  (accepted and claim change hands while clients leave, *)
(* operations are aborted and the server drains.)  The one that is lost    *)
(* waited for room in the channel when the grace period ended.             *)
NoOrphan ==
    \A r \in Requests : table[r] = "live" =>
        \/ r \in Elems(incoming) \/ dispatch[r] = "sending"
        \/ got = r \/ r \in held \/ leave[r] # "no"
        \/ dispatch[r] = "aborted" /\ ~accepted[r]

(* "A queued response must win when both notifications are ready": once a  *)
(* responder has the sender, its client is never told that the request was *)
(* abandoned or cancelled.                                                 *)
ResponseWins ==
    \A r \in Requests : answer[r] \in {"500", "503"} => kind[r] = "none"

(* When the drain is over nothing of the server is left waiting: no        *)
(* dispatch, no queued request, and every request the guest still has      *)
(* knows that its client is gone.                                          *)
DoneIsQuiet ==
    done => /\ incoming = <<>>
            /\ \A r \in Requests : ~Unfinished(r) /\ (table[r] = "live" => gone[r])

(* The sender of a stream that nobody can reach any more: release ran      *)
(* between the two locks of stream::begin.                                 *)
OrphanStream(r) == stream[r] = "open" /\ table[r] = "released"

(* Nothing waits for everything else: when no task can go on and the guest *)
(* holds no request, every request has been answered or has lost its       *)
(* client, and a server that was stopped has finished its drain.  What may *)
(* keep it is a connection whose stream has lost its owner, if there is no *)
(* grace period.                                                           *)
NothingStuck ==
    ~Due /\ (listener = "timed" \/ ~\E r \in Requests : OrphanStream(r)) =>
        /\ \A r \in Requests : ~Unfinished(r)
        /\ stop => done

(* "waits until shutdown or cancellation": an accept that fails does not   *)
(* stop a server that nobody asked to stop.                                *)
StopsOnlyOnRequest == [][~stop /\ stop' => accept # "failed"]_vars
=============================================================================
