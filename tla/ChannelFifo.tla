---------------------------- MODULE ChannelFifo -----------------------------
(***************************************************************************)
(* What a shared channel promises (sys/shared/channel.c and the            *)
(* SharedSender / SharedReceiver classes): a first-in-first-out queue of   *)
(* values, each delivered to at most one receiver; values queued when the  *)
(* last sender closes stay available, and the last receiver to close       *)
(* discards what is queued.                                                *)
(***************************************************************************)
EXTENDS Naturals, Sequences

CONSTANTS Receivers, Values

VARIABLES limit,    \* how many values it holds, 0 for an unbounded channel
          queue,    \* accepted and not yet delivered
          inbox,    \* what each receiver was given, in order
          accepted, \* every value ever accepted
          closed    \* the sides that are closed: "send", "receive"

vars == <<limit, queue, inbox, accepted, closed>>

Init ==
    /\ limit \in Nat
    /\ queue = <<>> /\ accepted = {} /\ closed = {}
    /\ inbox = [r \in Receivers |-> <<>>]

(* A value is accepted once, while both sides are open and there is room. *)
Put(v) ==
    /\ closed = {} /\ v \notin accepted
    /\ limit = 0 \/ Len(queue) < limit
    /\ queue' = Append(queue, v)
    /\ accepted' = accepted \cup {v}
    /\ UNCHANGED <<limit, inbox, closed>>

Take(r) ==
    /\ queue # <<>>
    /\ inbox' = [inbox EXCEPT ![r] = Append(@, Head(queue))]
    /\ queue' = Tail(queue)
    /\ UNCHANGED <<limit, accepted, closed>>

CloseSend ==
    /\ closed' = closed \cup {"send"}
    /\ UNCHANGED <<limit, queue, inbox, accepted>>

CloseReceive ==
    /\ closed' = closed \cup {"receive"}
    /\ queue' = <<>>
    /\ UNCHANGED <<limit, inbox, accepted>>

Next ==
    \/ \E v \in Values : Put(v)
    \/ \E r \in Receivers : Take(r)
    \/ CloseSend \/ CloseReceive

Spec == Init /\ [][Next]_vars
=============================================================================
