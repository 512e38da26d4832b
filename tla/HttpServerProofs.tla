-------------------------- MODULE HttpServerProofs --------------------------
(***************************************************************************)
(* Proofs about HttpServer, for any number of requests and connections,    *)
(* any capacity of the channel and any limits.                             *)
(***************************************************************************)
EXTENDS HttpServer, SequenceTheorems, FiniteSetTheorems, TLAPS

(* A request that its connection works on.                                 *)
Active(r) == Unfinished(r) \/ dispatch[r] = "body"

(* Nothing is known of a request that has not arrived.                     *)
Unarrived ==
    \A r \in Requests :
        at[r] = None =>
            /\ dispatch[r] = "none" /\ table[r] = "absent" /\ answer[r] = "none"
            /\ kind[r] = "none" /\ leave[r] = "no" /\ ~accepted[r] /\ ~gone[r]
            /\ r \notin Elems(incoming)

(* A busy connection works on one request, and only busy ones work.        *)
OneAtATime ==
    \A r \in Requests :
        Active(r) =>
            /\ at[r] # None /\ conn[at[r]] = "busy"
            /\ \A q \in Requests : Active(q) /\ at[q] = at[r] => q = r

(* dispatch is over when there is an answer, when the connection has told  *)
(* disconnect, and when the request is gone without its release.           *)
Over ==
    \A r \in Requests :
        Unfinished(r) => /\ answer[r] = "none" /\ leave[r] = "no"
                         /\ gone[r] => table[r] = "released"

(* Who has the sender of the response, and what was said without it.       *)
Sender ==
    \A r \in Requests :
        /\ kind[r] = "none" <=> reply[r] \in {"none", "held", "dropped"}
        /\ table[r] = "released" => reply[r] # "held"
        /\ answer[r] = "500" => reply[r] = "dropped"
        /\ answer[r] = "503" => table[r] = "absent" /\ kind[r] = "none"

(* An id is in the channel after dispatch has sent it, and not before.     *)
Sent ==
    \A r \in Requests :
        dispatch[r] = "sending" => ~accepted[r] /\ r \notin Elems(incoming)

(* An accepted request belongs to a result or to the guest until it is     *)
(* released.                                                               *)
Owned ==
    /\ got # None <=> accept \in {"received", "orphan"}
    /\ \A r \in Requests : accepted[r] /\ table[r] = "live" => got = r \/ r \in held

(* After the drain no connection is open or opens.                         *)
AllClosed == done => \A c \in Connections : ~Open(c)

IInv == /\ TypeOK /\ Unarrived /\ OneAtATime /\ Over /\ Sender /\ Sent /\ Owned
        /\ AllClosed /\ NoOrphan /\ DoneIsQuiet

-----------------------------------------------------------------------------
(* What the type invariant says of each variable. *)
LEMMA Typed ==
  ASSUME IInv
  PROVE  /\ conn \in [Connections -> {"new", "idle", "busy", "closed"}]
         /\ at \in [Requests -> Connections \cup {None}]
         /\ dispatch \in [Requests -> {"none", "sending", "waiting", "taken", "body",
                                       "sent", "dropped", "aborted"}]
         /\ answer \in [Requests -> {"none", "full", "stream", "switch", "500", "503"}]
         /\ leave \in [Requests -> {"no", "check", "act"}]
         /\ table \in [Requests -> {"absent", "live", "removed", "released"}]
         /\ accepted \in [Requests -> BOOLEAN]
         /\ reply \in [Requests -> {"none", "held", "begin", "taken", "sent", "dropped",
                                    "lost"}]
         /\ kind \in [Requests -> {"none", "full", "stream", "switch"}]
         /\ stream \in [Requests -> {"none", "open", "closed"}]
         /\ gone \in [Requests -> BOOLEAN]
         /\ incoming \in Seq(Requests) /\ Len(incoming) <= QueueRoom
         /\ got \in Requests \cup {None} /\ held \subseteq Requests
BY DEF IInv, TypeOK

LEMMA Distinct ==
  /\ \A r \in Requests : r # None
  /\ \A c \in Connections : c # None
BY HttpAssumption DEF Requests, Connections

(* The channel: what is in it after an id was sent or received. *)
LEMMA AppendFacts ==
  ASSUME NEW s \in Seq(Requests), NEW r \in Requests
  PROVE  /\ Append(s, r) \in Seq(Requests)
         /\ Len(Append(s, r)) = Len(s) + 1
         /\ Elems(Append(s, r)) = Elems(s) \cup {r}
<1>1. /\ Append(s, r) \in Seq(Requests) /\ Len(Append(s, r)) = Len(s) + 1 /\ Len(s) \in Nat
      /\ \A i \in 1..Len(s) : Append(s, r)[i] = s[i]
      /\ Append(s, r)[Len(s) + 1] = r
  OBVIOUS
<1>2. DOMAIN s = 1..Len(s) /\ DOMAIN Append(s, r) = 1..(Len(s) + 1)
  BY <1>1
<1> QED
  BY <1>1, <1>2 DEF Elems

LEMMA TailFacts ==
  ASSUME NEW s \in Seq(Requests), s # <<>>
  PROVE  /\ Head(s) \in Requests /\ Tail(s) \in Seq(Requests)
         /\ Len(Tail(s)) = Len(s) - 1 /\ Len(s) \in Nat
         /\ Elems(Tail(s)) \subseteq Elems(s) /\ Head(s) \in Elems(s)
         /\ Elems(s) \subseteq Elems(Tail(s)) \cup {Head(s)}
<1>1. /\ Head(s) = s[1] /\ Tail(s) \in Seq(Requests) /\ Len(s) \in Nat /\ Len(s) >= 1
      /\ Len(Tail(s)) = Len(s) - 1
      /\ \A i \in 1..(Len(s) - 1) : Tail(s)[i] = s[i + 1]
      /\ \A i \in 1..Len(s) : s[i] \in Requests
  OBVIOUS
<1>2. DOMAIN s = 1..Len(s) /\ DOMAIN Tail(s) = 1..(Len(s) - 1)
  BY <1>1
<1>3. Elems(Tail(s)) \subseteq Elems(s) /\ Head(s) \in Elems(s)
  BY <1>1, <1>2 DEF Elems
<1>4. ASSUME NEW x \in Elems(s), x # Head(s)
      PROVE  x \in Elems(Tail(s))
  <2>1. PICK i \in 1..Len(s) : x = s[i]
    BY <1>2, <1>4 DEF Elems
  <2>2. i - 1 \in 1..(Len(s) - 1) /\ Tail(s)[i - 1] = x
    BY <1>1, <1>4, <2>1
  <2> QED
    BY <1>2, <2>2 DEF Elems
<1> QED
  BY <1>1, <1>3, <1>4

LEMMA InitIInv == Init => IInv
<1> SUFFICES ASSUME Init PROVE IInv
  OBVIOUS
<1>1. TypeOK
  <2>1. incoming \in Seq(Requests) /\ Len(incoming) <= QueueRoom
    BY HttpAssumption DEF Init
  <2>2. /\ stop \in BOOLEAN /\ accepted \in [Requests -> BOOLEAN]
        /\ gone \in [Requests -> BOOLEAN]
    BY DEF Init
  <2> QED
    BY <2>1, <2>2 DEF Init, TypeOK
<1>2. Elems(incoming) = {}
  BY DEF Init, Elems
<1>3. Unarrived /\ OneAtATime /\ Over /\ Sender /\ Sent
  BY <1>2 DEF Init, Unarrived, OneAtATime, Over, Sender, Sent, Active, Unfinished
<1>4. Owned /\ AllClosed /\ NoOrphan /\ DoneIsQuiet
  BY DEF Init, Owned, AllClosed, NoOrphan, DoneIsQuiet, done
<1> QED
  BY <1>1, <1>3, <1>4 DEF IInv

(* The rest of a release. *)
LEMMA Inv_Release ==
  ASSUME IInv, NEW r \in Requests, Release(r)
  PROVE  IInv'
<1>1. TypeOK'
  BY Typed DEF IInv, TypeOK, Release, serverVars, pathVars, guestVars
<1>2. Unarrived'
  BY Typed DEF IInv, Unarrived, Elems, Release, serverVars, pathVars,
     guestVars
<1>3. Over'
  BY Typed DEF IInv, Over, Unfinished, Release, serverVars, pathVars,
     guestVars
<1>4. Sender'
  BY Typed DEF IInv, Sender, Release, serverVars, pathVars, guestVars
<1>5. Owned'
  BY Typed DEF IInv, Owned, Release, serverVars, pathVars, guestVars
<1>6. NoOrphan'
  BY Typed DEF IInv, NoOrphan, Elems, Release, serverVars, pathVars, guestVars
<1>7. DoneIsQuiet'
  BY Typed DEF IInv, DoneIsQuiet, done, Unfinished, Release, serverVars,
     pathVars, guestVars
<1>8. OneAtATime' /\ Sent' /\ AllClosed'
  BY DEF IInv, OneAtATime, Active, Unfinished, Sent, Elems, AllClosed, done,
     Open, Release, serverVars, pathVars, guestVars
<1> QED
  BY <1>1, <1>2, <1>3, <1>4, <1>5, <1>6, <1>7, <1>8 DEF IInv

(* A connection opens while the server listens. *)
LEMMA Inv_Connect ==
  ASSUME IInv, NEW c \in Connections, Connect(c)
  PROVE  IInv'
<1>1. TypeOK'
  BY Typed DEF IInv, TypeOK, Connect, serverVars, requestVars, guestVars
<1>2. OneAtATime'
  BY Typed DEF IInv, OneAtATime, Active, Unfinished, Connect, serverVars,
     requestVars, guestVars
<1>3. AllClosed'
  BY Typed DEF IInv, AllClosed, done, Open, Connect, serverVars, requestVars,
     guestVars
<1>4. /\ Unarrived' /\ Over' /\ Sender' /\ Sent' /\ Owned'
      /\ NoOrphan' /\ DoneIsQuiet'
  BY DEF IInv, Unarrived, Elems, Over, Unfinished, Sender, Sent, Owned,
     NoOrphan, DoneIsQuiet, done, Connect, serverVars, requestVars, guestVars
<1> QED
  BY <1>1, <1>2, <1>3, <1>4 DEF IInv

(* A connection ends and tells disconnect of its requests. *)
LEMMA Inv_EndConnection ==
  ASSUME IInv, NEW c \in Connections, Open(c),
         EndConnection(c)
  PROVE  IInv'
<1>1. TypeOK'
  BY Typed, Distinct DEF IInv, TypeOK, EndConnection, DropFutures, serverVars,
     guestVars
<1>2. Unarrived'
  BY Typed, Distinct DEF IInv, Unarrived, Elems, EndConnection, DropFutures,
     serverVars, guestVars
<1>3. OneAtATime'
  BY Typed, Distinct DEF IInv, OneAtATime, Active, Unfinished, EndConnection,
     DropFutures, serverVars, guestVars
<1>4. Over'
  BY Typed, Distinct DEF IInv, Over, Unfinished, EndConnection, DropFutures,
     serverVars, guestVars
<1>5. Sent'
  BY Typed, Distinct DEF IInv, Sent, Elems, EndConnection, DropFutures,
     serverVars, guestVars
<1>6. AllClosed'
  BY Typed, Distinct DEF IInv, AllClosed, done, Open, EndConnection,
     DropFutures, serverVars, guestVars
<1>7. NoOrphan'
  BY Typed, Distinct DEF IInv, NoOrphan, Elems, EndConnection, DropFutures,
     serverVars, guestVars
<1>8. DoneIsQuiet'
  BY Typed, Distinct DEF IInv, DoneIsQuiet, done, Unfinished, EndConnection,
     DropFutures, serverVars, guestVars
<1>9. Sender' /\ Owned'
  BY DEF IInv, Sender, Owned, EndConnection, DropFutures, serverVars,
     guestVars
<1> QED
  BY <1>1, <1>2, <1>3, <1>4, <1>5, <1>6, <1>7, <1>8, <1>9 DEF IInv

(* disconnect leaves an accepted request to its owner. *)
LEMMA Inv_DisconnectCheck ==
  ASSUME IInv, NEW r \in Requests,
         DisconnectCheck(r)
  PROVE  IInv'
<1>1. TypeOK'
  BY Typed DEF IInv, TypeOK, DisconnectCheck, serverVars, guestVars
<1>2. Unarrived'
  BY Typed DEF IInv, Unarrived, Elems, DisconnectCheck, serverVars, guestVars
<1>3. Over'
  BY Typed DEF IInv, Over, Unfinished, DisconnectCheck, serverVars, guestVars
<1>4. NoOrphan'
  BY Typed DEF IInv, NoOrphan, Elems, Owned, DisconnectCheck, serverVars,
     guestVars
<1>5. DoneIsQuiet'
  BY Typed DEF IInv, DoneIsQuiet, done, Unfinished, DisconnectCheck,
     serverVars, guestVars
<1>6. OneAtATime' /\ Sender' /\ Sent' /\ Owned' /\ AllClosed'
  BY DEF IInv, OneAtATime, Active, Unfinished, Sender, Sent, Elems, Owned,
     AllClosed, done, Open, DisconnectCheck, serverVars, guestVars
<1> QED
  BY <1>1, <1>2, <1>3, <1>4, <1>5, <1>6 DEF IInv

(* disconnect releases the request, even if it was accepted meanwhile. *)
LEMMA Inv_DisconnectRelease ==
  ASSUME IInv, NEW r \in Requests,
         DisconnectRelease(r)
  PROVE  IInv'
<1>1. TypeOK'
  BY Typed DEF IInv, TypeOK, DisconnectRelease, Remove, serverVars, guestVars
<1>2. Unarrived'
  BY Typed DEF IInv, Unarrived, Elems, DisconnectRelease, Remove, serverVars,
     guestVars
<1>3. Over'
  BY Typed DEF IInv, Over, Unfinished, DisconnectRelease, Remove, serverVars,
     guestVars
<1>4. Sender'
  BY Typed DEF IInv, Sender, DisconnectRelease, Remove, serverVars, guestVars
<1>5. Owned'
  BY Typed DEF IInv, Owned, DisconnectRelease, Remove, serverVars, guestVars
<1>6. NoOrphan'
  BY Typed DEF IInv, NoOrphan, Elems, DisconnectRelease, Remove, serverVars,
     guestVars
<1>7. DoneIsQuiet'
  BY Typed DEF IInv, DoneIsQuiet, done, Unfinished, DisconnectRelease, Remove,
     serverVars, guestVars
<1>8. OneAtATime' /\ Sent' /\ AllClosed'
  BY DEF IInv, OneAtATime, Active, Unfinished, Sent, Elems, AllClosed, done,
     Open, DisconnectRelease, Remove, serverVars, guestVars
<1> QED
  BY <1>1, <1>2, <1>3, <1>4, <1>5, <1>6, <1>7, <1>8 DEF IInv

(* A request is rejected, or enters the table and the channel. *)
LEMMA Inv_Arrive ==
  ASSUME IInv, NEW r \in Requests, NEW c \in Connections,
         Arrive(r, c)
  PROVE  IInv'
<1>0. /\ at[r] = None /\ conn[c] = "idle" /\ at' = [at EXCEPT ![r] = c]
      /\ UNCHANGED <<stop, listener, accept, got, held, lock, leave, accepted, kind,
                      stream, gone>>
      /\ dispatch[r] = "none" /\ table[r] = "absent" /\ answer[r] = "none"
      /\ kind[r] = "none" /\ leave[r] = "no" /\ ~accepted[r] /\ ~gone[r]
      /\ r \notin Elems(incoming)
  BY DEF IInv, Unarrived, Arrive, serverVars, guestVars
<1>a. ~done
  BY <1>0 DEF IInv, AllClosed, Open
<1>b. \A q \in Requests : Active(q) => at[q] # c /\ q # r
  BY <1>0 DEF IInv, OneAtATime, Active, Unfinished
<1>1. CASE /\ answer' = [answer EXCEPT ![r] = "503"]
           /\ UNCHANGED <<conn, dispatch, table, reply, incoming>>
  <2>1. TypeOK'
    BY <1>0, <1>1, Typed DEF IInv, TypeOK
  <2>2. Unarrived' /\ Sender'
    BY <1>0, <1>1, Typed, Distinct DEF IInv, Unarrived, Sender
  <2>3. OneAtATime'
    BY <1>0, <1>b, <1>1, Typed DEF IInv, OneAtATime, Active, Unfinished
  <2>4. Over' /\ Sent' /\ Owned' /\ NoOrphan'
    BY <1>0, <1>1, Typed DEF IInv, Over, Unfinished, Sent, Owned, NoOrphan
  <2>5. AllClosed' /\ DoneIsQuiet'
    BY <1>0, <1>a DEF AllClosed, DoneIsQuiet, done
  <2> QED
    BY <2>1, <2>2, <2>3, <2>4, <2>5 DEF IInv
<1>2. CASE /\ conn' = [conn EXCEPT ![c] = "busy"]
           /\ table' = [table EXCEPT ![r] = "live"]
           /\ reply' = [reply EXCEPT ![r] = "held"]
           /\ dispatch' = [dispatch EXCEPT ![r] = IF HasRoom THEN "waiting" ELSE "sending"]
           /\ incoming' = IF HasRoom THEN Append(incoming, r) ELSE incoming
           /\ UNCHANGED answer
  <2>0. /\ incoming' \in Seq(Requests) /\ Len(incoming') <= QueueRoom
        /\ Elems(incoming) \subseteq Elems(incoming')
        /\ Elems(incoming') \subseteq Elems(incoming) \cup {r}
        /\ \/ dispatch'[r] = "waiting" /\ r \in Elems(incoming')
           \/ dispatch'[r] = "sending" /\ r \notin Elems(incoming')
    BY <1>0, <1>2, Typed, AppendFacts, HttpAssumption DEF HasRoom
  <2>a. \A q \in Requests : q # r =>
          /\ dispatch'[q] = dispatch[q] /\ table'[q] = table[q] /\ reply'[q] = reply[q]
          /\ at'[q] = at[q]
    BY <1>0, <1>2, Typed
  <2>b. at'[r] = c /\ table'[r] = "live" /\ reply'[r] = "held" /\ conn'[c] = "busy"
    BY <1>0, <1>2, Typed
  <2>1. TypeOK'
    BY <1>0, <1>2, <2>0, Typed DEF IInv, TypeOK
  <2>2. Unarrived'
    BY <1>0, <1>2, <2>0, <2>a, <2>b, Distinct DEF IInv, Unarrived
  <2>3. OneAtATime'
    <3>1. \A q \in Requests : q # r /\ Active(q)' => Active(q)
      BY <2>a DEF Active, Unfinished
    <3>2. \A q \in Requests : q # r /\ Active(q) =>
            at[q] \in Connections /\ conn'[at[q]] = "busy" /\ at[q] # c
      BY <1>b, <1>2, Typed DEF IInv, OneAtATime
    <3> QED
      BY <2>a, <2>b, <3>1, <3>2, Distinct DEF IInv, OneAtATime
  <2>4. Over'
    BY <1>0, <1>2, <2>a DEF IInv, Over, Unfinished
  <2>5. Sender'
    BY <1>0, <1>2, <2>a, <2>b DEF IInv, Sender
  <2>6. Sent'
    BY <1>0, <2>0, <2>a DEF IInv, Sent
  <2>7. Owned'
    BY <1>0, <2>a DEF IInv, Owned
  <2>8. NoOrphan'
    BY <1>0, <2>0, <2>a DEF IInv, NoOrphan
  <2>9. AllClosed' /\ DoneIsQuiet'
    BY <1>0, <1>a DEF AllClosed, DoneIsQuiet, done
  <2> QED
    BY <2>1, <2>2, <2>3, <2>4, <2>5, <2>6, <2>7, <2>8, <2>9 DEF IInv
<1> QED
  BY <1>1, <1>2 DEF Arrive

(* A dispatch finds room in the channel. *)
LEMMA Inv_Enqueue ==
  ASSUME IInv, NEW r \in Requests, Enqueue(r)
  PROVE  IInv'
<1>0. /\ incoming' = Append(incoming, r) /\ incoming' \in Seq(Requests)
      /\ Len(incoming') <= QueueRoom
      /\ Elems(incoming') = Elems(incoming) \cup {r}
  BY Typed, AppendFacts, HttpAssumption DEF Enqueue, MaySend, HasRoom
<1>1. TypeOK'
  BY <1>0, Typed DEF IInv, TypeOK, Enqueue, MaySend, serverVars, requestVars,
     guestVars
<1>2. Unarrived'
  BY <1>0, Typed DEF IInv, Unarrived, Enqueue, MaySend, serverVars,
     requestVars, guestVars
<1>3. OneAtATime'
  BY Typed DEF IInv, OneAtATime, Active, Unfinished, Enqueue, MaySend,
     serverVars, requestVars, guestVars
<1>4. Over'
  BY Typed DEF IInv, Over, Unfinished, Enqueue, MaySend, serverVars,
     requestVars, guestVars
<1>5. Sent'
  BY <1>0, Typed DEF IInv, Sent, Enqueue, MaySend, serverVars, requestVars,
     guestVars
<1>6. NoOrphan'
  BY <1>0, Typed DEF IInv, NoOrphan, Enqueue, MaySend, serverVars, requestVars,
     guestVars
<1>7. DoneIsQuiet'
  BY Typed DEF IInv, DoneIsQuiet, done, Unfinished, Enqueue, MaySend,
     serverVars, requestVars
<1>8. Sender' /\ Owned' /\ AllClosed'
  BY DEF IInv, Sender, Owned, AllClosed, done, Open, Enqueue, MaySend,
     serverVars, requestVars, guestVars
<1> QED
  BY <1>1, <1>2, <1>3, <1>4, <1>5, <1>6, <1>7, <1>8 DEF IInv

(* dispatch answers, or waits for the responder. *)
LEMMA Inv_Answer ==
  ASSUME IInv, NEW r \in Requests, Answer(r)
  PROVE  IInv'
<1>1. TypeOK'
  <2>1. Outcome(r) \in {"none", "full", "stream", "switch", "500", "503", "wait"}
    BY Typed DEF Outcome
  <2>2. answer' \in [Requests -> {"none", "full", "stream", "switch", "500", "503"}]
    BY <2>1, Typed DEF Answer, MayAnswer
  <2>3. dispatch' \in [Requests -> {"none", "sending", "waiting", "taken", "body",
                                   "sent", "dropped", "aborted"}]
    BY Typed DEF Answer, MayAnswer
  <2> QED
    BY <2>2, <2>3, Typed DEF IInv, TypeOK, Answer, MayAnswer, serverVars,
       requestVars, guestVars
<1>2. Unarrived'
  BY Typed DEF IInv, Unarrived, Elems, Answer, MayAnswer, Outcome, serverVars,
     requestVars, guestVars
<1>3. OneAtATime'
  BY Typed DEF IInv, OneAtATime, Active, Unfinished, Answer, MayAnswer,
     Outcome, serverVars, requestVars, guestVars
<1>4. Over'
  BY Typed DEF IInv, Over, Unfinished, Answer, MayAnswer, Outcome, serverVars,
     requestVars, guestVars
<1>5. Sender'
  BY Typed DEF IInv, Sender, Answer, MayAnswer, Outcome, serverVars,
     requestVars, guestVars
<1>6. Sent'
  BY Typed DEF IInv, Sent, Elems, Answer, MayAnswer, Outcome, serverVars,
     requestVars, guestVars
<1>7. NoOrphan'
  BY Typed DEF IInv, NoOrphan, Elems, Answer, MayAnswer, Outcome, serverVars,
     requestVars, guestVars
<1>8. DoneIsQuiet'
  BY Typed DEF IInv, DoneIsQuiet, done, Unfinished, Answer, MayAnswer, Outcome,
     serverVars, requestVars, guestVars
<1>9. Owned' /\ AllClosed'
  BY DEF IInv, Owned, AllClosed, done, Open, Answer, MayAnswer, Outcome,
     serverVars, requestVars, guestVars
<1> QED
  BY <1>1, <1>2, <1>3, <1>4, <1>5, <1>6, <1>7, <1>8, <1>9 DEF IInv

(* The body is out. *)
LEMMA Inv_BodySent ==
  ASSUME IInv, NEW r \in Requests, BodySent(r)
  PROVE  IInv'
<1>1. TypeOK'
  BY Typed DEF IInv, TypeOK, BodySent, BodyEnds, serverVars, guestVars
<1>2. Unarrived'
  BY Typed DEF IInv, Unarrived, Elems, BodySent, BodyEnds, serverVars,
     guestVars
<1>3. OneAtATime'
  BY Typed DEF IInv, OneAtATime, Active, Unfinished, BodySent, BodyEnds,
     serverVars, guestVars
<1>4. Over'
  BY Typed DEF IInv, Over, Unfinished, BodySent, BodyEnds, serverVars,
     guestVars
<1>5. Sent'
  BY Typed DEF IInv, Sent, Elems, BodySent, BodyEnds, serverVars, guestVars
<1>6. AllClosed'
  BY Typed DEF IInv, AllClosed, done, Open, OneAtATime, Active, BodySent,
     BodyEnds, serverVars, guestVars
<1>7. NoOrphan'
  BY Typed DEF IInv, NoOrphan, Elems, BodySent, BodyEnds, serverVars, guestVars
<1>8. DoneIsQuiet'
  BY Typed DEF IInv, DoneIsQuiet, done, Unfinished, BodySent, BodyEnds,
     serverVars, guestVars
<1>9. Sender' /\ Owned'
  BY DEF IInv, Sender, Owned, BodySent, BodyEnds, serverVars, guestVars
<1> QED
  BY <1>1, <1>2, <1>3, <1>4, <1>5, <1>6, <1>7, <1>8, <1>9 DEF IInv

(* The accept operation takes the receiver. *)
LEMMA Inv_AcceptStart ==
  ASSUME IInv, AcceptStart
  PROVE  IInv'
<1>1. TypeOK'
  BY Typed DEF IInv, TypeOK, AcceptStart, serverVars, requestVars, pathVars
<1>2. Owned'
  BY Typed DEF IInv, Owned, AcceptStart, serverVars, requestVars, pathVars
<1>3. /\ Unarrived' /\ OneAtATime' /\ Over' /\ Sender' /\ Sent'
      /\ AllClosed' /\ NoOrphan' /\ DoneIsQuiet'
  BY DEF IInv, Unarrived, Elems, OneAtATime, Active, Unfinished, Over, Sender,
     Sent, AllClosed, done, Open, NoOrphan, DoneIsQuiet, AcceptStart,
     serverVars, requestVars, pathVars
<1> QED
  BY <1>1, <1>2, <1>3 DEF IInv

(* The accept operation receives an id. *)
LEMMA Inv_AcceptReceive ==
  ASSUME IInv, AcceptReceive
  PROVE  IInv'
<1>0. /\ Head(incoming) \in Requests /\ incoming' = Tail(incoming)
      /\ incoming' \in Seq(Requests) /\ Len(incoming') <= QueueRoom
      /\ Elems(incoming') \subseteq Elems(incoming) /\ Head(incoming) \in Elems(incoming)
      /\ Elems(incoming) \subseteq Elems(incoming') \cup {Head(incoming)}
  BY Typed, TailFacts, HttpAssumption DEF AcceptReceive, IdReceived
<1>a. /\ accepted' \in [Requests -> BOOLEAN]
      /\ \A q \in Requests : accepted'[q] => accepted[q] \/ table[q] = "live"
  <2>1. CASE table[Head(incoming)] = "live"
    <3>1. accepted' = [accepted EXCEPT ![Head(incoming)] = TRUE]
      BY <2>1 DEF AcceptReceive, IdReceived
    <3>2. accepted' \in [Requests -> BOOLEAN]
      BY <1>0, <3>1, Typed
    <3>3. \A q \in Requests : q # Head(incoming) => accepted'[q] = accepted[q]
      BY <1>0, <3>1, Typed
    <3> QED
      BY <2>1, <3>2, <3>3
  <2>2. CASE table[Head(incoming)] # "live"
    BY <2>2, Typed DEF AcceptReceive, IdReceived
  <2> QED
    BY <2>1, <2>2
<1>1. TypeOK'
  <2>1. /\ got' \in Requests \cup {None} /\ lock' = None
        /\ accept' \in {"received", "failed"}
    BY <1>0, Typed DEF AcceptReceive, IdReceived
  <2> QED
    BY <1>0, <1>a, <2>1 DEF IInv, TypeOK, AcceptReceive, IdReceived,
       serverVars, pathVars
<1>2. Unarrived'
  BY <1>0, <1>a DEF IInv, Unarrived, AcceptReceive, IdReceived, serverVars,
     pathVars
<1>3. Sent'
  BY <1>0, Typed, Distinct DEF IInv, Sent, AcceptReceive, IdReceived,
     serverVars, pathVars
<1>4. Owned'
  BY <1>0, Typed, Distinct DEF IInv, Owned, AcceptReceive, IdReceived,
     serverVars, pathVars
<1>5. NoOrphan'
  BY <1>0, Typed, Distinct DEF IInv, NoOrphan, Owned, AcceptReceive,
     IdReceived, serverVars, pathVars
<1>6. DoneIsQuiet'
  BY Typed DEF IInv, DoneIsQuiet, done, Unfinished, AcceptReceive, IdReceived,
     serverVars, pathVars
<1>7. OneAtATime' /\ Over' /\ Sender' /\ AllClosed'
  BY DEF IInv, OneAtATime, Active, Unfinished, Over, Sender, AllClosed, done,
     Open, AcceptReceive, IdReceived, serverVars, pathVars
<1> QED
  BY <1>1, <1>2, <1>3, <1>4, <1>5, <1>6, <1>7 DEF IInv

(* The pending accept ends with the server. *)
LEMMA Inv_AcceptStopped ==
  ASSUME IInv, AcceptStopped
  PROVE  IInv'
<1>1. TypeOK'
  BY Typed DEF IInv, TypeOK, AcceptStopped, StopSeen, serverVars, requestVars,
     pathVars
<1>2. Owned'
  BY Typed DEF IInv, Owned, AcceptStopped, StopSeen, serverVars, requestVars,
     pathVars
<1>3. /\ Unarrived' /\ OneAtATime' /\ Over' /\ Sender' /\ Sent'
      /\ AllClosed' /\ NoOrphan' /\ DoneIsQuiet'
  BY DEF IInv, Unarrived, Elems, OneAtATime, Active, Unfinished, Over, Sender,
     Sent, AllClosed, done, Open, NoOrphan, DoneIsQuiet, AcceptStopped,
     StopSeen, serverVars, requestVars, pathVars
<1> QED
  BY <1>1, <1>2, <1>3 DEF IInv

(* The guest claims the request. *)
LEMMA Inv_AcceptClaim ==
  ASSUME IInv, AcceptClaim
  PROVE  IInv'
<1>1. TypeOK'
  BY Typed, Distinct DEF IInv, TypeOK, Owned, AcceptClaim, serverVars, requestVars, pathVars
<1>2. Owned'
  BY Typed DEF IInv, Owned, AcceptClaim, serverVars, requestVars, pathVars
<1>3. NoOrphan'
  BY Typed DEF IInv, NoOrphan, Elems, AcceptClaim, serverVars, requestVars,
     pathVars
<1>4. /\ Unarrived' /\ OneAtATime' /\ Over' /\ Sender' /\ Sent'
      /\ AllClosed' /\ DoneIsQuiet'
  BY DEF IInv, Unarrived, Elems, OneAtATime, Active, Unfinished, Over, Sender,
     Sent, AllClosed, done, Open, DoneIsQuiet, AcceptClaim, serverVars,
     requestVars, pathVars
<1> QED
  BY <1>1, <1>2, <1>3, <1>4 DEF IInv

(* The loop ends. *)
LEMMA Inv_AcceptFailed ==
  ASSUME IInv, AcceptFailed
  PROVE  IInv'
<1>1. TypeOK'
  BY Typed DEF IInv, TypeOK, AcceptFailed, requestVars, pathVars
<1>2. Owned'
  BY Typed DEF IInv, Owned, AcceptFailed, requestVars, pathVars
<1>3. /\ Unarrived' /\ OneAtATime' /\ Over' /\ Sender' /\ Sent'
      /\ AllClosed' /\ NoOrphan' /\ DoneIsQuiet'
  BY DEF IInv, Unarrived, Elems, OneAtATime, Active, Unfinished, Over, Sender,
     Sent, AllClosed, done, Open, NoOrphan, DoneIsQuiet, AcceptFailed,
     requestVars, pathVars
<1> QED
  BY <1>1, <1>2, <1>3 DEF IInv

(* The operation is aborted. *)
LEMMA Inv_AcceptDrop ==
  ASSUME IInv, AcceptDrop
  PROVE  IInv'
<1>1. TypeOK'
  BY Typed DEF IInv, TypeOK, AcceptDrop, requestVars, pathVars
<1>2. Owned'
  BY Typed DEF IInv, Owned, AcceptDrop, requestVars, pathVars
<1>3. /\ Unarrived' /\ OneAtATime' /\ Over' /\ Sender' /\ Sent'
      /\ AllClosed' /\ NoOrphan' /\ DoneIsQuiet'
  BY DEF IInv, Unarrived, Elems, OneAtATime, Active, Unfinished, Over, Sender,
     Sent, AllClosed, done, Open, NoOrphan, DoneIsQuiet, AcceptDrop,
     requestVars, pathVars
<1> QED
  BY <1>1, <1>2, <1>3 DEF IInv

(* An unclaimed result releases its request. *)
LEMMA Inv_AcceptUnclaimed ==
  ASSUME IInv, AcceptUnclaimed
  PROVE  IInv'
<1>1. TypeOK'
  BY Typed DEF IInv, TypeOK, AcceptUnclaimed, Remove, serverVars, pathVars
<1>2. Unarrived'
  BY Typed DEF IInv, Unarrived, Elems, AcceptUnclaimed, Remove, serverVars,
     pathVars
<1>3. Over'
  BY Typed DEF IInv, Over, Unfinished, AcceptUnclaimed, Remove, serverVars,
     pathVars
<1>4. Sender'
  BY Typed DEF IInv, Sender, AcceptUnclaimed, Remove, serverVars, pathVars
<1>5. Owned'
  BY Typed DEF IInv, Owned, AcceptUnclaimed, Remove, serverVars, pathVars
<1>6. NoOrphan'
  BY Typed DEF IInv, NoOrphan, Elems, AcceptUnclaimed, Remove, serverVars,
     pathVars
<1>7. DoneIsQuiet'
  BY Typed DEF IInv, DoneIsQuiet, done, Unfinished, AcceptUnclaimed, Remove,
     serverVars, pathVars
<1>8. OneAtATime' /\ Sent' /\ AllClosed'
  BY DEF IInv, OneAtATime, Active, Unfinished, Sent, Elems, AllClosed, done,
     Open, AcceptUnclaimed, Remove, serverVars, pathVars
<1> QED
  BY <1>1, <1>2, <1>3, <1>4, <1>5, <1>6, <1>7, <1>8 DEF IInv

(* The server is asked to stop. *)
LEMMA Inv_Shutdown ==
  ASSUME IInv, Shutdown
  PROVE  IInv'
<1>1. TypeOK'
  BY Typed DEF IInv, TypeOK, Shutdown, requestVars, pathVars, guestVars
<1>2. /\ Unarrived' /\ OneAtATime' /\ Over' /\ Sender' /\ Sent'
      /\ Owned' /\ AllClosed' /\ NoOrphan' /\ DoneIsQuiet'
  BY DEF IInv, Unarrived, Elems, OneAtATime, Active, Unfinished, Over, Sender,
     Sent, Owned, AllClosed, done, Open, NoOrphan, DoneIsQuiet, Shutdown,
     requestVars, pathVars, guestVars
<1> QED
  BY <1>1, <1>2 DEF IInv

(* A responder takes the sender. *)
LEMMA Inv_Take ==
  ASSUME IInv, NEW r \in Requests, NEW k \in {"full",
         "stream", "switch"}, Take(r, k)
  PROVE  IInv'
<1>1. TypeOK'
  BY Typed DEF IInv, TypeOK, Take, serverVars, pathVars, guestVars
<1>2. Unarrived'
  BY Typed DEF IInv, Unarrived, Elems, Take, serverVars, pathVars, guestVars
<1>3. Sender'
  BY Typed DEF IInv, Sender, Take, serverVars, pathVars, guestVars
<1>4. /\ OneAtATime' /\ Over' /\ Sent' /\ Owned' /\ AllClosed'
      /\ NoOrphan' /\ DoneIsQuiet'
  BY DEF IInv, OneAtATime, Active, Unfinished, Over, Sent, Elems, Owned,
     AllClosed, done, Open, NoOrphan, DoneIsQuiet, Take, serverVars, pathVars,
     guestVars
<1> QED
  BY <1>1, <1>2, <1>3, <1>4 DEF IInv

(* A streamed body begins. *)
LEMMA Inv_StreamOpen ==
  ASSUME IInv, NEW r \in Requests, StreamOpen(r)
  PROVE  IInv'
<1>1. TypeOK'
  BY Typed DEF IInv, TypeOK, StreamOpen, serverVars, pathVars, guestVars
<1>2. Sender'
  BY Typed DEF IInv, Sender, StreamOpen, serverVars, pathVars, guestVars
<1>3. /\ Unarrived' /\ OneAtATime' /\ Over' /\ Sent' /\ Owned'
      /\ AllClosed' /\ NoOrphan' /\ DoneIsQuiet'
  BY DEF IInv, Unarrived, Elems, OneAtATime, Active, Unfinished, Over, Sent,
     Owned, AllClosed, done, Open, NoOrphan, DoneIsQuiet, StreamOpen,
     serverVars, pathVars, guestVars
<1> QED
  BY <1>1, <1>2, <1>3 DEF IInv

(* The response is sent or lost. *)
LEMMA Inv_SendReply ==
  ASSUME IInv, NEW r \in Requests, SendReply(r)
  PROVE  IInv'
<1>1. TypeOK'
  BY Typed DEF IInv, TypeOK, SendReply, serverVars, pathVars, guestVars
<1>2. Sender'
  BY Typed DEF IInv, Sender, SendReply, serverVars, pathVars, guestVars
<1>3. /\ Unarrived' /\ OneAtATime' /\ Over' /\ Sent' /\ Owned'
      /\ AllClosed' /\ NoOrphan' /\ DoneIsQuiet'
  BY DEF IInv, Unarrived, Elems, OneAtATime, Active, Unfinished, Over, Sent,
     Owned, AllClosed, done, Open, NoOrphan, DoneIsQuiet, SendReply,
     serverVars, pathVars, guestVars
<1> QED
  BY <1>1, <1>2, <1>3 DEF IInv

(* A streamed body ends. *)
LEMMA Inv_StreamEnd ==
  ASSUME IInv, NEW r \in Requests, StreamEnd(r)
  PROVE  IInv'
<1>1. TypeOK'
  BY Typed DEF IInv, TypeOK, StreamEnd, serverVars, pathVars, guestVars
<1>2. /\ Unarrived' /\ OneAtATime' /\ Over' /\ Sender' /\ Sent'
      /\ Owned' /\ AllClosed' /\ NoOrphan' /\ DoneIsQuiet'
  BY DEF IInv, Unarrived, Elems, OneAtATime, Active, Unfinished, Over, Sender,
     Sent, Owned, AllClosed, done, Open, NoOrphan, DoneIsQuiet, StreamEnd,
     serverVars, pathVars, guestVars
<1> QED
  BY <1>1, <1>2 DEF IInv

(* A WebSocket closes. *)
LEMMA Inv_SocketClosed ==
  ASSUME IInv, NEW r \in Requests, SocketClosed(r)
  PROVE  IInv'
<1>1. TypeOK'
  BY Typed DEF IInv, TypeOK, SocketClosed, serverVars, pathVars, guestVars
<1>2. Unarrived'
  BY Typed DEF IInv, Unarrived, Elems, SocketClosed, serverVars, pathVars,
     guestVars
<1>3. Over'
  BY Typed DEF IInv, Over, Unfinished, SocketClosed, serverVars, pathVars,
     guestVars
<1>4. DoneIsQuiet'
  BY Typed DEF IInv, DoneIsQuiet, done, Unfinished, SocketClosed, serverVars,
     pathVars, guestVars
<1>5. /\ OneAtATime' /\ Sender' /\ Sent' /\ Owned' /\ AllClosed'
      /\ NoOrphan'
  BY DEF IInv, OneAtATime, Active, Unfinished, Sender, Sent, Elems, Owned,
     AllClosed, done, Open, NoOrphan, SocketClosed, serverVars, pathVars,
     guestVars
<1> QED
  BY <1>1, <1>2, <1>3, <1>4, <1>5 DEF IInv

(* The guest drops the request. *)
LEMMA Inv_GuestRelease ==
  ASSUME IInv, NEW r \in Requests, GuestRelease(r)
  PROVE  IInv'
<1>1. TypeOK'
  BY Typed DEF IInv, TypeOK, GuestRelease, Remove, serverVars, pathVars
<1>2. Unarrived'
  BY Typed DEF IInv, Unarrived, Elems, GuestRelease, Remove, serverVars,
     pathVars
<1>3. Over'
  BY Typed DEF IInv, Over, Unfinished, GuestRelease, Remove, serverVars,
     pathVars
<1>4. Sender'
  BY Typed DEF IInv, Sender, GuestRelease, Remove, serverVars, pathVars
<1>5. Owned'
  BY Typed DEF IInv, Owned, GuestRelease, Remove, serverVars, pathVars
<1>6. NoOrphan'
  BY Typed DEF IInv, NoOrphan, Elems, GuestRelease, Remove, serverVars,
     pathVars
<1>7. DoneIsQuiet'
  BY Typed DEF IInv, DoneIsQuiet, done, Unfinished, GuestRelease, Remove,
     serverVars, pathVars
<1>8. OneAtATime' /\ Sent' /\ AllClosed'
  BY DEF IInv, OneAtATime, Active, Unfinished, Sent, Elems, AllClosed, done,
     Open, GuestRelease, Remove, serverVars, pathVars
<1> QED
  BY <1>1, <1>2, <1>3, <1>4, <1>5, <1>6, <1>7, <1>8 DEF IInv

(* The listener leaves its loop. *)
LEMMA Inv_StopListening ==
  ASSUME IInv, StopListening
  PROVE  IInv'
<1>1. TypeOK'
  BY Typed DEF IInv, TypeOK, StopListening, requestVars, pathVars, guestVars
<1>2. AllClosed'
  BY Typed DEF IInv, AllClosed, done, Open, StopListening, requestVars,
     pathVars, guestVars
<1>3. DoneIsQuiet'
  BY Typed DEF IInv, DoneIsQuiet, done, Unfinished, StopListening,
     requestVars, pathVars, guestVars
<1>4. /\ Unarrived' /\ OneAtATime' /\ Over' /\ Sender' /\ Sent'
      /\ Owned' /\ NoOrphan'
  BY DEF IInv, Unarrived, Elems, OneAtATime, Active, Unfinished, Over, Sender,
     Sent, Owned, NoOrphan, StopListening, requestVars, pathVars, guestVars
<1> QED
  BY <1>1, <1>2, <1>3, <1>4 DEF IInv

(* The drain takes the receiver. *)
LEMMA Inv_DrainLock ==
  ASSUME IInv, DrainLock
  PROVE  IInv'
<1>1. TypeOK'
  BY Typed DEF IInv, TypeOK, DrainLock, ReceiverFree, serverVars, requestVars,
     pathVars, guestVars
<1>2. /\ Unarrived' /\ OneAtATime' /\ Over' /\ Sender' /\ Sent'
      /\ Owned' /\ AllClosed' /\ NoOrphan' /\ DoneIsQuiet'
  BY DEF IInv, Unarrived, Elems, OneAtATime, Active, Unfinished, Over, Sender,
     Sent, Owned, AllClosed, done, Open, NoOrphan, DoneIsQuiet, DrainLock,
     ReceiverFree, serverVars, requestVars, pathVars, guestVars
<1> QED
  BY <1>1, <1>2 DEF IInv

(* The drain releases a request that was never accepted. *)
LEMMA Inv_DrainOne ==
  ASSUME IInv, DrainOne
  PROVE  IInv'
<1>0. /\ Head(incoming) \in Requests /\ incoming' = Tail(incoming)
      /\ incoming' \in Seq(Requests) /\ Len(incoming') <= QueueRoom
      /\ Elems(incoming') \subseteq Elems(incoming) /\ Head(incoming) \in Elems(incoming)
      /\ Elems(incoming) \subseteq Elems(incoming') \cup {Head(incoming)}
  BY Typed, TailFacts, HttpAssumption DEF DrainOne, NeverAccepted
<1>1. TypeOK'
  BY <1>0, Typed, Distinct DEF IInv, TypeOK, DrainOne, NeverAccepted, Remove,
     serverVars, pathVars, guestVars
<1>2. Unarrived'
  BY <1>0, Typed, Distinct DEF IInv, Unarrived, DrainOne, NeverAccepted,
     Remove, serverVars, pathVars, guestVars
<1>3. Over'
  BY Typed DEF IInv, Over, Unfinished, DrainOne, NeverAccepted, Remove,
     serverVars, pathVars, guestVars
<1>4. Sender'
  BY Typed DEF IInv, Sender, DrainOne, NeverAccepted, Remove, serverVars,
     pathVars, guestVars
<1>5. Sent'
  BY <1>0, Typed, Distinct DEF IInv, Sent, DrainOne, NeverAccepted, Remove,
     serverVars, pathVars, guestVars
<1>6. Owned'
  BY <1>0, Typed, Distinct DEF IInv, Owned, DrainOne, NeverAccepted, Remove,
     serverVars, pathVars, guestVars
<1>7. NoOrphan'
  BY <1>0, Typed, Distinct DEF IInv, NoOrphan, DrainOne, NeverAccepted, Remove,
     serverVars, pathVars, guestVars
<1>8. DoneIsQuiet'
  BY Typed DEF IInv, DoneIsQuiet, done, Unfinished, DrainOne, NeverAccepted,
     Remove, serverVars, pathVars, guestVars
<1>9. OneAtATime' /\ AllClosed'
  BY DEF IInv, OneAtATime, Active, Unfinished, AllClosed, done, Open, DrainOne,
     NeverAccepted, Remove, serverVars, pathVars, guestVars
<1> QED
  BY <1>1, <1>2, <1>3, <1>4, <1>5, <1>6, <1>7, <1>8, <1>9 DEF IInv

(* The grace period ends. *)
LEMMA Inv_DrainTimeout ==
  ASSUME IInv, DrainTimeout
  PROVE  IInv'
<1>1. TypeOK'
  BY Typed, Distinct DEF IInv, TypeOK, DrainTimeout, GraceOver, DropFutures,
     serverVars, guestVars
<1>2. Unarrived'
  BY Typed, Distinct DEF IInv, Unarrived, Elems, DrainTimeout, GraceOver,
     DropFutures, serverVars, guestVars
<1>3. OneAtATime'
  BY Typed, Distinct DEF IInv, OneAtATime, Active, Unfinished, DrainTimeout,
     GraceOver, DropFutures, serverVars, guestVars
<1>4. Over'
  BY Typed, Distinct DEF IInv, Over, Unfinished, DrainTimeout, GraceOver,
     DropFutures, serverVars, guestVars
<1>5. Sent'
  BY Typed, Distinct DEF IInv, Sent, Elems, DrainTimeout, GraceOver,
     DropFutures, serverVars, guestVars
<1>6. AllClosed'
  BY Typed, Distinct DEF IInv, AllClosed, done, Open, DrainTimeout, GraceOver,
     DropFutures, serverVars, guestVars
<1>7. NoOrphan'
  BY Typed, Distinct DEF IInv, NoOrphan, Elems, Sent, Open, Unfinished,
     DrainTimeout, GraceOver, DropFutures, serverVars, guestVars
<1>8. DoneIsQuiet'
  BY Typed, Distinct DEF IInv, DoneIsQuiet, done, Unfinished, DrainTimeout,
     GraceOver, DropFutures, serverVars, guestVars
<1>9. Sender' /\ Owned'
  BY DEF IInv, Sender, Owned, DrainTimeout, GraceOver, DropFutures, serverVars,
     guestVars
<1> QED
  BY <1>1, <1>2, <1>3, <1>4, <1>5, <1>6, <1>7, <1>8, <1>9 DEF IInv

(* The drain ends. *)
LEMMA Inv_Finish ==
  ASSUME IInv, Finish
  PROVE  IInv'
<1>0. /\ \A c \in Connections : ~Open(c)
      /\ \A r \in Requests : ~Unfinished(r)
  <2>1. \A c \in Connections : ~Open(c)
    BY DEF Finish, SendersGone, Serving
  <2> QED
    BY <2>1, Typed DEF IInv, OneAtATime, Active, Open
<1>1. TypeOK'
  BY Typed DEF IInv, TypeOK, Finish, SendersGone, pathVars, guestVars
<1>2. Unarrived'
  BY Typed DEF IInv, Unarrived, Elems, Finish, SendersGone, pathVars, guestVars
<1>3. Over'
  BY <1>0 DEF Over, Unfinished, Finish, SendersGone, pathVars
<1>4. AllClosed'
  BY <1>0 DEF AllClosed, Open, Finish, SendersGone, pathVars
<1>5. DoneIsQuiet'
  <2>1. incoming' = <<>> /\ \A r \in Requests : ~Unfinished(r)'
    BY <1>0 DEF Unfinished, Finish, SendersGone, pathVars
  <2>2. \A r \in Requests : table'[r] = "live" => gone'[r]
    BY Typed DEF Finish, SendersGone
  <2> QED
    BY <2>1, <2>2 DEF DoneIsQuiet
<1>6. OneAtATime' /\ Sender' /\ Sent' /\ Owned' /\ NoOrphan'
  BY DEF IInv, OneAtATime, Active, Unfinished, Sender, Sent, Elems, Owned,
     NoOrphan, Finish, SendersGone, pathVars, guestVars
<1> QED
  BY <1>1, <1>2, <1>3, <1>4, <1>5, <1>6 DEF IInv

(* The inductive invariant: every step of a task, of a client and of the   *)
(* guest keeps it.                                                         *)
THEOREM Inductive == Spec => []IInv
<1>1. IInv /\ [Next]_vars => IInv'
  <2> SUFFICES ASSUME IInv, [Next]_vars PROVE IInv'
    OBVIOUS
  <2>1. CASE AcceptTask
    BY <2>1, Inv_AcceptStart, Inv_AcceptReceive, Inv_AcceptStopped, Inv_AcceptClaim,
       Inv_AcceptFailed, Inv_AcceptUnclaimed DEF AcceptTask
  <2>2. CASE DrainTask \/ DrainTimeout
    BY <2>2, Inv_DrainLock, Inv_DrainOne, Inv_Finish, Inv_DrainTimeout DEF DrainTask
  <2>3. CASE StopListening \/ AcceptDrop \/ Shutdown
    BY <2>3, Inv_StopListening, Inv_AcceptDrop, Inv_Shutdown
  <2>4. ASSUME NEW c \in Connections, ConnectionTask(c) \/ Connect(c) \/ ClientGone(c)
        PROVE  IInv'
    BY <2>4, Inv_Connect, Inv_EndConnection
       DEF ConnectionTask, GracefulClose, IdleAtStop, SwitchProtocols,
          Switched, ClientGone, Open
  <2>5. ASSUME NEW r \in Requests,
               \/ Release(r) \/ DispatchTask(r) \/ DisconnectTask(r)
               \/ ResponderTask(r) \/ GuestRelease(r)
        PROVE  IInv'
    BY <2>5, Inv_Release, Inv_Enqueue, Inv_Answer, Inv_BodySent, Inv_DisconnectCheck,
       Inv_DisconnectRelease, Inv_StreamOpen, Inv_SendReply, Inv_GuestRelease
       DEF DispatchTask, DisconnectTask, ResponderTask
  <2>6. ASSUME NEW r \in Requests,
               \/ Respond(r) \/ StreamBegin(r) \/ Upgrade(r) \/ StreamEnd(r) \/ SocketClosed(r)
               \/ \E c \in Connections : Arrive(r, c)
        PROVE  IInv'
    BY <2>6, Inv_Take, Inv_StreamEnd, Inv_SocketClosed, Inv_Arrive
       DEF Respond, StreamBegin, Upgrade
  <2>7. CASE UNCHANGED vars
    BY <2>7 DEF vars, serverVars, requestVars, pathVars, guestVars, IInv, TypeOK,
       Unarrived, OneAtATime, Over, Sender, Sent, Owned, AllClosed, NoOrphan,
       DoneIsQuiet, Active, Unfinished, Open, done, Elems
  <2> QED
    BY <2>1, <2>2, <2>3, <2>4, <2>5, <2>6, <2>7 DEF Next, Progress, Choice
<1> QED
  BY InitIInv, <1>1, PTL DEF Spec

(* The server's tables, channel and operations keep their types, and the   *)
(* channel its capacity.                                                   *)
THEOREM TypeCorrect == Spec => []TypeOK
<1>1. IInv => TypeOK
  BY DEF IInv
<1> QED
  BY <1>1, Inductive, PTL

(* No request is lost between the channel, the accept operation, its       *)
(* result, the guest and disconnect, except one that still waited for room *)
(* in the channel when the grace period ended (state::release and its      *)
(* callers).                                                               *)
THEOREM EveryRequestOwned == Spec => []NoOrphan
<1>1. IInv => NoOrphan
  BY DEF IInv
<1> QED
  BY <1>1, Inductive, PTL

(* A client whose response a responder has taken over never gets an error  *)
(* in its place (the biased select of dispatch).                           *)
THEOREM ResponseNotReplaced == Spec => []ResponseWins
<1>1. IInv => ResponseWins
  BY DEF IInv, Sender, ResponseWins
<1> QED
  BY <1>1, Inductive, PTL

(* After the drain nothing is queued or dispatched, and every request that *)
(* the guest still holds knows that its client is gone (listen).           *)
THEOREM DrainComplete == Spec => []DoneIsQuiet
<1>1. IInv => DoneIsQuiet
  BY DEF IInv
<1> QED
  BY <1>1, Inductive, PTL

-----------------------------------------------------------------------------
(* Nobody waits for everybody.  What NothingStuck needs is who makes the   *)
(* next step for each thing that waits.                                    *)

(* A loop that ended has stopped the server, only a pending accept keeps   *)
(* the receiver from the drain, and only the drain keeps it for good.      *)
Waits == /\ accept \in {"over", "orphan"} => stop
         /\ lock = "accept" <=> accept = "waiting"
         /\ lock = "drain" => listener \in {"drain", "timed"}

(* A busy connection has a request to work on.                             *)
Busy == \A c \in Connections :
          conn[c] = "busy" => \E r \in Requests : at[r] = c /\ Active(r)

(* A dispatch waits for a sender that somebody has or had.                 *)
Pending == \A r \in Requests :
             /\ Active(r) => table[r] # "absent"
             /\ Unfinished(r) => reply[r] \notin {"none", "lost"}

(* A streamed response was sent after the body's sender was stored.        *)
Streams == \A r \in Requests :
             /\ answer[r] = "stream" => kind[r] = "stream" /\ reply[r] = "sent"
             /\ kind[r] = "stream" /\ reply[r] # "begin" => stream[r] # "none"

(* disconnect is told of a request when its connection is over.            *)
Leaving == \A r \in Requests :
             leave[r] # "no" => at[r] # None /\ conn[at[r]] = "closed"

JInv == IInv /\ Waits /\ Busy /\ Pending /\ Streams /\ Leaving

LEMMA InitJInv == Init => JInv
<1> SUFFICES ASSUME Init PROVE JInv
  OBVIOUS
<1>1. IInv
  BY InitIInv
<1>2. Waits
  BY HttpAssumption DEF Init, Waits
<1>3. Busy /\ Pending /\ Streams /\ Leaving
  BY DEF Init, Busy, Pending, Streams, Leaving, Active, Unfinished
<1> QED
  BY <1>1, <1>2, <1>3 DEF JInv

(* None is no name of a lock holder. *)
LEMMA LockNames == ASSUME IInv PROVE lock \in {None, "accept", "drain"}
BY DEF IInv, TypeOK

(* The accept loop stops the server before it ends and gives the receiver  *)
(* back. *)
LEMMA KeepsWaits ==
  ASSUME IInv, Waits, [Next]_vars
  PROVE  Waits'
<1>1. CASE AcceptTask
  BY <1>1, HttpAssumption DEF Waits, AcceptTask, AcceptStart, AcceptReceive, IdReceived, AcceptStopped,
     StopSeen, AcceptClaim, AcceptFailed, AcceptUnclaimed, serverVars
<1>2. CASE AcceptDrop \/ Shutdown \/ StopListening
  BY <1>2, HttpAssumption DEF Waits, AcceptDrop, Shutdown, StopListening, guestVars
<1>3. CASE DrainTask \/ DrainTimeout
  BY <1>3, HttpAssumption DEF Waits, DrainTask, DrainLock, ReceiverFree, DrainOne, Finish, SendersGone,
     DrainTimeout, serverVars, guestVars
<1>4. ASSUME NEW c \in Connections, ConnectionTask(c) \/ Connect(c) \/ ClientGone(c)
      PROVE  Waits'
  BY <1>4 DEF Waits, ConnectionTask, GracefulClose, SwitchProtocols, ClientGone,
     EndConnection, Connect, serverVars, guestVars
<1>5. ASSUME NEW r \in Requests,
             \/ Release(r) \/ DispatchTask(r) \/ DisconnectTask(r)
             \/ ResponderTask(r) \/ GuestRelease(r)
      PROVE  Waits'
  BY <1>5 DEF Waits, Release, DispatchTask, Enqueue, Answer, BodySent, DisconnectTask,
     DisconnectCheck, DisconnectRelease, ResponderTask, StreamOpen, SendReply, GuestRelease,
     serverVars, guestVars
<1>6. ASSUME NEW r \in Requests,
             \/ Respond(r) \/ StreamBegin(r) \/ Upgrade(r) \/ StreamEnd(r) \/ SocketClosed(r)
             \/ \E c \in Connections : Arrive(r, c)
      PROVE  Waits'
  BY <1>6 DEF Waits, Respond, StreamBegin, Upgrade, Take, StreamEnd, SocketClosed, Arrive,
     serverVars, guestVars
<1>7. CASE UNCHANGED vars
  BY <1>7 DEF Waits, vars, serverVars, guestVars
<1> QED
  BY <1>1, <1>2, <1>3, <1>4, <1>5, <1>6, <1>7 DEF Next, Progress, Choice

(* A connection becomes idle or closed with the request it works on. *)
LEMMA KeepsBusy ==
  ASSUME IInv, Busy, [Next]_vars
  PROVE  Busy'
<1>1. CASE AcceptTask \/ AcceptDrop \/ Shutdown \/ StopListening \/ DrainTask
  BY <1>1 DEF Busy, Active, Unfinished, AcceptTask, AcceptStart, AcceptReceive,
     AcceptStopped, AcceptClaim, AcceptFailed, AcceptUnclaimed, AcceptDrop, Shutdown,
     StopListening, DrainTask, DrainLock, DrainOne, Finish, pathVars
<1>2. CASE DrainTimeout
  BY <1>2, Typed, Distinct DEF Busy, Active, Unfinished, DrainTimeout, DropFutures
<1>3. ASSUME NEW c \in Connections, EndConnection(c)
      PROVE  Busy'
  BY <1>3, Typed, Distinct DEF Busy, Active, Unfinished, EndConnection, DropFutures
<1>4. ASSUME NEW c \in Connections, Connect(c)
      PROVE  Busy'
  BY <1>4, Typed DEF Busy, Active, Unfinished, Connect
<1>5. ASSUME NEW r \in Requests, Enqueue(r) \/ Answer(r)
      PROVE  Busy'
  <2>1. /\ conn' = conn /\ at' = at
        /\ \A q \in Requests : Active(q) => Active(q)'
    BY <1>5, Typed DEF Active, Unfinished, Enqueue, Answer, MayAnswer
  <2> QED
    BY <2>1 DEF Busy
<1>6. ASSUME NEW r \in Requests, BodySent(r)
      PROVE  Busy'
  <2>1. /\ at' = at /\ \A q \in Requests : q # r /\ Active(q) => Active(q)'
        /\ at[r] \in Connections /\ conn' = [conn EXCEPT ![at[r]] = "idle"]
    BY <1>6, Typed DEF IInv, OneAtATime, Active, Unfinished, BodySent, BodyEnds
  <2> QED
    BY <2>1, Typed DEF Busy
<1>7. ASSUME NEW r \in Requests, NEW c \in Connections, Arrive(r, c)
      PROVE  Busy'
  <2>1. /\ at[r] = None /\ at' = [at EXCEPT ![r] = c]
        /\ \A q \in Requests : q # r => dispatch'[q] = dispatch[q] /\ at'[q] = at[q]
        /\ \A b \in Connections : conn'[b] = "busy" => \/ conn[b] = "busy"
                                                       \/ b = c /\ Unfinished(r)'
    BY <1>7, Typed DEF Arrive, Unfinished
  <2>2. \A q \in Requests : q # r /\ Active(q) => Active(q)'
    BY <2>1 DEF Active, Unfinished
  <2>3. at'[r] = c
    BY <2>1, Typed
  <2> QED
    BY <2>1, <2>2, <2>3, Distinct DEF Busy, Active
<1>8. ASSUME NEW r \in Requests,
             \/ Release(r) \/ DisconnectTask(r) \/ ResponderTask(r) \/ GuestRelease(r)
             \/ Respond(r) \/ StreamBegin(r) \/ Upgrade(r) \/ StreamEnd(r) \/ SocketClosed(r)
      PROVE  Busy'
  <2>1. UNCHANGED <<conn, at, dispatch>>
    BY <1>8 DEF Release, DisconnectTask, DisconnectCheck, DisconnectRelease, ResponderTask,
       StreamOpen, SendReply, GuestRelease, Respond, StreamBegin, Upgrade, Take, StreamEnd,
       SocketClosed, pathVars
  <2> QED
    BY <2>1 DEF Busy, Active, Unfinished
<1>9. CASE UNCHANGED vars
  BY <1>9 DEF Busy, Active, Unfinished, vars, pathVars
<1> QED
  BY <1>1, <1>2, <1>3, <1>4, <1>5, <1>6, <1>7, <1>8, <1>9
     DEF Next, Progress, Choice, DispatchTask, ConnectionTask, GracefulClose,
     SwitchProtocols, ClientGone

(* A response is lost only after its dispatch, and no request leaves the   *)
(* table unseen. *)
LEMMA KeepsPending ==
  ASSUME IInv, Pending, [Next]_vars
  PROVE  Pending'
<1>1. CASE UNCHANGED <<dispatch, table, reply>>
  BY <1>1 DEF Pending, Active, Unfinished
<1>2. ASSUME NEW r \in Requests, Release(r) \/ SendReply(r) \/ StreamOpen(r)
      PROVE  Pending'
  BY <1>2, Typed DEF Pending, Active, Unfinished, Release, SendReply, StreamOpen, pathVars
<1>3. ASSUME NEW r \in Requests, Remove(r), UNCHANGED <<dispatch, reply>>
      PROVE  Pending'
  BY <1>3, Typed DEF Pending, Active, Unfinished, Remove
<1>4. ASSUME NEW r \in Requests, DispatchTask(r)
      PROVE  Pending'
  <2>1. /\ UNCHANGED <<table, reply>>
        /\ \A q \in Requests : (Active(q)' => Active(q)) /\ (Unfinished(q)' => Unfinished(q))
    BY <1>4, Typed DEF DispatchTask, Enqueue, MaySend, Answer, MayAnswer, BodySent, BodyEnds,
       requestVars, Active, Unfinished
  <2> QED
    BY <2>1 DEF Pending
<1>5. ASSUME NEW r \in Requests, NEW c \in Connections, Arrive(r, c)
      PROVE  Pending'
  BY <1>5, Typed DEF Pending, Active, Unfinished, Arrive
<1>6. ASSUME NEW r \in Requests, NEW k, Take(r, k)
      PROVE  Pending'
  BY <1>6, Typed DEF Pending, Active, Unfinished, Take, pathVars
<1>7. CASE DrainTimeout \/ \E c \in Connections : EndConnection(c)
  BY <1>7, Typed DEF Pending, Active, Unfinished, DrainTimeout, EndConnection, DropFutures
<1>8. CASE AcceptTask \/ AcceptDrop \/ Shutdown \/ StopListening \/ DrainTask
  <2>1. CASE AcceptUnclaimed
    BY <1>3, <2>1, Typed DEF AcceptUnclaimed, IInv, Owned, pathVars
  <2>2. CASE DrainOne
    BY <1>3, <2>2, Typed, TailFacts DEF DrainOne, NeverAccepted, pathVars
  <2> QED
    BY <1>1, <1>8, <2>1, <2>2 DEF AcceptTask, AcceptStart, AcceptReceive, AcceptStopped,
       AcceptClaim, AcceptFailed, AcceptDrop, Shutdown, StopListening, DrainTask, DrainLock,
       Finish, pathVars, requestVars
<1>9. ASSUME NEW r \in Requests,
             DisconnectTask(r) \/ GuestRelease(r) \/ StreamEnd(r) \/ SocketClosed(r)
      PROVE  Pending'
  BY <1>1, <1>3, <1>9 DEF DisconnectTask, DisconnectCheck, DisconnectRelease, GuestRelease,
     StreamEnd, SocketClosed, pathVars
<1>10. CASE UNCHANGED vars \/ \E c \in Connections : Connect(c)
  BY <1>1, <1>10 DEF vars, requestVars, pathVars, Connect
<1> QED
  BY <1>2, <1>4, <1>5, <1>6, <1>7, <1>8, <1>9, <1>10
     DEF Next, Progress, Choice, ConnectionTask, GracefulClose, SwitchProtocols, ClientGone,
     ResponderTask, Respond, StreamBegin, Upgrade

(* The sender of a streamed body is stored before the response goes out. *)
LEMMA KeepsStreams ==
  ASSUME IInv, Streams, [Next]_vars
  PROVE  Streams'
<1>1. CASE UNCHANGED <<answer, kind, reply, stream>>
  BY <1>1 DEF Streams
<1>2. ASSUME NEW r \in Requests, Release(r) \/ StreamOpen(r) \/ SendReply(r) \/ StreamEnd(r)
      PROVE  Streams'
  BY <1>2, Typed DEF Streams, Release, StreamOpen, SendReply, StreamEnd, pathVars,
     IInv, Sender
<1>3. ASSUME NEW r \in Requests, NEW k \in {"full", "stream", "switch"}, Take(r, k)
      PROVE  Streams'
  BY <1>3, Typed DEF Streams, Take, pathVars
<1>4. ASSUME NEW r \in Requests, Answer(r)
      PROVE  Streams'
  <2>1. /\ UNCHANGED <<kind, reply, stream>>
        /\ \A q \in Requests : q # r => answer'[q] = answer[q]
        /\ answer'[r] = answer[r] \/ answer'[r] = Outcome(r)
    BY <1>4, Typed DEF Answer, requestVars
  <2>2. Outcome(r) = "stream" => kind[r] = "stream" /\ reply[r] = "sent"
    BY DEF Outcome
  <2> QED
    BY <2>1, <2>2 DEF Streams
<1>5. ASSUME NEW r \in Requests, NEW c \in Connections, Arrive(r, c)
      PROVE  Streams'
  BY <1>5, Typed DEF Streams, Arrive, IInv, Unarrived
<1>6. ASSUME NEW r \in Requests,
             \/ Enqueue(r) \/ BodySent(r) \/ DisconnectTask(r) \/ GuestRelease(r)
             \/ SocketClosed(r)
      PROVE  Streams'
  BY <1>1, <1>6 DEF Enqueue, BodySent, DisconnectTask, DisconnectCheck, DisconnectRelease,
     GuestRelease, SocketClosed, pathVars, requestVars
<1>7. ASSUME NEW c \in Connections, EndConnection(c) \/ Connect(c)
      PROVE  Streams'
  BY <1>1, <1>7 DEF EndConnection, Connect, requestVars
<1>8. CASE \/ AcceptTask \/ AcceptDrop \/ Shutdown \/ StopListening \/ DrainTask
           \/ DrainTimeout \/ UNCHANGED vars
  BY <1>1, <1>8 DEF AcceptTask, AcceptStart, AcceptReceive, AcceptStopped, AcceptClaim,
     AcceptFailed, AcceptUnclaimed, AcceptDrop, Shutdown, StopListening, DrainTask,
     DrainLock, DrainOne, Finish, DrainTimeout, vars, pathVars, requestVars
<1> QED
  BY <1>2, <1>3, <1>4, <1>5, <1>6, <1>7, <1>8
     DEF Next, Progress, Choice, DispatchTask, ConnectionTask, GracefulClose,
     SwitchProtocols, ClientGone, ResponderTask, Respond, StreamBegin, Upgrade

(* A closed connection stays closed. *)
LEMMA KeepsLeaving ==
  ASSUME IInv, Leaving, [Next]_vars
  PROVE  Leaving'
<1>1. CASE UNCHANGED <<leave, at, conn>>
  BY <1>1 DEF Leaving
<1>2. ASSUME NEW c \in Connections, EndConnection(c)
      PROVE  Leaving'
  BY <1>2, Typed, Distinct DEF Leaving, EndConnection, DropFutures
<1>3. CASE DrainTimeout
  BY <1>3, Typed, Distinct DEF Leaving, DrainTimeout, DropFutures
<1>4. ASSUME NEW c \in Connections, Connect(c)
      PROVE  Leaving'
  BY <1>4, Typed DEF Leaving, Connect
<1>5. ASSUME NEW r \in Requests, NEW c \in Connections, Arrive(r, c)
      PROVE  Leaving'
  BY <1>5, Typed, Distinct DEF Leaving, Arrive
<1>6. ASSUME NEW r \in Requests, BodySent(r)
      PROVE  Leaving'
  BY <1>6, Typed DEF Leaving, BodySent, BodyEnds, IInv, OneAtATime, Active
<1>7. ASSUME NEW r \in Requests, DisconnectTask(r)
      PROVE  Leaving'
  BY <1>7, Typed DEF Leaving, DisconnectTask, DisconnectCheck, DisconnectRelease
<1>8. ASSUME NEW r \in Requests,
             \/ Release(r) \/ Enqueue(r) \/ Answer(r) \/ ResponderTask(r) \/ GuestRelease(r)
             \/ Respond(r) \/ StreamBegin(r) \/ Upgrade(r) \/ StreamEnd(r) \/ SocketClosed(r)
      PROVE  Leaving'
  BY <1>1, <1>8 DEF Release, Enqueue, Answer, ResponderTask, StreamOpen, SendReply,
     GuestRelease, Respond, StreamBegin, Upgrade, Take, StreamEnd, SocketClosed, pathVars
<1>9. CASE \/ AcceptTask \/ AcceptDrop \/ Shutdown \/ StopListening \/ DrainTask
           \/ UNCHANGED vars
  BY <1>1, <1>9 DEF AcceptTask, AcceptStart, AcceptReceive, AcceptStopped, AcceptClaim,
     AcceptFailed, AcceptUnclaimed, AcceptDrop, Shutdown, StopListening, DrainTask,
     DrainLock, DrainOne, Finish, vars, pathVars
<1> QED
  BY <1>2, <1>3, <1>4, <1>5, <1>6, <1>7, <1>8, <1>9
     DEF Next, Progress, Choice, DispatchTask, ConnectionTask, GracefulClose,
     SwitchProtocols, ClientGone

(* The invariant about waiting, on top of the first one. *)
THEOREM InductiveWaits == Spec => []JInv
<1>1. JInv /\ [Next]_vars /\ IInv' => JInv'
  BY KeepsWaits, KeepsBusy, KeepsPending, KeepsStreams, KeepsLeaving DEF JInv
<1> QED
  BY InitJInv, <1>1, Inductive, PTL DEF Spec

(* With nothing due the channel is empty: an accept or the drain would     *)
(* read it. *)
LEMMA ChannelRead ==
  ASSUME JInv, ~Due
  PROVE  incoming = <<>>
<1> SUFFICES ASSUME incoming # <<>> PROVE FALSE
  OBVIOUS
<1>1. accept = "over" /\ stop
  <2>1. accept \in {"waiting", "over"}
    BY DEF JInv, IInv, TypeOK, Due
  <2> QED
    BY <2>1 DEF JInv, Waits, Due, IdReceived
<1>2. listener \in {"drain", "timed"}
  BY <1>1 DEF JInv, IInv, TypeOK, Due, DoneIsQuiet, done
<1>3. lock = "drain"
  BY <1>1, <1>2, LockNames DEF JInv, Waits, Due, ReceiverFree
<1> QED
  BY <1>3 DEF Due, NeverAccepted

(* With nothing due no request in the table has an owner left, and none is *)
(* on its way out. *)
LEMMA TableQuiet ==
  ASSUME JInv, ~Due, NEW r \in Requests, Active(r)
  PROVE  table[r] = "released"
<1>1. r \notin Elems(incoming)
  BY ChannelRead DEF Elems
<1>2. dispatch[r] # "sending"
  <2>1. HasRoom
    BY ChannelRead, HttpAssumption DEF HasRoom
  <2> QED
    BY <2>1 DEF Due, MaySend
<1>3. got # r
  <2>1. accept \notin {"received", "orphan"}
    BY DEF Due
  <2> QED
    BY <2>1, Distinct DEF JInv, IInv, Owned
<1>4. r \notin held /\ leave[r] = "no" /\ table[r] # "removed"
  BY Typed DEF Due, JInv
<1>5. table[r] # "live"
  BY <1>1, <1>2, <1>3, <1>4 DEF JInv, IInv, NoOrphan, Active, Unfinished
<1> QED
  BY <1>4, <1>5, Typed DEF JInv, Pending

(* With nothing due every dispatch has ended: a released request has no    *)
(* sender of its reply left, and a dropped or used sender is an answer. *)
LEMMA DispatchesEnd ==
  ASSUME JInv, ~Due, NEW r \in Requests
  PROVE  ~Unfinished(r)
<1> SUFFICES ASSUME Unfinished(r) PROVE FALSE
  OBVIOUS
<1>1. table[r] = "released"
  BY TableQuiet DEF Active
<1>2. reply[r] \in {"sent", "dropped"}
  BY <1>1, Typed DEF JInv, IInv, Sender, Pending, Due
<1>3. Outcome(r) # "none"
  BY <1>2 DEF Outcome, JInv, IInv, Sender
<1>4. dispatch[r] # "sending"
  BY ChannelRead, HttpAssumption DEF Due, MaySend, HasRoom
<1> QED
  BY <1>3, <1>4 DEF Due, MayAnswer, Unfinished

(* Nothing waits for everything else: a state in which no task of the      *)
(* server can go on and the guest holds no request has no unfinished       *)
(* dispatch, and a stopped server is done, unless the body of a response   *)
(* lost its owner between the locks of stream::begin.                      *)
THEOREM NobodyStuck == Spec => []NothingStuck
<1>1. JInv => NothingStuck
  <2> SUFFICES ASSUME JInv, ~Due,
                      listener = "timed" \/ ~\E r \in Requests : OrphanStream(r)
               PROVE  (\A r \in Requests : ~Unfinished(r)) /\ (stop => done)
    BY DEF NothingStuck
  <2>1. \A r \in Requests : ~Unfinished(r)
    BY DispatchesEnd
  <2>2. ASSUME stop, ~done PROVE FALSE
    <3>1. listener \in {"drain", "timed"}
      BY <2>2 DEF JInv, IInv, TypeOK, Due, done
    <3>2. accept # "waiting"
      BY <2>2 DEF Due, StopSeen
    <3>3. lock = "drain"
      BY <3>1, <3>2, LockNames DEF JInv, Waits, Due, ReceiverFree
    <3>4. PICK c \in Connections : Serving(c)
      BY <3>3, ChannelRead DEF Due, SendersGone
    <3>5. Open(c)
      BY <3>4, Typed DEF Serving, Due, JInv
    <3>6. listener = "drain" /\ conn[c] = "busy"
      BY <2>2, <3>1, <3>5 DEF Due, GraceOver, IdleAtStop, Open
    <3>7. PICK r \in Requests : at[r] = c /\ Active(r)
      BY <3>6 DEF JInv, Busy
    <3>8. dispatch[r] = "body" /\ answer[r] = "stream" /\ stream[r] # "closed"
      BY <2>1, <3>6, <3>7 DEF Active, Due, Switched, BodyEnds
    <3>9. stream[r] = "open"
      BY <3>8, Typed DEF JInv, Streams
    <3> QED
      BY <3>6, <3>7, <3>9, TableQuiet DEF OrphanStream
  <2> QED
    BY <2>1, <2>2
<1> QED
  BY <1>1, InductiveWaits, PTL

-----------------------------------------------------------------------------
(* No step of Progress can be repeated for ever: there is a natural number *)
(* that each of them makes smaller.  With NobodyStuck this is why a server *)
(* whose clients and handlers do nothing new comes to rest with nothing    *)
(* left to do, if its tasks are polled.                                    *)

Stages == {"live", "removed", "sending", "waiting", "unfinished", "active", "open", "check",
           "leave", "begin", "taken"}

(* What request r still has ahead.                                         *)
Ahead(k, r) ==
    \/ k = "live" /\ table[r] = "live"
    \/ k = "removed" /\ table[r] \in {"live", "removed"}
    \/ k = "sending" /\ dispatch[r] = "sending"
    \/ k = "waiting" /\ dispatch[r] \in {"sending", "waiting"}
    \/ k = "unfinished" /\ Unfinished(r)
    \/ k = "active" /\ Active(r)
    \/ k \in {"open", "check", "leave"} /\ at[r] # None /\ Open(at[r])
    \/ k = "check" /\ leave[r] = "check"
    \/ k = "leave" /\ leave[r] \in {"check", "act"}
    \/ k = "begin" /\ reply[r] = "begin"
    \/ k = "taken" /\ reply[r] \in {"begin", "taken"}

Todo == {x \in Stages \X Requests : Ahead(x[1], x[2])}
Ongoing == {c \in Connections : Open(c)}

(* The accept loop goes round once for each id; the drain only forward.    *)
LoopRank == CASE accept = "received" -> 5 [] accept = "idle" -> 3 [] accept = "waiting" -> 2
              [] accept \in {"failed", "orphan"} -> 1 [] OTHER -> 0
DrainRank == CASE listener = "accept" -> 3 [] listener = "done" -> 0
               [] lock = "drain" -> 1 [] OTHER -> 2

Cursor == 4 * Len(incoming) + Cardinality(held) + LoopRank + DrainRank
Variant == 8 * (Cardinality(Todo) + Cardinality(Ongoing)) + Cursor

StepsCounted == Variant \in Nat /\ (Progress => Variant' < Variant)

LEMMA Finite == /\ IsFiniteSet(Requests) /\ IsFiniteSet(Connections)
                /\ IsFiniteSet(Stages \X Requests)
<1>1. IsFiniteSet(Requests) /\ IsFiniteSet(Connections)
  BY HttpAssumption, FS_Interval DEF Requests, Connections
<1>2. IsFiniteSet(Stages)
  <2>1. \A S, x : IsFiniteSet(S) => IsFiniteSet(S \cup {x})
    BY FS_AddElement
  <2>2. IsFiniteSet({} \cup {"live"} \cup {"removed"} \cup {"sending"} \cup {"waiting"}
                    \cup {"unfinished"} \cup {"active"} \cup {"open"} \cup {"check"}
                    \cup {"leave"} \cup {"begin"} \cup {"taken"})
    BY <2>1, FS_EmptySet, Zenon
  <2>3. Stages = {} \cup {"live"} \cup {"removed"} \cup {"sending"} \cup {"waiting"}
                  \cup {"unfinished"} \cup {"active"} \cup {"open"} \cup {"check"}
                  \cup {"leave"} \cup {"begin"} \cup {"taken"}
    BY DEF Stages
  <2> QED
    BY <2>2, <2>3
<1> QED
  BY <1>1, <1>2, FS_Product

LEMMA CursorNat ==
  ASSUME IInv
  PROVE  /\ Cardinality(held) \in Nat /\ IsFiniteSet(held) /\ Len(incoming) \in Nat
         /\ LoopRank \in 0..5 /\ DrainRank \in 0..3 /\ Cursor \in Nat
<1>1. Cardinality(held) \in Nat /\ IsFiniteSet(held)
  BY Finite, Typed, FS_Subset, FS_CardinalityType
<1>2. Len(incoming) \in Nat
  BY Typed
<1>3. LoopRank \in 0..5
  BY DEF LoopRank
<1>4. DrainRank \in 0..3
  BY DEF DrainRank
<1> QED
  BY <1>1, <1>2, <1>3, <1>4 DEF Cursor

(* A finite set that loses an element and gains none is smaller. *)
LEMMA Smaller ==
  ASSUME NEW S, IsFiniteSet(S), NEW T \in SUBSET S
  PROVE  /\ Cardinality(T) \in Nat /\ Cardinality(S) \in Nat
         /\ Cardinality(T) <= Cardinality(S)
         /\ T # S => Cardinality(T) + 1 <= Cardinality(S)
<1>1. /\ IsFiniteSet(T) /\ Cardinality(T) <= Cardinality(S)
      /\ Cardinality(S) = Cardinality(T) => S = T
  BY FS_Subset
<1>2. Cardinality(T) \in Nat /\ Cardinality(S) \in Nat
  BY <1>1, FS_CardinalityType
<1> QED
  BY <1>1, <1>2

(* What the variant loses when every request and connection only moves     *)
(* forward, and the more when one does. *)
LEMMA Forward ==
  ASSUME IInv, IInv',
         \A k \in Stages, q \in Requests : Ahead(k, q)' => Ahead(k, q),
         \A b \in Connections : Open(b)' => Open(b)
  PROVE  /\ Cursor' < Cursor => Variant' < Variant
         /\ \/ \E k \in Stages, q \in Requests : Ahead(k, q) /\ ~Ahead(k, q)'
            \/ \E b \in Connections : Open(b) /\ ~Open(b)'
            => (Cursor' < Cursor + 8 => Variant' < Variant)
<1>1. Todo' \subseteq Todo /\ Ongoing' \subseteq Ongoing
  BY DEF Todo, Ongoing
<1>2. IsFiniteSet(Todo) /\ IsFiniteSet(Ongoing)
  BY Finite, FS_Subset DEF Todo, Ongoing
<1>3. /\ Cardinality(Todo') \in Nat /\ Cardinality(Todo) \in Nat
      /\ Cardinality(Todo') <= Cardinality(Todo)
      /\ Todo' # Todo => Cardinality(Todo') + 1 <= Cardinality(Todo)
  BY <1>1, <1>2, Smaller
<1>4. /\ Cardinality(Ongoing') \in Nat /\ Cardinality(Ongoing) \in Nat
      /\ Cardinality(Ongoing') <= Cardinality(Ongoing)
      /\ Ongoing' # Ongoing => Cardinality(Ongoing') + 1 <= Cardinality(Ongoing)
  BY <1>1, <1>2, Smaller
<1>5. Cursor \in Nat /\ Cursor' \in Nat
  <2>1. Cardinality(held') \in Nat
    BY Finite, FS_Subset, FS_CardinalityType DEF IInv, TypeOK
  <2>2. Len(incoming') \in Nat
    BY DEF IInv, TypeOK
  <2>3. LoopRank' \in Nat /\ DrainRank' \in Nat
    BY DEF LoopRank, DrainRank
  <2> QED
    BY <2>1, <2>2, <2>3, CursorNat DEF Cursor
<1>6. Variant = 8 * (Cardinality(Todo) + Cardinality(Ongoing)) + Cursor
  BY DEF Variant
<1>7. Variant' = 8 * (Cardinality(Todo') + Cardinality(Ongoing')) + Cursor'
  BY DEF Variant
<1>8. Cursor' < Cursor => Variant' < Variant
  BY <1>3, <1>4, <1>5, <1>6, <1>7
<1>9. ASSUME NEW k \in Stages, NEW q \in Requests, Ahead(k, q), ~Ahead(k, q)'
      PROVE  Todo' # Todo
  <2>1. <<k, q>> \in Todo
    BY <1>9 DEF Todo
  <2>2. <<k, q>> \notin Todo'
    BY <1>9 DEF Todo
  <2> QED
    BY <2>1, <2>2
<1>10. ASSUME NEW b \in Connections, Open(b), ~Open(b)'
       PROVE  Ongoing' # Ongoing
  BY <1>10 DEF Ongoing
<1>11. Todo' # Todo \/ Ongoing' # Ongoing =>
         (Cursor' < Cursor + 8 => Variant' < Variant)
  BY <1>3, <1>4, <1>5, <1>6, <1>7
<1> QED
  BY <1>8, <1>9, <1>10, <1>11

(* A step that only moves the loop, the drain or the channel. *)
LEMMA ForwardOnly ==
  ASSUME IInv, UNCHANGED <<dispatch, leave, reply, at, conn>>,
         table' = table \/ \E q \in Requests : Remove(q)
  PROVE  /\ \A k \in Stages, q \in Requests : Ahead(k, q)' => Ahead(k, q)
         /\ \A b \in Connections : Open(b)' => Open(b)
<1>1. \A q \in Requests : /\ table'[q] = "live" => table[q] = "live"
                          /\ table'[q] \in {"live", "removed"} => table[q] \in {"live", "removed"}
  BY Typed DEF Remove
<1> QED
  BY <1>1 DEF Ahead, Active, Unfinished, Open

(* The accept loop and the drain come closer to their ends. *)
LEMMA LoopDescends ==
  ASSUME JInv, IInv', AcceptTask \/ DrainTask \/ (stop /\ StopListening)
  PROVE  Variant' < Variant
<1>1. IInv /\ Waits
  BY DEF JInv
<1>2. /\ \A k \in Stages, q \in Requests : Ahead(k, q)' => Ahead(k, q)
      /\ \A b \in Connections : Open(b)' => Open(b)
  <2>1. UNCHANGED <<dispatch, leave, reply, at, conn>>
    BY DEF AcceptTask, AcceptStart, AcceptReceive, AcceptStopped, AcceptClaim, AcceptFailed,
       AcceptUnclaimed, DrainTask, DrainLock, DrainOne, Finish, StopListening, pathVars,
       requestVars
  <2>2. table' = table \/ \E q \in Requests : Remove(q)
    <3>1. CASE AcceptUnclaimed
      BY <1>1, <3>1, Typed DEF AcceptUnclaimed, IInv, Owned
    <3>2. CASE DrainOne
      BY <1>1, <3>2, Typed, TailFacts DEF DrainOne, NeverAccepted
    <3> QED
      BY <3>1, <3>2 DEF AcceptTask, AcceptStart, AcceptReceive, AcceptStopped, AcceptClaim,
         AcceptFailed, DrainTask, DrainLock, Finish, StopListening, requestVars
  <2> QED
    BY <1>1, <2>1, <2>2, ForwardOnly
<1>3. Cursor' < Cursor
  <2>0. /\ Cardinality(held) \in Nat /\ IsFiniteSet(held) /\ Len(incoming) \in Nat
        /\ LoopRank \in 0..5 /\ DrainRank \in 0..3
    BY <1>1, CursorNat
  <2>1. CASE AcceptStart \/ AcceptStopped \/ AcceptFailed \/ AcceptUnclaimed
    <3>1. UNCHANGED <<incoming, held, listener>>
      BY <2>1 DEF AcceptStart, AcceptStopped, AcceptFailed, AcceptUnclaimed, serverVars
    <3>2. LoopRank' < LoopRank
      BY <2>1 DEF AcceptStart, AcceptStopped, StopSeen, AcceptFailed, AcceptUnclaimed, LoopRank
    <3>3. lock' = "drain" <=> lock = "drain"
      BY <1>1, <2>1, HttpAssumption DEF Waits, AcceptStart, AcceptStopped, StopSeen,
         AcceptFailed, AcceptUnclaimed
    <3>4. DrainRank' = DrainRank
      BY <3>1, <3>3 DEF DrainRank
    <3>5. LoopRank' \in Int
      BY DEF LoopRank
    <3> QED
      BY <2>0, <3>1, <3>2, <3>4, <3>5 DEF Cursor
  <2>2. CASE AcceptReceive
    <3>1. UNCHANGED <<held, listener>> /\ Len(incoming') = Len(incoming) - 1
      BY <1>1, <2>2, Typed, TailFacts DEF AcceptReceive, IdReceived, serverVars
    <3>2. LoopRank = 2 /\ LoopRank' <= 5 /\ LoopRank' \in Int
      BY <2>2 DEF AcceptReceive, IdReceived, LoopRank
    <3>3. DrainRank' = DrainRank
      BY <1>1, <2>2, HttpAssumption DEF Waits, AcceptReceive, IdReceived, serverVars, DrainRank
    <3> QED
      BY <2>0, <3>1, <3>2, <3>3 DEF Cursor
  <2>3. CASE AcceptClaim
    <3>1. UNCHANGED <<incoming, listener, lock>> /\ held' = held \cup {got}
      BY <2>3 DEF AcceptClaim, serverVars
    <3>2. LoopRank = 5 /\ LoopRank' = 3
      BY <2>3 DEF AcceptClaim, LoopRank
    <3>3. Cardinality(held') \in Nat /\ Cardinality(held') <= Cardinality(held) + 1
      BY <2>0, <3>1, FS_AddElement
    <3>4. DrainRank' = DrainRank
      BY <3>1 DEF DrainRank
    <3> QED
      BY <2>0, <3>1, <3>2, <3>3, <3>4 DEF Cursor
  <2>4. CASE DrainOne
    <3>1. UNCHANGED <<held, accept, listener, lock>> /\ Len(incoming') = Len(incoming) - 1
      BY <1>1, <2>4, Typed, TailFacts DEF DrainOne, NeverAccepted, serverVars, guestVars
    <3>2. LoopRank' = LoopRank /\ DrainRank' = DrainRank
      BY <3>1 DEF LoopRank, DrainRank
    <3> QED
      BY <2>0, <3>1, <3>2 DEF Cursor
  <2>5. CASE DrainLock \/ Finish \/ StopListening
    <3>1. UNCHANGED <<held, accept, incoming>>
      BY <2>5 DEF DrainLock, Finish, StopListening, guestVars
    <3>2. LoopRank' = LoopRank
      BY <3>1 DEF LoopRank
    <3>3. DrainRank' < DrainRank /\ DrainRank' \in Int
      BY <1>1, <2>5, HttpAssumption DEF Waits, DrainLock, ReceiverFree, Finish, SendersGone,
         StopListening, DrainRank, serverVars
    <3> QED
      BY <2>0, <3>1, <3>2, <3>3 DEF Cursor
  <2> QED
    BY <2>1, <2>2, <2>3, <2>4, <2>5 DEF AcceptTask, DrainTask
<1> QED
  BY <1>1, <1>2, <1>3, Forward

(* A request or a connection moves forward. *)
LEMMA RequestDescends ==
  ASSUME JInv, IInv', NEW r \in Requests,
         Release(r) \/ DispatchTask(r) \/ DisconnectTask(r) \/ ResponderTask(r)
  PROVE  Variant' < Variant
<1>0. IInv /\ Leaving /\ Len(incoming) \in Nat
  BY CursorNat DEF JInv
<1>1. Cursor' < Cursor + 8
  <2>1. UNCHANGED <<held, accept, listener, lock>>
    BY DEF Release, DispatchTask, Enqueue, Answer, BodySent, DisconnectTask, DisconnectCheck,
       DisconnectRelease, ResponderTask, StreamOpen, SendReply, guestVars, serverVars
  <2>2. incoming' = incoming \/ Len(incoming') = Len(incoming) + 1
    BY <1>0, Typed, AppendFacts DEF Release, DispatchTask, Enqueue, Answer, BodySent,
       DisconnectTask, DisconnectCheck, DisconnectRelease, ResponderTask, StreamOpen, SendReply
  <2>3. LoopRank' = LoopRank /\ DrainRank' = DrainRank
    BY <2>1 DEF LoopRank, DrainRank
  <2>4. Cardinality(held) \in Nat /\ LoopRank \in Nat /\ DrainRank \in Nat
    BY <1>0, CursorNat
  <2> QED
    BY <1>0, <2>1, <2>2, <2>3, <2>4 DEF Cursor
<1>2. \A b \in Connections : Open(b)' => Open(b)
  <2>1. CASE BodySent(r)
    BY <1>0, <2>1, Typed DEF BodySent, BodyEnds, IInv, OneAtATime, Active, Open
  <2>2. CASE ~BodySent(r)
    BY <2>2 DEF Open, Release, DispatchTask, Enqueue, Answer, DisconnectTask, DisconnectCheck,
       DisconnectRelease, ResponderTask, StreamOpen, SendReply, pathVars
  <2> QED
    BY <2>1, <2>2
<1>3. /\ \A k \in Stages, q \in Requests : Ahead(k, q)' => Ahead(k, q)
      /\ \E k \in Stages, q \in Requests : Ahead(k, q) /\ ~Ahead(k, q)'
  <2>a. at' = at
    BY DEF Release, DispatchTask, Enqueue, Answer, BodySent, DisconnectTask, DisconnectCheck,
       DisconnectRelease, ResponderTask, StreamOpen, SendReply, pathVars
  <2>b. \A q \in Requests : at[q] # None => at[q] \in Connections
    BY <1>0, Typed
  <2>0. \A q \in Requests : at[q] # None => (Open(at[q])' => Open(at[q]))
    BY <1>2, <2>a, <2>b DEF Open
  <2>1. CASE Release(r)
    <3>1. /\ UNCHANGED <<dispatch, leave, at, conn>>
          /\ \A q \in Requests : /\ table'[q] = "live" => table[q] = "live"
                                 /\ table'[q] \in {"live", "removed"}
                                      => table[q] \in {"live", "removed"}
                                 /\ reply'[q] = "begin" => reply[q] = "begin"
                                 /\ reply'[q] \in {"begin", "taken"}
                                      => reply[q] \in {"begin", "taken"}
          /\ table[r] = "removed" /\ table'[r] = "released"
      BY <1>0, <2>1, Typed DEF Release, pathVars
    <3>2. Ahead("removed", r) /\ ~Ahead("removed", r)'
      BY <3>1 DEF Ahead
    <3>3. \A k \in Stages, q \in Requests : Ahead(k, q)' => Ahead(k, q)
      BY <3>1 DEF Ahead, Active, Unfinished, Open
    <3> QED
      BY <3>2, <3>3 DEF Stages
  <2>2. CASE DispatchTask(r)
    <3>1. /\ UNCHANGED <<table, reply, leave, at>>
          /\ \A q \in Requests : q # r => dispatch'[q] = dispatch[q]
          /\ \/ dispatch[r] = "sending" /\ dispatch'[r] = "waiting"
             \/ dispatch[r] = "waiting" /\ dispatch'[r] = "taken"
             \/ dispatch[r] \in {"waiting", "taken"} /\ dispatch'[r] = "body"
             \/ dispatch[r] = "body" /\ dispatch'[r] = "sent"
      BY <1>0, <2>2, Typed DEF DispatchTask, Enqueue, MaySend, Answer, MayAnswer, Outcome,
         BodySent, BodyEnds, requestVars
    <3>2. \E k \in {"sending", "waiting", "unfinished", "active"} :
            Ahead(k, r) /\ ~Ahead(k, r)'
      BY <3>1 DEF Ahead, Active, Unfinished
    <3>3. \A k \in Stages, q \in Requests : Ahead(k, q)' => Ahead(k, q)
      BY <2>0, <3>1 DEF Ahead, Active, Unfinished
    <3> QED
      BY <3>2, <3>3 DEF Stages
  <2>3. CASE DisconnectTask(r)
    <3>1. /\ UNCHANGED <<dispatch, reply, at, conn>>
          /\ \A q \in Requests : q # r => leave'[q] = leave[q]
          /\ \A q \in Requests : /\ table'[q] = "live" => table[q] = "live"
                                 /\ table'[q] \in {"live", "removed"}
                                      => table[q] \in {"live", "removed"}
          /\ \/ leave[r] = "check" /\ leave'[r] \in {"act", "no"}
             \/ leave[r] = "act" /\ leave'[r] = "no"
      BY <1>0, <2>3, Typed DEF DisconnectTask, DisconnectCheck, DisconnectRelease, Remove
    <3>2. conn[at[r]] = "closed" /\ at'[r] = at[r]
      BY <1>0, <3>1 DEF Leaving
    <3>3. \E k \in {"check", "leave"} : Ahead(k, r) /\ ~Ahead(k, r)'
      BY <3>1, <3>2 DEF Ahead, Open
    <3>4. \A k \in Stages, q \in Requests : Ahead(k, q)' => Ahead(k, q)
      BY <3>1 DEF Ahead, Active, Unfinished, Open
    <3> QED
      BY <3>3, <3>4 DEF Stages
  <2>4. CASE ResponderTask(r)
    <3>1. /\ UNCHANGED <<table, dispatch, leave, at, conn>>
          /\ \A q \in Requests : q # r => reply'[q] = reply[q]
          /\ \/ reply[r] = "begin" /\ reply'[r] = "taken"
             \/ reply[r] = "taken" /\ reply'[r] \in {"sent", "lost"}
      BY <1>0, <2>4, Typed DEF ResponderTask, StreamOpen, SendReply, pathVars
    <3>2. \E k \in {"begin", "taken"} : Ahead(k, r) /\ ~Ahead(k, r)'
      BY <3>1 DEF Ahead
    <3>3. \A k \in Stages, q \in Requests : Ahead(k, q)' => Ahead(k, q)
      BY <3>1 DEF Ahead, Active, Unfinished, Open
    <3> QED
      BY <3>2, <3>3 DEF Stages
  <2> QED
    BY <2>1, <2>2, <2>3, <2>4
<1> QED
  BY <1>0, <1>1, <1>2, <1>3, Forward

LEMMA ReleaseDescends ==
  ASSUME JInv, IInv', NEW r \in Requests, GuestRelease(r)
  PROVE  Variant' < Variant
<1>1. /\ \A k \in Stages, q \in Requests : Ahead(k, q)' => Ahead(k, q)
      /\ \A b \in Connections : Open(b)' => Open(b)
  BY ForwardOnly DEF JInv, GuestRelease, pathVars
<1>2. /\ UNCHANGED <<incoming, accept, listener, lock>>
      /\ r \in held /\ held' = held \ {r}
  BY DEF GuestRelease, serverVars
<1>3. LoopRank' = LoopRank /\ DrainRank' = DrainRank
  BY <1>2 DEF LoopRank, DrainRank
<1>4. Cardinality(held') = Cardinality(held) - 1
  BY <1>2, CursorNat, FS_RemoveElement DEF JInv
<1>5. Cursor' < Cursor
  <2>1. /\ Cardinality(held) \in Nat /\ Len(incoming) \in Nat
        /\ LoopRank \in Nat /\ DrainRank \in Nat
    BY CursorNat DEF JInv
  <2> QED
    BY <1>2, <1>3, <1>4, <2>1 DEF Cursor
<1> QED
  BY <1>1, <1>5, Forward DEF JInv

LEMMA ConnectionDescends ==
  ASSUME JInv, IInv', DrainTimeout \/ \E c \in Connections : ConnectionTask(c)
  PROVE  Variant' < Variant
<1>0. IInv
  BY DEF JInv
<1>1. PICK cs \in SUBSET Connections :
        /\ \E c \in cs : Open(c)
        /\ conn' = [c \in Connections |-> IF c \in cs THEN "closed" ELSE conn[c]]
        /\ \A q \in Requests : dispatch'[q] \in {dispatch[q], "dropped", "aborted"}
        /\ \A q \in Requests : \/ leave'[q] = leave[q]
                               \/ at[q] # None /\ Open(at[q]) /\ leave'[q] = "check"
        /\ UNCHANGED <<at, table, reply, incoming, held, accept, listener, lock>>
  <2>1. ASSUME NEW c \in Connections, Open(c), EndConnection(c)
        PROVE  /\ conn' = [b \in Connections |-> IF b \in {c} THEN "closed" ELSE conn[b]]
               /\ \A q \in Requests : dispatch'[q] \in {dispatch[q], "dropped", "aborted"}
               /\ \A q \in Requests : \/ leave'[q] = leave[q]
                                      \/ at[q] # None /\ Open(at[q]) /\ leave'[q] = "check"
               /\ UNCHANGED <<at, table, reply, incoming, held, accept, listener, lock>>
    BY <2>1, Distinct DEF EndConnection, DropFutures, serverVars, guestVars
  <2>2. CASE DrainTimeout
    <3>1. /\ \E c \in {b \in Connections : Open(b)} : Open(c)
          /\ conn' = [b \in Connections |-> IF b \in {x \in Connections : Open(x)}
                                            THEN "closed" ELSE conn[b]]
          /\ \A q \in Requests : dispatch'[q] \in {dispatch[q], "dropped", "aborted"}
          /\ UNCHANGED <<leave, at, table, reply, incoming, held, accept, listener, lock>>
      BY <2>2 DEF DrainTimeout, GraceOver, DropFutures, serverVars, guestVars
    <3> QED
      BY <3>1
  <2>3. ASSUME NEW c \in Connections, ConnectionTask(c)
        PROVE  Open(c) /\ EndConnection(c)
    BY <2>3 DEF ConnectionTask, GracefulClose, IdleAtStop, SwitchProtocols, Switched, Open
  <2>4. ASSUME NEW c \in Connections, ConnectionTask(c)
        PROVE  \E cs \in SUBSET Connections :
                 /\ \E b \in cs : Open(b)
                 /\ conn' = [b \in Connections |-> IF b \in cs THEN "closed" ELSE conn[b]]
                 /\ \A q \in Requests : dispatch'[q] \in {dispatch[q], "dropped", "aborted"}
                 /\ \A q \in Requests : \/ leave'[q] = leave[q]
                                        \/ at[q] # None /\ Open(at[q]) /\ leave'[q] = "check"
                 /\ UNCHANGED <<at, table, reply, incoming, held, accept, listener, lock>>
    <3> WITNESS {c} \in SUBSET Connections
    <3> QED
      BY <2>1, <2>3, <2>4
  <2> QED
    BY <2>2, <2>4
<1>2. \A b \in Connections : Open(b)' => Open(b)
  BY <1>1 DEF Open
<1>3. \E b \in Connections : Open(b) /\ ~Open(b)'
  BY <1>1 DEF Open
<1>4. \A q \in Requests : at[q] # None => (Open(at[q])' => Open(at[q]))
  BY <1>0, <1>1, <1>2, Typed
<1>5. \A k \in Stages, q \in Requests : Ahead(k, q)' => Ahead(k, q)
  <2>1. \A q \in Requests : /\ dispatch'[q] = "sending" => dispatch[q] = "sending"
                            /\ dispatch'[q] = "waiting" => dispatch[q] = "waiting"
                            /\ Unfinished(q)' => Unfinished(q)
                            /\ Active(q)' => Active(q)
    BY <1>1 DEF Unfinished, Active
  <2> QED
    BY <1>1, <1>4, <2>1 DEF Ahead
<1>6. Cursor' = Cursor
  BY <1>1 DEF Cursor, LoopRank, DrainRank
<1>7. Cursor' < Cursor + 8
  BY <1>0, <1>6, CursorNat
<1> QED
  BY <1>0, <1>2, <1>3, <1>5, <1>7, Forward

(* Every step that a task, the grace period or a handler that ends owes    *)
(* makes the variant smaller; only clients, handlers that answer, a stop   *)
(* and an abort make it larger, so that the server's own steps run out.    *)
THEOREM ProgressRunsOut == Spec => [][StepsCounted]_vars
<1>1. JInv => Variant \in Nat
  <2>1. IsFiniteSet(Todo) /\ IsFiniteSet(Ongoing)
    BY Finite, FS_Subset DEF Todo, Ongoing
  <2> QED
    BY <2>1, FS_CardinalityType, CursorNat DEF JInv, Variant
<1>2. JInv /\ IInv' /\ [Next]_vars => [StepsCounted]_vars
  <2> SUFFICES ASSUME JInv, IInv', Progress
               PROVE  Variant' < Variant
    BY <1>1 DEF StepsCounted
  <2> QED
    BY LoopDescends, RequestDescends, ReleaseDescends, ConnectionDescends DEF Progress
<1> QED
  BY <1>2, Inductive, InductiveWaits, PTL DEF Spec

(* Due is what Progress needs: each of its steps finds one of the guards.  *)
LEMMA DueIsNeeded == Progress => Due
BY DEF Progress, Due, AcceptTask, AcceptStart, AcceptReceive, AcceptStopped, AcceptClaim,
   AcceptFailed, AcceptUnclaimed, DrainTask, DrainLock, DrainOne, Finish, DrainTimeout,
   StopListening, ConnectionTask, GracefulClose, SwitchProtocols, Release, DispatchTask,
   Enqueue, Answer, BodySent, DisconnectTask, DisconnectCheck, DisconnectRelease,
   ResponderTask, StreamOpen, SendReply, GuestRelease

=============================================================================
