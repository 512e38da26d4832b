------------------------ MODULE SharedChannelProofs -------------------------
(***************************************************************************)
(* Proofs about SharedChannel, for any endpoints, capacities and number of *)
(* values: the ring buffer implements ChannelFifo, and nobody sleeps       *)
(* unregistered.                                                           *)
(***************************************************************************)
EXTENDS SharedChannel, FiniteSetTheorems, TLAPS

(* The counters are those of the open endpoints.                           *)
OpenOf(S) == {e \in S : endpoint[e] = "open"}
Counted == /\ senders = Cardinality(OpenOf(Senders))
           /\ receivers = Cardinality(OpenOf(Receivers))

(* The ring holds values in its used slots until it is discarded.          *)
Slot(i) == (head + i) % capacity
Ring ==
    /\ receive_closed => count = 0
    /\ ~receive_closed =>
          /\ items \in [0..(capacity - 1) -> Values \cup {NoValue}]
          /\ \A i \in 0..(count - 1) : items[Slot(i)] \in Values

(* A sender that is in a call has a value left to send.                    *)
Unsent ==
    \A s \in Senders : pc[s] \notin {"idle", "closed", "eof"} => sends[s] < MaxSends

(* SleepersRegistered, with the lists' part said once.                     *)
Distinct(q) == \A i, j \in 1..Len(q) : q[i] = q[j] => i = j
Signals ==
    /\ \A e \in Endpoints : Asleep(e) <=> On(readable, e) \/ On(writable, e)
    /\ Distinct(readable) /\ Distinct(writable)

IInv == TypeOK /\ Counted /\ Ring /\ Unsent /\ EofIsFinal /\ Signals

-----------------------------------------------------------------------------
(* Arithmetic of the ring.                                                 *)

LEMMA ModFacts ==
  ASSUME NEW c \in Nat \ {0}, NEW h \in 0..(c - 1), NEW i \in 0..c
  PROVE  /\ (h + i) % c = IF h + i < c THEN h + i ELSE h + i - c
         /\ (h + i) % c \in 0..(c - 1)
<1>1. CASE h + i < c
  <2>1. h + i \in 0..(c - 1)
    BY <1>1
  <2>2. \A x \in 0..(c - 1) : x % c = x
    OBVIOUS
  <2> QED
    BY <1>1, <2>1, <2>2
<1>2. CASE h + i >= c
  <2>1. h + i \in c..(2 * c - 1)
    BY <1>2
  <2>2. \A x \in c..(2 * c - 1) : x % c = x - c
    OBVIOUS
  <2> QED
    BY <1>2, <2>1, <2>2
<1> QED
  BY <1>1, <1>2

(* Slots of the ring are distinct, and the oldest is at head.              *)
LEMMA SlotFacts ==
  ASSUME TypeOK
  PROVE  /\ capacity \in Nat \ {0} /\ head \in 0..(capacity - 1) /\ count \in 0..capacity
         /\ \A i \in 0..capacity : Slot(i) \in 0..(capacity - 1)
         /\ Slot(0) = head
         /\ \A i, j \in 0..(capacity - 1) : i # j => Slot(i) # Slot(j)
         /\ \A i \in 0..(capacity - 1) : (Slot(1) + i) % capacity = Slot(i + 1)
<1>1. capacity \in Nat \ {0} /\ head \in 0..(capacity - 1) /\ count \in 0..capacity
  BY DEF TypeOK
<1>2. \A i \in 0..capacity : /\ Slot(i) = IF head + i < capacity THEN head + i
                                                                 ELSE head + i - capacity
                             /\ Slot(i) \in 0..(capacity - 1)
  BY <1>1, ModFacts DEF Slot
<1>3. Slot(0) = head
  BY <1>1, <1>2
<1>4. \A i, j \in 0..(capacity - 1) : i # j => Slot(i) # Slot(j)
  BY <1>1, <1>2
<1>5. ASSUME NEW i \in 0..(capacity - 1)
      PROVE  (Slot(1) + i) % capacity = Slot(i + 1)
  <2>1. Slot(1) \in 0..(capacity - 1) /\ i \in 0..capacity /\ i + 1 \in 0..capacity
        /\ 1 \in 0..capacity
    BY <1>1, <1>2
  <2>2. (Slot(1) + i) % capacity = IF Slot(1) + i < capacity THEN Slot(1) + i
                                                             ELSE Slot(1) + i - capacity
    BY <1>1, <2>1, ModFacts
  <2> QED
    BY <1>1, <1>2, <2>1, <2>2
<1> QED
  BY <1>1, <1>2, <1>3, <1>4, <1>5

-----------------------------------------------------------------------------
(* The registration lists.                                                 *)

LEMMA RestFacts ==
  ASSUME NEW S, NEW q \in Seq(S), Distinct(q)
  PROVE  /\ Rest(q) \in Seq(S) /\ Distinct(Rest(q))
         /\ \A e : On(Rest(q), e) <=> On(q, e) /\ (q # <<>> => e # Head(q))
         /\ q # <<>> => Head(q) \in S /\ On(q, Head(q))
<1>1. CASE q = <<>>
  BY <1>1 DEF Rest, On
<1>2. CASE q # <<>>
  <2>1. /\ Head(q) = q[1] /\ Len(q) \in Nat /\ Len(q) >= 1 /\ Tail(q) \in Seq(S)
        /\ Len(Tail(q)) = Len(q) - 1
        /\ \A i \in 1..(Len(q) - 1) : Tail(q)[i] = q[i + 1]
        /\ q[1] \in S
    BY <1>2
  <2>2. Rest(q) = Tail(q)
    BY <1>2 DEF Rest
  <2>3. Distinct(Tail(q))
    <3> SUFFICES ASSUME NEW i \in 1..Len(Tail(q)), NEW j \in 1..Len(Tail(q)),
                        Tail(q)[i] = Tail(q)[j]
                 PROVE  i = j
      BY DEF Distinct
    <3>1. i + 1 \in 1..Len(q) /\ j + 1 \in 1..Len(q) /\ q[i + 1] = q[j + 1]
      BY <2>1
    <3>2. i + 1 = j + 1
      BY <3>1 DEF Distinct
    <3> QED
      BY <2>1, <3>2
  <2>4. ASSUME NEW e
        PROVE  On(Tail(q), e) <=> On(q, e) /\ e # q[1]
    <3>1. ASSUME On(Tail(q), e) PROVE On(q, e) /\ e # q[1]
      <4>1. PICK i \in 1..Len(Tail(q)) : Tail(q)[i] = e
        BY <3>1 DEF On
      <4>2. i + 1 \in 1..Len(q) /\ q[i + 1] = e /\ i + 1 # 1 /\ 1 \in 1..Len(q)
        BY <2>1, <4>1
      <4> QED
        BY <4>2 DEF On, Distinct
    <3>2. ASSUME On(q, e), e # q[1] PROVE On(Tail(q), e)
      <4>1. PICK i \in 1..Len(q) : q[i] = e
        BY <3>2 DEF On
      <4>2. i - 1 \in 1..Len(Tail(q)) /\ Tail(q)[i - 1] = e
        BY <2>1, <3>2, <4>1
      <4> QED
        BY <4>2 DEF On
    <3> QED
      BY <3>1, <3>2
  <2>5. On(q, q[1])
    BY <2>1 DEF On
  <2> QED
    BY <1>2, <2>1, <2>2, <2>3, <2>4, <2>5
<1> QED
  BY <1>1, <1>2

LEMMA AppendFacts ==
  ASSUME NEW S, NEW q \in Seq(S), NEW e \in S
  PROVE  /\ Append(q, e) \in Seq(S)
         /\ \A x : On(Append(q, e), x) <=> On(q, x) \/ x = e
         /\ Distinct(q) /\ ~On(q, e) => Distinct(Append(q, e))
<1>1. /\ Append(q, e) \in Seq(S) /\ Len(Append(q, e)) = Len(q) + 1 /\ Len(q) \in Nat
      /\ \A i \in 1..Len(q) : Append(q, e)[i] = q[i]
      /\ Append(q, e)[Len(q) + 1] = e
  OBVIOUS
<1>2. \A i \in 1..(Len(q) + 1) : i \in 1..Len(q) \/ i = Len(q) + 1
  BY <1>1
<1>3. \A i \in 1..Len(q) : i \in 1..(Len(q) + 1)
  BY <1>1
<1>4. Len(q) + 1 \in 1..(Len(q) + 1)
  BY <1>1
<1>5. \A x : On(Append(q, e), x) <=> On(q, x) \/ x = e
  BY <1>1, <1>2, <1>3, <1>4 DEF On
<1>6. Distinct(q) /\ ~On(q, e) => Distinct(Append(q, e))
  BY <1>1, <1>2 DEF Distinct, On
<1> QED
  BY <1>1, <1>5, <1>6

LEMMA WithoutFacts ==
  ASSUME NEW S, NEW q \in Seq(S), Distinct(q), NEW e
  PROVE  /\ Without(q, e) \in Seq(S) /\ Distinct(Without(q, e))
         /\ \A x : On(Without(q, e), x) <=> On(q, x) /\ x # e
<1>1. CASE ~On(q, e)
  BY <1>1 DEF Without, On
<1>2. CASE On(q, e)
  <2> DEFINE i == CHOOSE i \in 1..Len(q) : q[i] = e
             n == Len(q)
             p == SubSeq(q, 1, i - 1)
             t == SubSeq(q, i + 1, n)
             u == p \o t
  <2>1. i \in 1..n /\ q[i] = e
    BY <1>2 DEF On
  <2> HIDE DEF i
  <2>2. n \in Nat /\ \A k \in 1..n : q[k] \in S
    OBVIOUS
  <2>3. /\ p \in Seq(S) /\ Len(p) = i - 1
        /\ \A k \in 1..(i - 1) : p[k] = q[k]
    BY <2>1, <2>2
  <2>4. /\ t \in Seq(S) /\ Len(t) = n - i
        /\ \A k \in 1..(n - i) : t[k] = q[i + k]
    BY <2>1, <2>2
  <2> HIDE DEF p, t
  <2>5. /\ u \in Seq(S) /\ Len(u) = n - 1
        /\ \A k \in 1..(n - 1) : u[k] = IF k < i THEN q[k] ELSE q[k + 1]
    <3>1. u \in Seq(S) /\ Len(u) = (i - 1) + (n - i)
      BY <2>3, <2>4
    <3>2. \A k \in 1..(n - 1) : u[k] = IF k <= Len(p) THEN p[k] ELSE t[k - Len(p)]
      BY <2>1, <2>2, <2>3, <2>4
    <3>3. ASSUME NEW k \in 1..(n - 1)
          PROVE  u[k] = IF k < i THEN q[k] ELSE q[k + 1]
      <4>1. CASE k < i
        BY <2>1, <2>2, <2>3, <3>2, <4>1
      <4>2. CASE k >= i
        <5>1. k - Len(p) = k - i + 1 /\ k - i + 1 \in 1..(n - i) /\ i + (k - i + 1) = k + 1
          BY <2>1, <2>2, <2>3, <4>2
        <5>2. ~(k <= Len(p))
          BY <2>1, <2>3, <4>2
        <5>3. u[k] = t[k - Len(p)]
          BY <3>2, <5>2
        <5> QED
          BY <2>1, <2>4, <4>2, <5>1, <5>3
      <4>3. k < i \/ k >= i
        BY <2>1, <2>2
      <4> QED
        BY <4>1, <4>2, <4>3, Zenon
    <3> QED
      BY <2>1, <2>2, <3>1, <3>3
  <2>6. Without(q, e) = u
    BY <1>2 DEF Without, i, p, t
  <2> HIDE DEF u
  <2>7. Distinct(u)
    <3> SUFFICES ASSUME NEW j \in 1..Len(u), NEW k \in 1..Len(u), u[j] = u[k]
                 PROVE  j = k
      BY DEF Distinct
    <3> DEFINE f(x) == IF x < i THEN x ELSE x + 1
    <3>1. /\ f(j) \in 1..n /\ f(k) \in 1..n /\ q[f(j)] = q[f(k)]
          /\ j \in Nat /\ k \in Nat
      BY <2>1, <2>2, <2>5
    <3>2. f(j) = f(k)
      BY <3>1 DEF Distinct
    <3> QED
      BY <2>1, <3>1, <3>2
  <2>8. ASSUME NEW x PROVE On(u, x) <=> On(q, x) /\ x # e
    <3>1. ASSUME On(u, x) PROVE On(q, x) /\ x # e
      <4>1. PICK k \in 1..(n - 1) : u[k] = x
        BY <2>5, <3>1 DEF On
      <4>2. CASE k < i
        BY <2>1, <2>2, <2>5, <4>1, <4>2 DEF On, Distinct
      <4>3. CASE k >= i
        <5>1. k + 1 \in 1..n /\ q[k + 1] = x /\ k + 1 # i
          BY <2>1, <2>2, <2>5, <4>1, <4>3
        <5> QED
          BY <2>1, <5>1 DEF On, Distinct
      <4> QED
        BY <2>1, <4>2, <4>3
    <3>2. ASSUME On(q, x), x # e PROVE On(u, x)
      <4>1. PICK k \in 1..n : q[k] = x
        BY <3>2 DEF On
      <4>2. CASE k < i
        BY <2>1, <2>2, <2>5, <4>1, <4>2 DEF On
      <4>3. CASE k > i
        <5>1. k - 1 \in 1..(n - 1) /\ ~(k - 1 < i) /\ (k - 1) + 1 = k
          BY <2>1, <2>2, <4>1, <4>3
        <5>2. u[k - 1] = x
          BY <2>5, <4>1, <5>1
        <5> QED
          BY <2>5, <5>1, <5>2 DEF On
      <4> QED
        BY <2>1, <2>2, <3>2, <4>1, <4>2, <4>3
    <3> QED
      BY <3>1, <3>2
  <2> QED
    BY <2>5, <2>6, <2>7, <2>8
<1> QED
  BY <1>1, <1>2

-----------------------------------------------------------------------------
(* Types and small facts.                                                  *)

PCs == {"idle", "top", "try", "status", "wait", "sleep", "closed", "eof"}

LEMMA Typed ==
  ASSUME IInv
  PROVE  /\ endpoint \in [Endpoints -> {"none", "open", "closed"}]
         /\ pc \in [Endpoints -> PCs]
         /\ blocking \in [Endpoints -> BOOLEAN]
         /\ done \in [Endpoints -> BOOLEAN]
         /\ cancelled \in [Endpoints -> BOOLEAN]
         /\ sends \in [Senders -> 0..MaxSends]
         /\ inbox \in [Receivers -> Seq(Values)]
         /\ readable \in Seq(Receivers) /\ writable \in Seq(Senders)
BY DEF IInv, TypeOK, PCs

LEMMA SidesDiffer ==
  /\ \A s \in Senders : s \in Endpoints /\ s \notin Receivers
  /\ \A r \in Receivers : r \in Endpoints /\ r \notin Senders
  /\ \A e \in Endpoints : e \in Senders \/ e \in Receivers
BY EndpointsDisjoint DEF Endpoints

LEMMA GoToFacts ==
  ASSUME IInv, NEW e \in Endpoints, NEW p \in PCs, GoTo(e, p)
  PROVE  /\ pc' \in [Endpoints -> PCs] /\ pc'[e] = p
         /\ \A x \in Endpoints : x # e => pc'[x] = pc[x]
         /\ blocking' \in [Endpoints -> BOOLEAN]
         /\ cancelled' \in [Endpoints -> BOOLEAN]
<1>1. /\ pc' \in [Endpoints -> PCs] /\ pc'[e] = p
      /\ \A x \in Endpoints : x # e => pc'[x] = pc[x]
  BY Typed DEF GoTo
<1>2. blocking' \in [Endpoints -> BOOLEAN]
  BY Typed DEF GoTo
<1>3. cancelled' \in [Endpoints -> BOOLEAN]
  BY Typed DEF GoTo
<1> QED
  BY <1>1, <1>2, <1>3

(* Where a call can go when it must wait. *)
LEMMA MustWaitType ==
  ASSUME NEW e
  PROVE  MustWait(e) \in {"wait", "idle"}
BY DEF MustWait

(* A registration is its sleeper's. *)
LEMMA Registered ==
  ASSUME IInv, NEW e \in Endpoints
  PROVE  /\ On(readable, e) => e \in Receivers /\ Asleep(e)
         /\ On(writable, e) => e \in Senders /\ Asleep(e)
         /\ Asleep(e) => On(readable, e) \/ On(writable, e)
<1>1. readable \in Seq(Receivers) /\ writable \in Seq(Senders)
  BY Typed
<1>2. On(readable, e) => e \in Receivers
  BY <1>1 DEF On
<1>3. On(writable, e) => e \in Senders
  BY <1>1 DEF On
<1> QED
  BY <1>2, <1>3 DEF IInv, Signals

LEMMA InitIInv == Init => IInv
<1> SUFFICES ASSUME Init PROVE IInv
  OBVIOUS
<1>0. PICK c \in Capacities : /\ bounded = (c > 0)
                              /\ capacity = IF bounded THEN c ELSE InitialCapacity
  BY DEF Init
<1>1. capacity \in Nat \ {0} /\ bounded \in BOOLEAN
  <2>1. c \in Nat /\ InitialCapacity \in Nat \ {0}
    BY CapacityType
  <2>2. bounded \in BOOLEAN
    BY <1>0, <2>1
  <2>3. bounded => c > 0
    BY <1>0, <2>1
  <2> QED
    BY <1>0, <2>1, <2>2, <2>3
<1>2. /\ items \in [0..(capacity - 1) -> Values \cup {NoValue}]
      /\ head \in 0..(capacity - 1) /\ count = 0 /\ count \in 0..capacity
  BY <1>1 DEF Init
<1>3. OpenOf(Senders) = {} /\ OpenOf(Receivers) = {}
  BY SidesDiffer DEF Init, OpenOf
<1>4. Counted
  BY <1>3, FS_EmptySet DEF Counted, Init
<1>5. senders \in 0..Cardinality(Senders) /\ receivers \in 0..Cardinality(Receivers)
  BY EndpointsFinite, FS_CardinalityType DEF Init
<1>6. TypeOK
  <2>1. /\ readable \in Seq(Receivers) /\ writable \in Seq(Senders)
        /\ inbox \in [Receivers -> Seq(Values)]
    BY DEF Init
  <2>2. /\ blocking \in [Endpoints -> BOOLEAN] /\ done \in [Endpoints -> BOOLEAN]
        /\ cancelled \in [Endpoints -> BOOLEAN]
        /\ send_closed \in BOOLEAN /\ receive_closed \in BOOLEAN
    BY DEF Init
  <2>3. sends \in [Senders -> 0..MaxSends]
    BY MaxSendsType DEF Init
  <2> QED
    BY <1>1, <1>2, <1>5, <2>1, <2>2, <2>3 DEF Init, TypeOK
<1>7. Ring /\ Unsent /\ EofIsFinal
  BY <1>2, SidesDiffer DEF Init, Ring, Unsent, EofIsFinal
<1>8. Signals
  BY DEF Init, Signals, Asleep, On, Distinct
<1> QED
  BY <1>4, <1>6, <1>7, <1>8 DEF IInv

-----------------------------------------------------------------------------
(* The steps that only move a call.                                        *)

(* A step of one call that leaves the channel and the signals alone and    *)
(* neither puts the call to sleep nor ends it with eof.                    *)
LEMMA Moves ==
  ASSUME IInv, NEW e \in Endpoints, NEW p \in PCs \ {"sleep", "eof"},
         UNCHANGED <<ringVars, stateVars, signalVars, endpoint, sends, inbox>>,
         pc[e] # "sleep",
         pc' = [pc EXCEPT ![e] = p],
         blocking' \in [Endpoints -> BOOLEAN], cancelled' \in [Endpoints -> BOOLEAN],
         e \in Senders /\ p \notin {"idle", "closed"} => sends[e] < MaxSends
  PROVE  IInv'
<1> USE DEF ringVars, stateVars, signalVars
<1>1. pc' \in [Endpoints -> PCs] /\ \A x \in Endpoints : x # e => pc'[x] = pc[x]
  BY Typed
<1>2. TypeOK'
  BY <1>1 DEF IInv, TypeOK, PCs
<1>3. Counted' /\ Ring'
  BY DEF IInv, Counted, OpenOf, Ring, Slot
<1>4. Unsent' /\ EofIsFinal'
  BY <1>1, Typed, SidesDiffer DEF IInv, Unsent, EofIsFinal
<1>5. Signals'
  <2>1. \A x \in Endpoints : Asleep(x)' <=> Asleep(x)
    BY <1>1, Typed DEF Asleep
  <2> QED
    BY <2>1 DEF IInv, Signals, On, Distinct
<1> QED
  BY <1>2, <1>3, <1>4, <1>5 DEF IInv

(* A call starts. *)
LEMMA Inv_Start ==
  ASSUME IInv, NEW e \in Endpoints, NEW b \in BOOLEAN, Start(e, b)
  PROVE  IInv'
<1>1. blocking' \in [Endpoints -> BOOLEAN] /\ cancelled' = cancelled
  BY Typed DEF Start
<1>2. CASE b
  BY <1>1, <1>2, Typed, Moves DEF Start, PCs
<1>3. CASE ~b
  BY <1>1, <1>3, Typed, Moves DEF Start, PCs
<1> QED
  BY <1>2, <1>3

(* The top of the loop. *)
LEMMA Inv_CheckToken ==
  ASSUME IInv, NEW e \in Endpoints, CheckToken(e)
  PROVE  IInv'
<1>1. PICK p \in {"idle", "try"} : GoTo(e, p)
  BY DEF CheckToken
<1>2. blocking' \in [Endpoints -> BOOLEAN] /\ cancelled' \in [Endpoints -> BOOLEAN]
  BY <1>1, GoToFacts DEF PCs
<1>3. e \in Senders => sends[e] < MaxSends
  BY DEF CheckToken, IInv, Unsent
<1> QED
  BY <1>1, <1>2, <1>3, Moves DEF CheckToken, GoTo, PCs

(* The token of a call is cancelled. *)
LEMMA Inv_CancelToken ==
  ASSUME IInv, NEW e \in Endpoints, CancelToken(e)
  PROVE  IInv'
<1>1. cancelled' \in [Endpoints -> BOOLEAN]
  BY Typed DEF CancelToken
<1>2. TypeOK'
  BY <1>1 DEF IInv, TypeOK, CancelToken, ringVars, stateVars, signalVars
<1>3. Counted' /\ Ring' /\ Unsent' /\ EofIsFinal'
  BY DEF IInv, Counted, OpenOf, Ring, Slot, Unsent, EofIsFinal, CancelToken, ringVars,
     stateVars
<1>4. Signals'
  BY DEF IInv, Signals, Asleep, On, Distinct, CancelToken, signalVars
<1> QED
  BY <1>2, <1>3, <1>4 DEF IInv

(* Why nothing was received. *)
LEMMA Inv_dream_channel_status ==
  ASSUME IInv, NEW r \in Receivers, dream_channel_status(r)
  PROVE  IInv'
<1>0. r \in Endpoints /\ r \notin Senders
  BY SidesDiffer
<1>1. PICK p \in {"closed", "eof", "wait", "idle"} :
        /\ GoTo(r, p)
        /\ p = "eof" => send_closed /\ count = 0
  BY MustWaitType DEF dream_channel_status
<1>2. blocking' \in [Endpoints -> BOOLEAN] /\ cancelled' \in [Endpoints -> BOOLEAN]
  BY <1>0, <1>1, GoToFacts DEF PCs
<1>3. CASE p # "eof"
  BY <1>0, <1>1, <1>2, <1>3, Moves DEF dream_channel_status, GoTo, PCs
<1>4. CASE p = "eof"
  <2> USE DEF ringVars, stateVars, signalVars
  <2>1. /\ pc' \in [Endpoints -> PCs] /\ pc'[r] = "eof"
        /\ \A x \in Endpoints : x # r => pc'[x] = pc[x]
    BY <1>0, <1>1, <1>4, GoToFacts DEF PCs
  <2>2. TypeOK'
    BY <1>2, <2>1 DEF IInv, TypeOK, PCs, dream_channel_status
  <2>3. Counted' /\ Ring'
    BY DEF IInv, Counted, OpenOf, Ring, Slot, dream_channel_status
  <2>4. Unsent' /\ EofIsFinal'
    BY <1>0, <1>1, <1>4, <2>1, SidesDiffer DEF IInv, Unsent, EofIsFinal, dream_channel_status
  <2>5. Signals'
    <3>1. \A x \in Endpoints : Asleep(x)' <=> Asleep(x)
      BY <1>0, <2>1 DEF Asleep, dream_channel_status
    <3> QED
      BY <3>1 DEF IInv, Signals, On, Distinct, dream_channel_status
  <2> QED
    BY <2>2, <2>3, <2>4, <2>5 DEF IInv
<1> QED
  BY <1>3, <1>4

-----------------------------------------------------------------------------
(* Waiting.                                                                *)

(* A waiter that is not ready is registered and sleeps. *)
LEMMA Inv_dream_channel_wait ==
  ASSUME IInv, NEW e \in Endpoints, dream_channel_wait(e)
  PROVE  IInv'
<1> USE DEF ringVars, stateVars
<1>0. /\ pc' \in [Endpoints -> PCs] /\ pc'[e] = "sleep" /\ pc[e] = "wait"
      /\ \A x \in Endpoints : x # e => pc'[x] = pc[x]
      /\ blocking' \in [Endpoints -> BOOLEAN] /\ cancelled' \in [Endpoints -> BOOLEAN]
  BY GoToFacts DEF dream_channel_wait, PCs
<1>1. Ready(e) \in BOOLEAN
  BY DEF Ready
<1>2. /\ done' \in [Endpoints -> BOOLEAN] /\ done'[e] = Ready(e)
      /\ \A x \in Endpoints : x # e => done'[x] = done[x]
  BY <1>1, Typed DEF dream_channel_wait
<1>3. ~On(readable, e) /\ ~On(writable, e)
  BY <1>0, Registered DEF Asleep
<1>4. /\ readable' \in Seq(Receivers) /\ Distinct(readable')
      /\ \A x : On(readable', x) <=> On(readable, x) \/ (x = e /\ e \in Receivers /\ ~Ready(e))
  <2>1. readable \in Seq(Receivers) /\ Distinct(readable)
    BY Typed DEF IInv, Signals
  <2>2. CASE e \in Receivers /\ ~Ready(e)
    <3>1. readable' = Append(readable, e)
      BY <2>2, SidesDiffer DEF dream_channel_wait
    <3> QED
      BY <1>3, <2>1, <2>2, <3>1, AppendFacts
  <2>3. CASE ~(e \in Receivers /\ ~Ready(e))
    <3>1. readable' = readable
      BY <2>3, SidesDiffer DEF dream_channel_wait
    <3> QED
      BY <2>1, <2>3, <3>1
  <2> QED
    BY <2>2, <2>3
<1>5. /\ writable' \in Seq(Senders) /\ Distinct(writable')
      /\ \A x : On(writable', x) <=> On(writable, x) \/ (x = e /\ e \in Senders /\ ~Ready(e))
  <2>1. writable \in Seq(Senders) /\ Distinct(writable)
    BY Typed DEF IInv, Signals
  <2>2. CASE e \in Senders /\ ~Ready(e)
    <3>1. writable' = Append(writable, e)
      BY <2>2, SidesDiffer DEF dream_channel_wait
    <3> QED
      BY <1>3, <2>1, <2>2, <3>1, AppendFacts
  <2>3. CASE ~(e \in Senders /\ ~Ready(e))
    <3>1. writable' = writable
      BY <2>3, SidesDiffer DEF dream_channel_wait
    <3> QED
      BY <2>1, <2>3, <3>1
  <2> QED
    BY <2>2, <2>3
<1>6. TypeOK'
  BY <1>0, <1>2, <1>4, <1>5 DEF IInv, TypeOK, PCs, dream_channel_wait
<1>7. Counted' /\ Ring'
  BY DEF IInv, Counted, OpenOf, Ring, Slot, dream_channel_wait
<1>8. Unsent' /\ EofIsFinal'
  BY <1>0, SidesDiffer DEF IInv, Unsent, EofIsFinal, dream_channel_wait
<1>9. Signals'
  <2>1. ASSUME NEW x \in Endpoints
        PROVE  Asleep(x)' <=> On(readable', x) \/ On(writable', x)
    <3>1. CASE x = e
      BY <1>0, <1>2, <1>3, <1>4, <1>5, <3>1, SidesDiffer DEF Asleep
    <3>2. CASE x # e
      <4>1. Asleep(x)' <=> Asleep(x)
        BY <1>0, <1>2, <3>2 DEF Asleep
      <4> QED
        BY <1>4, <1>5, <3>2, <4>1, Registered
    <3> QED
      BY <3>1, <3>2
  <2> QED
    BY <1>4, <1>5, <2>1 DEF Signals, Distinct, On
<1> QED
  BY <1>6, <1>7, <1>8, <1>9 DEF IInv

(* A waiter that leaves its sleep takes its registration along. *)
LEMMA Leaves ==
  ASSUME IInv, NEW e \in Endpoints, NEW p \in {"top", "idle"}, pc[e] = "sleep",
         unregister(e), GoTo(e, p), UNCHANGED <<ringVars, stateVars, endpoint, sends, inbox>>
  PROVE  IInv'
<1> USE DEF ringVars, stateVars
<1>0. /\ pc' \in [Endpoints -> PCs] /\ pc'[e] = p
      /\ \A x \in Endpoints : x # e => pc'[x] = pc[x]
      /\ blocking' \in [Endpoints -> BOOLEAN] /\ cancelled' \in [Endpoints -> BOOLEAN]
  BY GoToFacts DEF PCs
<1>1. /\ done' \in [Endpoints -> BOOLEAN]
      /\ \A x \in Endpoints : x # e => done'[x] = done[x]
  BY Typed DEF unregister
<1>2. /\ readable' \in Seq(Receivers) /\ Distinct(readable')
      /\ \A x : On(readable', x) <=> On(readable, x) /\ x # e
  BY Typed, WithoutFacts DEF unregister, IInv, Signals
<1>3. /\ writable' \in Seq(Senders) /\ Distinct(writable')
      /\ \A x : On(writable', x) <=> On(writable, x) /\ x # e
  BY Typed, WithoutFacts DEF unregister, IInv, Signals
<1>4. TypeOK'
  BY <1>0, <1>1, <1>2, <1>3 DEF IInv, TypeOK, PCs
<1>5. Counted' /\ Ring'
  BY DEF IInv, Counted, OpenOf, Ring, Slot
<1>6. Unsent' /\ EofIsFinal'
  BY <1>0, SidesDiffer DEF IInv, Unsent, EofIsFinal
<1>7. Signals'
  <2>1. ASSUME NEW x \in Endpoints
        PROVE  Asleep(x)' <=> On(readable', x) \/ On(writable', x)
    <3>1. CASE x = e
      BY <1>0, <1>2, <1>3, <3>1 DEF Asleep
    <3>2. CASE x # e
      <4>1. Asleep(x)' <=> Asleep(x)
        BY <1>0, <1>1, <3>2 DEF Asleep
      <4> QED
        BY <1>2, <1>3, <3>2, <4>1, Registered
    <3> QED
      BY <3>1, <3>2
  <2> QED
    BY <1>2, <1>3, <2>1 DEF Signals, Distinct, On
<1> QED
  BY <1>4, <1>5, <1>6, <1>7 DEF IInv

LEMMA Inv_WaitCompleted ==
  ASSUME IInv, NEW e \in Endpoints, WaitCompleted(e)
  PROVE  IInv'
BY Leaves DEF WaitCompleted

LEMMA Inv_WaitCancelled ==
  ASSUME IInv, NEW e \in Endpoints, WaitCancelled(e)
  PROVE  IInv'
BY Leaves DEF WaitCancelled

-----------------------------------------------------------------------------
(* Endpoints come and go.                                                  *)

(* Open endpoints of one kind, when one of them opens or closes. *)
LEMMA OpenFacts ==
  ASSUME IInv, NEW S \in {Senders, Receivers}
  PROVE  IsFiniteSet(OpenOf(S)) /\ Cardinality(OpenOf(S)) \in 0..Cardinality(S)
<1>1. IsFiniteSet(S) /\ OpenOf(S) \subseteq S
  BY EndpointsFinite DEF OpenOf
<1> QED
  BY <1>1, FS_Subset, FS_CardinalityType

LEMMA OpenMore ==
  ASSUME IInv, NEW S \in {Senders, Receivers}, NEW e \in S, endpoint[e] = "none",
         endpoint' = [endpoint EXCEPT ![e] = "open"]
  PROVE  /\ Cardinality(OpenOf(S)') = Cardinality(OpenOf(S)) + 1
         /\ Cardinality(OpenOf(S)') \in 0..Cardinality(S)
<1>1. S \subseteq Endpoints
  BY DEF Endpoints
<1>2. OpenOf(S)' = OpenOf(S) \cup {e} /\ e \notin OpenOf(S)
  BY <1>1, Typed DEF OpenOf
<1>3. Cardinality(OpenOf(S) \cup {e}) = Cardinality(OpenOf(S)) + 1
  BY <1>2, OpenFacts, FS_AddElement
<1>4. IsFiniteSet(S) /\ OpenOf(S) \cup {e} \subseteq S
  BY EndpointsFinite DEF OpenOf
<1> QED
  BY <1>2, <1>3, <1>4, FS_Subset, FS_CardinalityType

LEMMA OpenLess ==
  ASSUME IInv, NEW S \in {Senders, Receivers}, NEW e \in S, endpoint[e] = "open",
         endpoint' = [endpoint EXCEPT ![e] = "closed"]
  PROVE  /\ Cardinality(OpenOf(S)') = Cardinality(OpenOf(S)) - 1
         /\ Cardinality(OpenOf(S)') \in 0..Cardinality(S)
<1>1. S \subseteq Endpoints
  BY DEF Endpoints
<1>2. OpenOf(S)' = OpenOf(S) \ {e} /\ e \in OpenOf(S)
  BY <1>1, Typed DEF OpenOf
<1>3. Cardinality(OpenOf(S) \ {e}) = Cardinality(OpenOf(S)) - 1
  BY <1>2, OpenFacts, FS_RemoveElement
<1>4. IsFiniteSet(S) /\ OpenOf(S) \ {e} \subseteq S
  BY EndpointsFinite DEF OpenOf
<1> QED
  BY <1>2, <1>3, <1>4, FS_Subset, FS_CardinalityType

(* The other kind of endpoints does not change. *)
LEMMA OpenSame ==
  ASSUME IInv, NEW S \in {Senders, Receivers}, NEW e \in Endpoints \ S, NEW x,
         endpoint' = [endpoint EXCEPT ![e] = x]
  PROVE  OpenOf(S)' = OpenOf(S)
<1>1. \A s \in S : s \in Endpoints /\ s # e
  BY DEF Endpoints
<1> QED
  BY <1>1, Typed DEF OpenOf

LEMMA Inv_dream_channel_endpoint ==
  ASSUME IInv, NEW e \in Endpoints, dream_channel_endpoint(e)
  PROVE  IInv'
<1> USE DEF ringVars, signalVars
<1>0. /\ endpoint[e] = "none" /\ endpoint' = [endpoint EXCEPT ![e] = "open"]
      /\ endpoint' \in [Endpoints -> {"none", "open", "closed"}]
  BY Typed DEF dream_channel_endpoint
<1>1. /\ Counted' /\ senders' \in 0..Cardinality(Senders)
      /\ receivers' \in 0..Cardinality(Receivers)
  <2>1. CASE e \in Senders
    <3>1. e \notin Receivers
      BY <2>1, SidesDiffer
    <3>2. senders' = senders + 1 /\ receivers' = receivers
      BY <2>1 DEF dream_channel_endpoint
    <3>3. senders' = Cardinality(OpenOf(Senders)') /\ senders' \in 0..Cardinality(Senders)
      BY <1>0, <2>1, <3>2, OpenMore DEF IInv, Counted
    <3>4. receivers' = Cardinality(OpenOf(Receivers)')
      BY <1>0, <3>1, <3>2, OpenSame DEF IInv, Counted
    <3> QED
      BY <3>2, <3>3, <3>4 DEF Counted, IInv, TypeOK
  <2>2. CASE e \in Receivers
    <3>1. e \notin Senders
      BY <2>2, SidesDiffer
    <3>2. senders' = senders /\ receivers' = receivers + 1
      BY <3>1 DEF dream_channel_endpoint
    <3>3. receivers' = Cardinality(OpenOf(Receivers)') /\ receivers' \in 0..Cardinality(Receivers)
      BY <1>0, <2>2, <3>2, OpenMore DEF IInv, Counted
    <3>4. senders' = Cardinality(OpenOf(Senders)')
      BY <1>0, <3>1, <3>2, OpenSame DEF IInv, Counted
    <3> QED
      BY <3>2, <3>3, <3>4 DEF Counted, IInv, TypeOK
  <2> QED
    BY <2>1, <2>2, SidesDiffer
<1>2. TypeOK'
  BY <1>0, <1>1 DEF IInv, TypeOK, dream_channel_endpoint
<1>3. Ring' /\ Unsent' /\ EofIsFinal'
  BY DEF IInv, Ring, Slot, Unsent, EofIsFinal, dream_channel_endpoint
<1>4. Signals'
  BY DEF IInv, Signals, Asleep, On, Distinct, dream_channel_endpoint
<1> QED
  BY <1>1, <1>2, <1>3, <1>4 DEF IInv

(* Closing wakes every sleeper. *)
LEMMA NotifyAll ==
  ASSUME IInv, notify_all, pc' = pc
  PROVE  /\ Signals' /\ done' \in [Endpoints -> BOOLEAN]
         /\ readable' = <<>> /\ writable' = <<>>
<1>1. readable' = <<>> /\ writable' = <<>>
  BY DEF notify_all
<1>2. done' \in [Endpoints -> BOOLEAN]
  <2>1. \A e \in Endpoints : (done[e] \/ On(readable, e) \/ On(writable, e)) \in BOOLEAN
    BY DEF On
  <2> QED
    BY <2>1 DEF notify_all
<1>3. \A e \in Endpoints : ~Asleep(e)'
  <2> SUFFICES ASSUME NEW e \in Endpoints, pc[e] = "sleep" PROVE done'[e]
    BY DEF Asleep
  <2>1. done'[e] = (done[e] \/ On(readable, e) \/ On(writable, e))
    BY DEF notify_all
  <2>2. done[e] \/ On(readable, e) \/ On(writable, e)
    BY Registered DEF Asleep
  <2> QED
    BY <2>1, <2>2
<1>4. Signals'
  BY <1>1, <1>3 DEF Signals, On, Distinct
<1> QED
  BY <1>1, <1>2, <1>4

LEMMA Inv_dream_channel_close ==
  ASSUME IInv, NEW e \in Endpoints, dream_channel_close(e)
  PROVE  IInv'
<1> USE DEF ringVars
<1>0. /\ endpoint[e] = "open" /\ endpoint' = [endpoint EXCEPT ![e] = "closed"]
      /\ endpoint' \in [Endpoints -> {"none", "open", "closed"}]
      /\ UNCHANGED <<bounded, pc, blocking, cancelled, sends, inbox>>
  BY Typed DEF dream_channel_close
<1>1. /\ Signals' /\ done' \in [Endpoints -> BOOLEAN]
      /\ readable' \in Seq(Receivers) /\ writable' \in Seq(Senders)
  <2>1. /\ Signals' /\ done' \in [Endpoints -> BOOLEAN]
        /\ readable' = <<>> /\ writable' = <<>>
    BY <1>0, NotifyAll DEF dream_channel_close
  <2>2. <<>> \in Seq(Receivers) /\ <<>> \in Seq(Senders)
    OBVIOUS
  <2> QED
    BY <2>1, <2>2
<1>2. Unsent'
  BY <1>0 DEF IInv, Unsent
<1>3. /\ capacity \in Nat \ {0} /\ head \in 0..(capacity - 1) /\ count \in 0..capacity
      /\ items = NULL \/ items \in [0..(capacity - 1) -> Values \cup {NoValue}]
      /\ send_closed \in BOOLEAN /\ receive_closed \in BOOLEAN
      /\ senders \in 0..Cardinality(Senders) /\ receivers \in 0..Cardinality(Receivers)
  BY DEF IInv, TypeOK
<1>4. CASE e \in Senders
  <2>1. /\ senders' = senders - 1 /\ UNCHANGED <<receivers, receive_closed, ringVars>>
        /\ send_closed' = (send_closed \/ senders = 1)
    BY <1>4 DEF dream_channel_close
  <2>2. Counted' /\ senders' \in 0..Cardinality(Senders)
    <3>1. e \notin Receivers
      BY <1>4, SidesDiffer
    <3>2. senders' = Cardinality(OpenOf(Senders)') /\ senders' \in 0..Cardinality(Senders)
      BY <1>0, <1>4, <2>1, OpenLess DEF IInv, Counted
    <3>3. receivers' = Cardinality(OpenOf(Receivers)')
      BY <1>0, <2>1, <3>1, OpenSame DEF IInv, Counted
    <3> QED
      BY <3>2, <3>3 DEF Counted
  <2>3. send_closed' \in BOOLEAN /\ (send_closed => send_closed')
    BY <2>1
  <2>4. TypeOK'
    BY <1>0, <1>1, <1>3, <2>1, <2>2, <2>3 DEF IInv, TypeOK
  <2>5. Ring' /\ EofIsFinal'
    BY <1>0, <2>1, <2>3 DEF IInv, Ring, Slot, EofIsFinal
  <2> QED
    BY <1>1, <1>2, <2>2, <2>4, <2>5 DEF IInv
<1>5. CASE e \in Receivers
  <2>0. e \notin Senders
    BY <1>5, SidesDiffer
  <2>1. /\ receivers' = receivers - 1 /\ UNCHANGED <<senders, send_closed>>
        /\ receive_closed' = (receive_closed \/ receivers = 1)
        /\ capacity' = capacity
        /\ IF receivers = 1 THEN items' = NULL /\ head' = 0 /\ count' = 0
                            ELSE UNCHANGED <<items, head, count>>
    BY <2>0 DEF dream_channel_close
  <2>2. Counted' /\ receivers' \in 0..Cardinality(Receivers)
    <3>2. receivers' = Cardinality(OpenOf(Receivers)') /\ receivers' \in 0..Cardinality(Receivers)
      BY <1>0, <1>5, <2>1, OpenLess DEF IInv, Counted
    <3>3. senders' = Cardinality(OpenOf(Senders)')
      BY <1>0, <2>0, <2>1, OpenSame DEF IInv, Counted
    <3> QED
      BY <3>2, <3>3 DEF Counted
  <2>3. receive_closed' \in BOOLEAN
    BY <2>1
  <2>4. /\ head' \in 0..(capacity' - 1) /\ count' \in 0..capacity' /\ capacity' \in Nat \ {0}
        /\ items' = NULL \/ items' \in [0..(capacity' - 1) -> Values \cup {NoValue}]
    BY <1>3, <2>1
  <2>5. TypeOK'
    BY <1>0, <1>1, <1>3, <2>1, <2>2, <2>3, <2>4 DEF IInv, TypeOK
  <2>6. Ring' /\ EofIsFinal'
    <3>1. CASE receivers = 1
      BY <1>0, <2>1, <3>1 DEF IInv, Ring, EofIsFinal
    <3>2. CASE receivers # 1
      <4>1. receive_closed' <=> receive_closed
        BY <1>3, <2>1, <3>2
      <4> QED
        BY <1>0, <2>1, <3>2, <4>1 DEF IInv, Ring, Slot, EofIsFinal
    <3> QED
      BY <3>1, <3>2
  <2> QED
    BY <1>1, <1>2, <2>2, <2>5, <2>6 DEF IInv
<1> QED
  BY <1>4, <1>5, SidesDiffer

-----------------------------------------------------------------------------
(* Values come and go.                                                     *)

(* notify_one takes the oldest registration off the list and wakes its owner. *)
LEMMA NotifyOne ==
  ASSUME IInv, NEW q \in Seq(Endpoints), Distinct(q), NEW d,
         d = IF q = <<>> THEN done ELSE [done EXCEPT ![Head(q)] = TRUE]
  PROVE  /\ d \in [Endpoints -> BOOLEAN]
         /\ \A x \in Endpoints : d[x] <=> done[x] \/ (On(q, x) /\ ~On(Rest(q), x))
<1>1. /\ \A x : On(Rest(q), x) <=> On(q, x) /\ (q # <<>> => x # Head(q))
      /\ q # <<>> => Head(q) \in Endpoints /\ On(q, Head(q))
  BY RestFacts
<1>2. CASE q = <<>>
  BY <1>1, <1>2, Typed
<1>3. CASE q # <<>>
  <2>1. d = [done EXCEPT ![Head(q)] = TRUE] /\ Head(q) \in Endpoints /\ On(q, Head(q))
    BY <1>1, <1>3
  <2>2. d \in [Endpoints -> BOOLEAN]
    BY <2>1, Typed
  <2>3. d[Head(q)] /\ \A x \in Endpoints : x # Head(q) => d[x] = done[x]
    BY <2>1, Typed
  <2> QED
    BY <1>1, <1>3, <2>1, <2>2, <2>3
<1> QED
  BY <1>2, <1>3

(* A call that ends and wakes one sleeper of the other side. *)
LEMMA WakesOne ==
  ASSUME IInv, NEW e \in Endpoints, pc[e] = "try", GoTo(e, "idle"),
         \/ notify_one(readable) /\ readable' = Rest(readable) /\ writable' = writable
         \/ notify_one(writable) /\ writable' = Rest(writable) /\ readable' = readable
  PROVE  /\ Signals' /\ done' \in [Endpoints -> BOOLEAN]
         /\ readable' \in Seq(Receivers) /\ writable' \in Seq(Senders)
<1>0. /\ pc' \in [Endpoints -> PCs] /\ pc'[e] = "idle"
      /\ \A x \in Endpoints : x # e => pc'[x] = pc[x]
  BY GoToFacts DEF PCs
<1>1. /\ readable \in Seq(Receivers) /\ writable \in Seq(Senders)
      /\ Distinct(readable) /\ Distinct(writable)
  BY Typed DEF IInv, Signals
<1>2. readable \in Seq(Endpoints) /\ writable \in Seq(Endpoints)
  BY <1>1 DEF Endpoints
<1>3. ~On(readable, e) /\ ~On(writable, e) /\ ~Asleep(e)
  BY Registered DEF Asleep
<1>4. \A x \in Endpoints : /\ Asleep(x) <=> On(readable, x) \/ On(writable, x)
                           /\ ~(On(readable, x) /\ On(writable, x))
  BY Registered, SidesDiffer
<1>5. CASE notify_one(readable) /\ readable' = Rest(readable) /\ writable' = writable
  <2>1. /\ done' \in [Endpoints -> BOOLEAN]
        /\ \A x \in Endpoints :
             done'[x] <=> done[x] \/ (On(readable, x) /\ ~On(readable', x))
    <3>1. done' = IF readable = <<>> THEN done ELSE [done EXCEPT ![Head(readable)] = TRUE]
      BY <1>5 DEF notify_one
    <3> QED
      BY <1>1, <1>2, <1>5, <3>1, NotifyOne
  <2>2. /\ readable' \in Seq(Receivers) /\ Distinct(readable')
        /\ \A x : On(readable', x) => On(readable, x)
    BY <1>1, <1>5, RestFacts
  <2>3. ASSUME NEW x \in Endpoints
        PROVE  Asleep(x)' <=> On(readable', x) \/ On(writable', x)
    <3>1. CASE x = e
      BY <1>0, <1>3, <1>5, <2>2, <3>1 DEF Asleep
    <3>2. CASE x # e
      BY <1>0, <1>4, <1>5, <2>1, <2>2, <3>2 DEF Asleep
    <3> QED
      BY <3>1, <3>2
  <2>4. Signals'
    BY <1>1, <1>5, <2>2, <2>3 DEF Signals, Distinct, On
  <2> QED
    BY <1>1, <1>5, <2>1, <2>2, <2>4
<1>6. CASE notify_one(writable) /\ writable' = Rest(writable) /\ readable' = readable
  <2>1. /\ done' \in [Endpoints -> BOOLEAN]
        /\ \A x \in Endpoints :
             done'[x] <=> done[x] \/ (On(writable, x) /\ ~On(writable', x))
    <3>1. done' = IF writable = <<>> THEN done ELSE [done EXCEPT ![Head(writable)] = TRUE]
      BY <1>6 DEF notify_one
    <3> QED
      BY <1>1, <1>2, <1>6, <3>1, NotifyOne
  <2>2. /\ writable' \in Seq(Senders) /\ Distinct(writable')
        /\ \A x : On(writable', x) => On(writable, x)
    BY <1>1, <1>6, RestFacts
  <2>3. ASSUME NEW x \in Endpoints
        PROVE  Asleep(x)' <=> On(readable', x) \/ On(writable', x)
    <3>1. CASE x = e
      BY <1>0, <1>3, <1>6, <2>2, <3>1 DEF Asleep
    <3>2. CASE x # e
      BY <1>0, <1>4, <1>6, <2>1, <2>2, <3>2 DEF Asleep
    <3> QED
      BY <3>1, <3>2
  <2>4. Signals'
    BY <1>1, <1>6, <2>2, <2>3 DEF Signals, Distinct, On
  <2> QED
    BY <1>1, <1>6, <2>1, <2>2, <2>4
<1> QED
  BY <1>5, <1>6

(* When a send is accepted, and when a receive takes a value.              *)
Refused(s) == endpoint[s] = "closed" \/ send_closed \/ receive_closed
Full == count = capacity /\ bounded
Nothing(r) == endpoint[r] = "closed" \/ receive_closed \/ count = 0

(* An accepted value is the youngest of the ring, grown or not; the others *)
(* keep their places in the order.                                         *)
LEMMA SendRing ==
  ASSUME IInv, NEW s \in Senders, dream_channel_send(s), ~Refused(s), ~Full
  PROVE  /\ <<s, sends[s] + 1>> \in Values /\ sends[s] < MaxSends
         /\ capacity' \in Nat \ {0} /\ head' \in 0..(capacity' - 1)
         /\ count' = count + 1 /\ count' \in 0..capacity'
         /\ items' \in [0..(capacity' - 1) -> Values \cup {NoValue}]
         /\ \A i \in 0..(count - 1) : items'[Slot(i)'] = items[Slot(i)]
         /\ items'[(head' + count) % capacity'] = <<s, sends[s] + 1>>
         /\ bounded => capacity' = capacity /\ count < capacity
<1> DEFINE v == <<s, sends[s] + 1>>
<1>1. v \in Values /\ sends[s] < MaxSends
  <2>1. sends[s] < MaxSends /\ sends[s] \in 0..MaxSends
    BY Typed DEF dream_channel_send, IInv, Unsent
  <2> QED
    BY <2>1, MaxSendsType DEF Values
<1> HIDE DEF v
<1>2. /\ capacity \in Nat \ {0} /\ head \in 0..(capacity - 1) /\ count \in 0..capacity
      /\ \A i \in 0..capacity : Slot(i) \in 0..(capacity - 1)
      /\ Slot(0) = head
      /\ \A i, j \in 0..(capacity - 1) : i # j => Slot(i) # Slot(j)
  BY SlotFacts DEF IInv
<1>3. /\ items \in [0..(capacity - 1) -> Values \cup {NoValue}]
      /\ \A i \in 0..(count - 1) : items[Slot(i)] \in Values
  BY DEF Refused, IInv, Ring
<1>4. count' = count + 1
  BY DEF dream_channel_send, Refused, Full
<1>5. CASE count = capacity
  <2>1. /\ items' = [Grown EXCEPT ![count] = v] /\ capacity' = 2 * capacity /\ head' = 0
    BY <1>5 DEF dream_channel_send, Refused, Full, v
  <2>2. \A i \in 0..capacity : Slot(i)' = i
    <3> SUFFICES ASSUME NEW i \in 0..capacity PROVE Slot(i)' = i
      OBVIOUS
    <3>1. i \in 0..(2 * capacity) /\ 2 * capacity \in Nat \ {0} /\ 0 \in 0..(2 * capacity - 1)
          /\ 0 + i = i /\ i < 2 * capacity
      BY <1>2
    <3>2. (0 + i) % (2 * capacity) = i
      BY <3>1, ModFacts
    <3> QED
      BY <2>1, <3>2 DEF Slot
  <2>3. /\ Grown \in [0..(2 * capacity - 1) -> Values \cup {NoValue}]
        /\ \A i \in 0..(count - 1) : Grown[i] = items[Slot(i)]
    <3>1. \A i \in 0..(2 * capacity - 1) :
            Grown[i] = IF i < count THEN items[Slot(i)] ELSE NoValue
      BY DEF Grown, Slot
    <3>2. \A i \in 0..(2 * capacity - 1) : Grown[i] \in Values \cup {NoValue}
      BY <1>2, <1>3, <3>1
    <3>3. Grown = [i \in 0..(2 * capacity - 1) |-> Grown[i]]
      BY DEF Grown
    <3>4. \A i \in 0..(count - 1) : i \in 0..(2 * capacity - 1) /\ i < count
      BY <1>2
    <3> QED
      BY <3>1, <3>2, <3>3, <3>4
  <2>4. /\ count \in 0..(2 * capacity - 1)
        /\ \A i \in 0..(count - 1) : i # count /\ i \in 0..(2 * capacity - 1) /\ i \in 0..capacity
    BY <1>2, <1>5
  <2>5. /\ items' \in [0..(capacity' - 1) -> Values \cup {NoValue}]
        /\ items'[count] = v
        /\ \A i \in 0..(count - 1) : items'[i] = items[Slot(i)]
    BY <1>1, <2>1, <2>3, <2>4
  <2>6. /\ capacity' \in Nat \ {0} /\ head' \in 0..(capacity' - 1)
        /\ count' \in 0..capacity'
    BY <1>2, <1>4, <1>5, <2>1
  <2>7. /\ \A i \in 0..(count - 1) : items'[Slot(i)'] = items[Slot(i)]
        /\ items'[(head' + count) % capacity'] = v
    <3>1. (head' + count) % capacity' = count
      BY <1>2, <1>5, <2>2 DEF Slot
    <3> QED
      BY <1>2, <2>2, <2>4, <2>5, <3>1
  <2> QED
    BY <1>1, <1>4, <1>5, <2>5, <2>6, <2>7 DEF v, Full
<1>6. CASE count # capacity
  <2>1. /\ items' = [items EXCEPT ![Slot(count)] = v]
        /\ capacity' = capacity /\ head' = head
    BY <1>6 DEF dream_channel_send, Refused, Full, v, Slot
  <2>2. \A i : Slot(i)' = Slot(i)
    BY <2>1 DEF Slot
  <2>3. count \in 0..(capacity - 1) /\ count < capacity
        /\ \A i \in 0..(count - 1) : i # count /\ i \in 0..(capacity - 1)
    BY <1>2, <1>6
  <2>4. \A i \in 0..(count - 1) : /\ Slot(i) # Slot(count) /\ Slot(i) \in 0..(capacity - 1)
    BY <1>2, <2>3
  <2>5. Slot(count) \in 0..(capacity - 1)
    BY <1>2
  <2>6. /\ items' \in [0..(capacity - 1) -> Values \cup {NoValue}]
        /\ items'[Slot(count)] = v
        /\ \A i \in 0..(count - 1) : items'[Slot(i)] = items[Slot(i)]
    BY <1>1, <1>3, <2>1, <2>4, <2>5
  <2>7. /\ \A i \in 0..(count - 1) : items'[Slot(i)'] = items[Slot(i)]
        /\ items'[(head' + count) % capacity'] = v
    BY <2>1, <2>2, <2>6 DEF Slot
  <2>8. /\ capacity' \in Nat \ {0} /\ head' \in 0..(capacity' - 1)
        /\ count' \in 0..capacity'
    BY <1>2, <1>4, <2>1, <2>3
  <2> QED
    BY <1>1, <1>4, <2>1, <2>3, <2>6, <2>7, <2>8 DEF v
<1> QED
  BY <1>5, <1>6

LEMMA Inv_dream_channel_send ==
  ASSUME IInv, NEW s \in Senders, dream_channel_send(s)
  PROVE  IInv'
<1> USE DEF ringVars, stateVars, signalVars
<1>0. s \in Endpoints /\ pc[s] = "try"
  BY SidesDiffer DEF dream_channel_send
<1>1. CASE Refused(s)
  <2>1. /\ GoTo(s, "closed")
        /\ UNCHANGED <<ringVars, stateVars, signalVars, endpoint, sends, inbox>>
    BY <1>1 DEF dream_channel_send, Refused
  <2>2. /\ blocking' \in [Endpoints -> BOOLEAN] /\ cancelled' \in [Endpoints -> BOOLEAN]
        /\ pc' = [pc EXCEPT ![s] = "closed"]
    BY <1>0, <2>1, GoToFacts DEF GoTo, PCs
  <2> QED
    BY <1>0, <2>1, <2>2, Moves DEF PCs
<1>2. CASE ~Refused(s) /\ Full
  <2>1. /\ GoTo(s, MustWait(s)) /\ MustWait(s) \in {"wait", "idle"}
        /\ UNCHANGED <<ringVars, stateVars, signalVars, endpoint, sends, inbox>>
    BY <1>2, MustWaitType DEF dream_channel_send, Refused, Full
  <2>2. /\ blocking' \in [Endpoints -> BOOLEAN] /\ cancelled' \in [Endpoints -> BOOLEAN]
        /\ pc' = [pc EXCEPT ![s] = MustWait(s)]
    BY <1>0, <2>1, GoToFacts DEF GoTo, PCs
  <2>3. sends[s] < MaxSends
    BY <1>0 DEF IInv, Unsent
  <2> QED
    BY <1>0, <2>1, <2>2, <2>3, Moves DEF PCs
<1>3. CASE ~Refused(s) /\ ~Full
  <2>1. /\ GoTo(s, "idle") /\ notify_one(readable) /\ readable' = Rest(readable)
        /\ UNCHANGED <<stateVars, writable, endpoint, inbox>>
        /\ sends' = [sends EXCEPT ![s] = @ + 1]
    BY <1>3 DEF dream_channel_send, Refused, Full
  <2>2. /\ <<s, sends[s] + 1>> \in Values /\ sends[s] < MaxSends
        /\ capacity' \in Nat \ {0} /\ head' \in 0..(capacity' - 1)
        /\ count' = count + 1 /\ count' \in 0..capacity'
        /\ items' \in [0..(capacity' - 1) -> Values \cup {NoValue}]
        /\ \A i \in 0..(count - 1) : items'[Slot(i)'] = items[Slot(i)]
        /\ items'[(head' + count) % capacity'] = <<s, sends[s] + 1>>
    BY <1>3, SendRing
  <2>3. /\ Signals' /\ done' \in [Endpoints -> BOOLEAN]
        /\ readable' \in Seq(Receivers) /\ writable' \in Seq(Senders)
    BY <1>0, <2>1, WakesOne
  <2>4. /\ pc' \in [Endpoints -> PCs] /\ pc'[s] = "idle"
        /\ \A x \in Endpoints : x # s => pc'[x] = pc[x]
        /\ blocking' \in [Endpoints -> BOOLEAN] /\ cancelled' \in [Endpoints -> BOOLEAN]
    BY <1>0, <2>1, GoToFacts DEF PCs
  <2>5. /\ sends' \in [Senders -> 0..MaxSends]
        /\ \A x \in Senders : x # s => sends'[x] = sends[x]
    BY <2>1, <2>2, Typed, MaxSendsType
  <2>6. TypeOK'
    BY <2>1, <2>2, <2>3, <2>4, <2>5 DEF IInv, TypeOK, PCs
  <2>7. Counted'
    BY <2>1 DEF IInv, Counted, OpenOf
  <2>8. Ring'
    <3>1. ~receive_closed /\ ~receive_closed'
      BY <1>3, <2>1 DEF Refused
    <3>2. ASSUME NEW i \in 0..(count' - 1) PROVE items'[Slot(i)'] \in Values
      <4>1. count \in Nat
        BY DEF IInv, TypeOK
      <4>2. i \in 0..(count - 1) \/ i = count
        BY <2>2, <4>1
      <4>3. CASE i \in 0..(count - 1)
        BY <2>2, <3>1, <4>3 DEF IInv, Ring
      <4>4. CASE i = count
        BY <2>2, <4>4 DEF Slot
      <4> QED
        BY <4>2, <4>3, <4>4
    <3> QED
      BY <2>2, <3>1, <3>2 DEF Ring
  <2>9. Unsent'
    BY <2>4, <2>5, SidesDiffer DEF IInv, Unsent
  <2>10. EofIsFinal'
    BY <1>3, <2>4, SidesDiffer DEF IInv, EofIsFinal, Refused
  <2> QED
    BY <2>3, <2>6, <2>7, <2>8, <2>9, <2>10 DEF IInv
<1> QED
  BY <1>1, <1>2, <1>3

(* What is received is the oldest value; the others move up by one.        *)
LEMMA ReceiveRing ==
  ASSUME IInv, NEW r \in Receivers, dream_channel_receive(r), ~Nothing(r)
  PROVE  /\ items[head] \in Values /\ items[head] = items[Slot(0)]
         /\ capacity' = capacity /\ head' \in 0..(capacity - 1)
         /\ count \in 1..capacity /\ count' = count - 1
         /\ items' \in [0..(capacity - 1) -> Values \cup {NoValue}]
         /\ \A i \in 0..(count - 2) : items'[Slot(i)'] = items[Slot(i + 1)]
<1>1. /\ capacity \in Nat \ {0} /\ head \in 0..(capacity - 1) /\ count \in 0..capacity
      /\ \A i \in 0..capacity : Slot(i) \in 0..(capacity - 1)
      /\ Slot(0) = head
      /\ \A i, j \in 0..(capacity - 1) : i # j => Slot(i) # Slot(j)
      /\ \A i \in 0..(capacity - 1) : (Slot(1) + i) % capacity = Slot(i + 1)
  BY SlotFacts DEF IInv
<1>2. /\ items \in [0..(capacity - 1) -> Values \cup {NoValue}]
      /\ \A i \in 0..(count - 1) : items[Slot(i)] \in Values
  BY DEF Nothing, IInv, Ring
<1>3. /\ items' = [items EXCEPT ![head] = NoValue] /\ head' = Slot(1)
      /\ capacity' = capacity /\ count' = count - 1
  BY DEF dream_channel_receive, Nothing, Slot
<1>4. count \in 1..capacity /\ 0 \in 0..(count - 1)
  BY <1>1 DEF Nothing
<1>5. items[head] \in Values
  BY <1>1, <1>2, <1>4
<1>6. items' \in [0..(capacity - 1) -> Values \cup {NoValue}]
  BY <1>1, <1>2, <1>3
<1>7. ASSUME NEW i \in 0..(count - 2)
      PROVE  items'[Slot(i)'] = items[Slot(i + 1)]
  <2>1. i \in 0..(capacity - 1) /\ i + 1 \in 0..(capacity - 1) /\ i + 1 # 0 /\ 0 \in 0..(capacity - 1)
        /\ i + 1 \in 0..capacity
    BY <1>1, <1>4
  <2>2. Slot(i)' = Slot(i + 1)
    <3>1. Slot(i)' = (Slot(1) + i) % capacity
      BY <1>3 DEF Slot
    <3> QED
      BY <1>1, <2>1, <3>1
  <2>3. Slot(i + 1) # head /\ Slot(i + 1) \in 0..(capacity - 1)
    BY <1>1, <2>1
  <2>4. items'[Slot(i + 1)] = items[Slot(i + 1)]
    BY <1>2, <1>3, <2>3
  <2> QED
    BY <2>2, <2>4
<1>8. head' \in 0..(capacity - 1)
  <2>1. 1 \in 0..capacity
    BY <1>1
  <2> QED
    BY <1>1, <1>3, <2>1
<1> QED
  BY <1>1, <1>3, <1>4, <1>5, <1>6, <1>7, <1>8

LEMMA Inv_dream_channel_receive ==
  ASSUME IInv, NEW r \in Receivers, dream_channel_receive(r)
  PROVE  IInv'
<1> USE DEF ringVars, stateVars, signalVars
<1>0. r \in Endpoints /\ pc[r] = "try" /\ r \notin Senders
  BY SidesDiffer DEF dream_channel_receive
<1>1. CASE Nothing(r)
  <2>1. /\ GoTo(r, "status")
        /\ UNCHANGED <<ringVars, stateVars, signalVars, endpoint, sends, inbox>>
    BY <1>1 DEF dream_channel_receive, Nothing
  <2>2. /\ blocking' \in [Endpoints -> BOOLEAN] /\ cancelled' \in [Endpoints -> BOOLEAN]
        /\ pc' = [pc EXCEPT ![r] = "status"]
    BY <1>0, <2>1, GoToFacts DEF GoTo, PCs
  <2> QED
    BY <1>0, <2>1, <2>2, Moves DEF PCs
<1>2. CASE ~Nothing(r)
  <2>1. /\ GoTo(r, "idle") /\ notify_one(writable) /\ writable' = Rest(writable)
        /\ UNCHANGED <<stateVars, readable, endpoint, sends>>
        /\ inbox' = [inbox EXCEPT ![r] = Append(@, items[head])]
    BY <1>2 DEF dream_channel_receive, Nothing
  <2>2. /\ items[head] \in Values
        /\ capacity' = capacity /\ head' \in 0..(capacity - 1)
        /\ count \in 1..capacity /\ count' = count - 1
        /\ items' \in [0..(capacity - 1) -> Values \cup {NoValue}]
        /\ \A i \in 0..(count - 2) : items'[Slot(i)'] = items[Slot(i + 1)]
    BY <1>2, ReceiveRing
  <2>3. /\ Signals' /\ done' \in [Endpoints -> BOOLEAN]
        /\ readable' \in Seq(Receivers) /\ writable' \in Seq(Senders)
    BY <1>0, <2>1, WakesOne
  <2>4. /\ pc' \in [Endpoints -> PCs] /\ pc'[r] = "idle"
        /\ \A x \in Endpoints : x # r => pc'[x] = pc[x]
        /\ blocking' \in [Endpoints -> BOOLEAN] /\ cancelled' \in [Endpoints -> BOOLEAN]
    BY <1>0, <2>1, GoToFacts DEF PCs
  <2>5. inbox' \in [Receivers -> Seq(Values)]
    BY <2>1, <2>2, Typed
  <2>6. capacity \in Nat \ {0} /\ count \in Nat /\ count' \in 0..capacity
    BY <2>2 DEF IInv, TypeOK
  <2>7. TypeOK'
    BY <2>1, <2>2, <2>3, <2>4, <2>5, <2>6 DEF IInv, TypeOK, PCs
  <2>8. Counted'
    BY <2>1 DEF IInv, Counted, OpenOf
  <2>9. Ring'
    <3>1. ~receive_closed /\ ~receive_closed'
      BY <1>2, <2>1 DEF Nothing
    <3>2. ASSUME NEW i \in 0..(count' - 1) PROVE items'[Slot(i)'] \in Values
      <4>1. i \in 0..(count - 2) /\ i + 1 \in 0..(count - 1)
        BY <2>2, <2>6
      <4> QED
        BY <2>2, <3>1, <4>1 DEF IInv, Ring
    <3> QED
      BY <2>2, <3>1, <3>2 DEF Ring
  <2>10. Unsent'
    BY <1>0, <2>1, <2>4, SidesDiffer DEF IInv, Unsent
  <2>11. EofIsFinal'
    BY <1>2, <2>1, <2>4, SidesDiffer DEF IInv, EofIsFinal, Nothing
  <2> QED
    BY <2>3, <2>7, <2>8, <2>9, <2>10, <2>11 DEF IInv
<1> QED
  BY <1>1, <1>2

-----------------------------------------------------------------------------
(* The invariant, and what follows from it.                                *)

LEMMA IInvStep == IInv /\ [Next]_vars => IInv'
<1> SUFFICES ASSUME IInv, [Next]_vars PROVE IInv'
  OBVIOUS
<1>1. CASE UNCHANGED vars
  BY <1>1 DEF vars, ringVars, stateVars, signalVars, callVars, IInv, TypeOK, Counted,
              OpenOf, Ring, Slot, Unsent, EofIsFinal, Signals, Asleep, On, Distinct
<1>2. ASSUME NEW e \in Endpoints, dream_channel_endpoint(e) PROVE IInv'
  BY <1>2, Inv_dream_channel_endpoint
<1>3. ASSUME NEW e \in Endpoints, dream_channel_close(e) PROVE IInv'
  BY <1>3, Inv_dream_channel_close
<1>4. ASSUME NEW e \in Endpoints, NEW b \in BOOLEAN, Start(e, b) PROVE IInv'
  BY <1>4, Inv_Start
<1>5. ASSUME NEW e \in Endpoints, CheckToken(e) PROVE IInv'
  BY <1>5, Inv_CheckToken
<1>6. ASSUME NEW s \in Senders, dream_channel_send(s) PROVE IInv'
  BY <1>6, Inv_dream_channel_send
<1>7. ASSUME NEW r \in Receivers, dream_channel_receive(r) PROVE IInv'
  BY <1>7, Inv_dream_channel_receive
<1>8. ASSUME NEW r \in Receivers, dream_channel_status(r) PROVE IInv'
  BY <1>8, Inv_dream_channel_status
<1>9. ASSUME NEW e \in Endpoints, dream_channel_wait(e) PROVE IInv'
  BY <1>9, Inv_dream_channel_wait
<1>10. ASSUME NEW e \in Endpoints, WaitCompleted(e) PROVE IInv'
  BY <1>10, Inv_WaitCompleted
<1>11. ASSUME NEW e \in Endpoints, WaitCancelled(e) PROVE IInv'
  BY <1>11, Inv_WaitCancelled
<1>12. ASSUME NEW e \in Endpoints, CancelToken(e) PROVE IInv'
  BY <1>12, Inv_CancelToken
<1> QED
  BY <1>1, <1>2, <1>3, <1>4, <1>5, <1>6, <1>7, <1>8, <1>9, <1>10, <1>11, <1>12
     DEF Next, Step

THEOREM Inductive == Spec => []IInv
<1>1. Init => IInv
  BY InitIInv
<1>2. IInv /\ [Next]_vars => IInv'
  BY IInvStep
<1> QED
  BY <1>1, <1>2, PTL DEF Spec

(* Every variable keeps its type: the ring's indices stay in the ring      *)
(* through growth and wrap-around, the counters of open endpoints between  *)
(* zero and the number of endpoints.                                       *)
THEOREM TypeCorrect == Spec => []TypeOK
<1>1. IInv => TypeOK
  BY DEF IInv
<1> QED
  BY <1>1, Inductive, PTL

(* Drained is final: shared_receiver.dream ends a receive with "drained"   *)
(* only when no value is queued and none can come.                         *)
THEOREM DrainedIsFinal == Spec => []EofIsFinal
<1>1. IInv => EofIsFinal
  BY DEF IInv
<1> QED
  BY <1>1, Inductive, PTL

(* A call sleeps exactly while it is registered, once: dream_channel_wait  *)
(* links it under the lock that send, receive and close notify under.      *)
THEOREM NoLostWaiter == Spec => []SleepersRegistered
<1>1. IInv => SleepersRegistered
  BY DEF IInv, Signals, SleepersRegistered, Asleep, Distinct
<1> QED
  BY <1>1, Inductive, PTL

-----------------------------------------------------------------------------
(* Nobody sleeps through a closure.                                        *)

(* A call that sleeps does so on an open endpoint of an open channel.      *)
SleepsOpen ==
    \A e \in Endpoints : Asleep(e) => endpoint[e] = "open" /\ ~send_closed /\ ~receive_closed

(* Only an endpoint that was handed out is in a call.                      *)
InUse == \A e \in Endpoints : pc[e] # "idle" => endpoint[e] # "none"

OInv == InUse /\ SleepsOpen

(* A step that closes nothing and puts nobody to sleep.                    *)
LEMMA StaysOpen ==
  ASSUME OInv, UNCHANGED <<endpoint, send_closed, receive_closed>>,
         \A x \in Endpoints : /\ pc'[x] # "idle" => endpoint[x] # "none"
                              /\ Asleep(x)' => Asleep(x)
  PROVE  OInv'
BY DEF OInv, InUse, SleepsOpen

LEMMA OInvStep == IInv /\ OInv /\ [Next]_vars => OInv'
<1> SUFFICES ASSUME IInv, OInv, [Next]_vars PROVE OInv'
  OBVIOUS
<1>0. /\ pc \in [Endpoints -> PCs] /\ done \in [Endpoints -> BOOLEAN]
      /\ endpoint \in [Endpoints -> {"none", "open", "closed"}]
  BY DEF IInv, TypeOK, PCs
<1>1. ASSUME NEW e \in Endpoints, dream_channel_endpoint(e) PROVE OInv'
  BY <1>0, <1>1 DEF dream_channel_endpoint, signalVars, OInv, InUse, SleepsOpen, Asleep
<1>2. ASSUME NEW e \in Endpoints, dream_channel_close(e) PROVE OInv'
  <2>1. \A x \in Endpoints : Asleep(x) => On(readable, x) \/ On(writable, x)
    BY DEF IInv, Signals
  <2>2. \A x \in Endpoints : ~Asleep(x)'
    BY <1>0, <1>2, <2>1 DEF dream_channel_close, notify_all, Asleep
  <2>3. \A x \in Endpoints : pc'[x] = pc[x] /\ (endpoint[x] # "none" => endpoint'[x] # "none")
    BY <1>0, <1>2 DEF dream_channel_close
  <2> QED
    BY <2>2, <2>3 DEF OInv, InUse, SleepsOpen
<1>3. ASSUME NEW e \in Endpoints, \/ \E b \in BOOLEAN : Start(e, b)
                                  \/ CheckToken(e)
                                  \/ e \in Receivers /\ dream_channel_status(e)
                                  \/ CancelToken(e)
      PROVE  OInv'
  <2>1. /\ UNCHANGED <<send_closed, receive_closed, endpoint, done>>
        /\ \A x \in Endpoints : pc'[x] = "sleep" => pc[x] = "sleep"
        /\ \A x \in Endpoints : pc'[x] # "idle" => endpoint[x] # "none"
    BY <1>0, <1>3 DEF OInv, InUse, Start, CheckToken, dream_channel_status, CancelToken, GoTo, MustWait,
                      stateVars, signalVars
  <2> QED
    BY <2>1, StaysOpen DEF Asleep
<1>4. ASSUME NEW e \in Endpoints, \/ e \in Senders /\ dream_channel_send(e)
                                  \/ e \in Receivers /\ dream_channel_receive(e)
      PROVE  OInv'
  <2>1. /\ UNCHANGED <<send_closed, receive_closed, endpoint>>
        /\ \A x \in Endpoints : pc'[x] = "sleep" => pc[x] = "sleep"
        /\ \A x \in Endpoints : pc'[x] # "idle" => endpoint[x] # "none"
    BY <1>0, <1>4 DEF OInv, InUse, dream_channel_send, dream_channel_receive, GoTo, MustWait, stateVars
  <2>2. \A x \in Endpoints : done[x] => done'[x]
    BY <1>0, <1>4 DEF dream_channel_send, dream_channel_receive, notify_one
  <2> QED
    BY <2>1, <2>2, StaysOpen DEF Asleep
<1>5. ASSUME NEW e \in Endpoints, dream_channel_wait(e) PROVE OInv'
  <2>1. /\ UNCHANGED <<send_closed, receive_closed, endpoint>>
        /\ done'[e] = Ready(e) /\ pc[e] # "idle"
        /\ \A x \in Endpoints \ {e} : pc'[x] = pc[x] /\ done'[x] = done[x]
    BY <1>0, <1>5 DEF dream_channel_wait, GoTo, stateVars
  <2>2. ~Ready(e) /\ endpoint[e] # "none" =>
          endpoint[e] = "open" /\ ~send_closed /\ ~receive_closed
    BY <1>0 DEF Ready
  <2> QED
    BY <2>1, <2>2 DEF OInv, InUse, SleepsOpen, Asleep
<1>6. ASSUME NEW e \in Endpoints, WaitCompleted(e) \/ WaitCancelled(e) PROVE OInv'
  <2>1. /\ UNCHANGED <<send_closed, receive_closed, endpoint>>
        /\ pc'[e] # "sleep" /\ pc[e] # "idle"
        /\ \A x \in Endpoints \ {e} : pc'[x] = pc[x] /\ done'[x] = done[x]
    BY <1>0, <1>6 DEF WaitCompleted, WaitCancelled, unregister, GoTo, stateVars
  <2> QED
    BY <2>1, StaysOpen DEF OInv, InUse, Asleep
<1>7. CASE UNCHANGED vars
  BY <1>7, StaysOpen DEF vars, stateVars, signalVars, callVars, OInv, InUse, Asleep
<1> QED
  BY <1>1, <1>2, <1>3, <1>4, <1>5, <1>6, <1>7 DEF Next, Step

(* Closing wakes everybody who sleeps, and who looks afterwards does not   *)
(* fall asleep: dream_channel_close notifies under the lock that           *)
(* dream_channel_wait registers under, whatever is cancelled meanwhile.    *)
THEOREM ClosureWakes == Spec => []SleepsOpen
<1>1. Init => OInv
  BY DEF Init, OInv, InUse, SleepsOpen, Asleep
<1>2. IInv /\ OInv /\ [Next]_vars => OInv'
  BY OInvStep
<1>3. OInv => SleepsOpen
  BY DEF OInv
<1> QED
  BY <1>1, <1>2, <1>3, Inductive, PTL DEF Spec

-----------------------------------------------------------------------------
(* No value and no slot is left to sleepers.                               *)

(* A call on an open endpoint that is going to look at the queue.          *)
Awake(e) ==
    /\ blocking[e] /\ endpoint[e] = "open"
    /\ pc[e] \in {"top", "try", "status", "wait"} \/ (pc[e] = "sleep" /\ done[e])

AwakeOf(S) == {e \in S : Awake(e)}

(* While somebody sleeps, every queued value, or free slot, has a call     *)
(* that is awake for it.                                                   *)
WakesSuffice ==
    /\ readable # <<>> => count <= Cardinality(AwakeOf(Receivers))
    /\ writable # <<>> => bounded /\ capacity - count <= Cardinality(AwakeOf(Senders))

(* Calls that nobody cancels, and whose channel is open while they sleep.  *)
Calls ==
    \A e \in Endpoints :
        /\ ~cancelled[e]
        /\ pc[e] \in {"top", "wait", "sleep"} => blocking[e]
        /\ pc[e] # "idle" => endpoint[e] # "none"
        /\ Asleep(e) => endpoint[e] = "open"
Unclosed == send_closed \/ receive_closed => readable = <<>> /\ writable = <<>>

WInv == Calls /\ Unclosed /\ WakesSuffice

(* Cardinalities of what is awake before and after a step. *)
LEMMA Sizes ==
  ASSUME NEW S, IsFiniteSet(S), NEW A \in SUBSET S, NEW B \in SUBSET S
  PROVE  /\ Cardinality(A) \in Nat /\ Cardinality(B) \in Nat
         /\ A \subseteq B => Cardinality(A) <= Cardinality(B)
         /\ \A e \in B \ A : A \subseteq B => Cardinality(A) + 1 <= Cardinality(B)
         /\ \A e : A \ {e} \subseteq B => Cardinality(A) - 1 <= Cardinality(B)
<1>1. /\ IsFiniteSet(A) /\ IsFiniteSet(B)
      /\ Cardinality(A) \in Nat /\ Cardinality(B) \in Nat
  BY FS_Subset, FS_CardinalityType
<1>2. A \subseteq B => Cardinality(A) <= Cardinality(B)
  BY <1>1, FS_Subset
<1>3. ASSUME NEW e \in B \ A, A \subseteq B
      PROVE  Cardinality(A) + 1 <= Cardinality(B)
  <2>1. Cardinality(A \cup {e}) = Cardinality(A) + 1
    BY <1>1, <1>3, FS_AddElement
  <2>2. (A \cup {e}) \in SUBSET B
    BY <1>3
  <2>3. Cardinality(A \cup {e}) <= Cardinality(B)
    BY <1>1, <2>2, FS_Subset
  <2> QED
    BY <2>1, <2>3
<1>4. ASSUME NEW e, A \ {e} \subseteq B
      PROVE  Cardinality(A) - 1 <= Cardinality(B)
  <2>1. /\ IsFiniteSet(A \ {e})
        /\ Cardinality(A \ {e}) = IF e \in A THEN Cardinality(A) - 1 ELSE Cardinality(A)
    BY <1>1, FS_RemoveElement
  <2>2. Cardinality(A \ {e}) <= Cardinality(B)
    BY <1>1, <1>4, FS_Subset
  <2> QED
    BY <1>1, <2>1, <2>2
<1> QED
  BY <1>1, <1>2, <1>3, <1>4

LEMMA AwakeSizes ==
  /\ Cardinality(AwakeOf(Receivers)) \in Nat /\ Cardinality(AwakeOf(Receivers))' \in Nat
  /\ Cardinality(AwakeOf(Senders)) \in Nat /\ Cardinality(AwakeOf(Senders))' \in Nat
BY EndpointsFinite, Sizes DEF AwakeOf

(* Steps that leave the queue and the lists alone, or the lists empty.     *)
LEMMA Quiet ==
  ASSUME IInv, WakesSuffice,
         UNCHANGED <<count, capacity, bounded, readable, writable>>,
         \/ readable = <<>> /\ writable = <<>>
         \/ \A x \in Endpoints : Awake(x) => Awake(x)'
  PROVE  WakesSuffice'
<1>1. CASE readable = <<>> /\ writable = <<>>
  BY <1>1 DEF WakesSuffice
<1>2. CASE \A x \in Endpoints : Awake(x) => Awake(x)'
  <2>1. /\ AwakeOf(Receivers) \subseteq AwakeOf(Receivers)'
        /\ AwakeOf(Senders) \subseteq AwakeOf(Senders)'
    BY <1>2, SidesDiffer DEF AwakeOf
  <2>2. Cardinality(AwakeOf(Receivers)) <= Cardinality(AwakeOf(Receivers)')
    BY <2>1, EndpointsFinite, Sizes DEF AwakeOf
  <2>3. Cardinality(AwakeOf(Senders)) <= Cardinality(AwakeOf(Senders)')
    BY <2>1, EndpointsFinite, Sizes DEF AwakeOf
  <2>4. count \in Nat /\ capacity \in Nat
    BY DEF IInv, TypeOK
  <2> QED
    BY <2>2, <2>3, <2>4, AwakeSizes DEF WakesSuffice
<1> QED
  BY <1>1, <1>2

(* Where a call that nobody cancels is after a step of its own.            *)
LEMMA GoesOn ==
  ASSUME IInv, Calls, NEW e \in Endpoints, NEW p \in PCs, GoTo(e, p)
  PROVE  /\ pc'[e] = p /\ (blocking'[e] <=> blocking[e] \/ p \in {"idle", "closed", "eof"})
         /\ \A x \in Endpoints : /\ ~cancelled'[x]
                                 /\ x # e => pc'[x] = pc[x] /\ blocking'[x] = blocking[x]
<1>1. pc'[e] = p /\ \A x \in Endpoints : x # e => pc'[x] = pc[x]
  BY Typed DEF GoTo
<1>2. /\ blocking'[e] <=> blocking[e] \/ p \in {"idle", "closed", "eof"}
      /\ \A x \in Endpoints : x # e => blocking'[x] = blocking[x]
  BY Typed DEF GoTo
<1>3. \A x \in Endpoints : ~cancelled'[x]
  BY Typed DEF GoTo, Calls
<1> QED
  BY <1>1, <1>2, <1>3

(* A step of one call that neither sends, receives nor sleeps.             *)
LEMMA GoesOnQuietly ==
  ASSUME IInv, WInv, NEW e \in Endpoints, NEW p \in {"try", "status", "wait", "idle", "closed", "eof"},
         GoTo(e, p), pc[e] \in {"top", "try", "status"},
         UNCHANGED <<ringVars, stateVars, signalVars, endpoint>>,
         p = "wait" => blocking[e],
         \/ Awake(e) => p \in {"try", "status", "wait"}
         \/ send_closed \/ receive_closed
  PROVE  WInv'
<1>1. /\ UNCHANGED <<count, capacity, bounded, readable, writable, done, endpoint>>
      /\ UNCHANGED <<send_closed, receive_closed>>
  BY DEF ringVars, stateVars, signalVars
<1>2. /\ pc'[e] = p /\ (blocking[e] => blocking'[e])
      /\ \A x \in Endpoints : /\ ~cancelled'[x]
                              /\ x # e => pc'[x] = pc[x] /\ blocking'[x] = blocking[x]
  BY GoesOn DEF WInv, PCs
<1>3. Calls'
  <2> SUFFICES ASSUME NEW x \in Endpoints
               PROVE  /\ ~cancelled'[x]
                      /\ pc'[x] \in {"top", "wait", "sleep"} => blocking'[x]
                      /\ pc'[x] # "idle" => endpoint'[x] # "none"
                      /\ Asleep(x)' => endpoint'[x] = "open"
    BY DEF Calls
  <2>1. CASE x = e
    BY <1>1, <1>2, <2>1 DEF WInv, Calls, Asleep
  <2>2. CASE x # e
    BY <1>1, <1>2, <2>2 DEF WInv, Calls, Asleep
  <2> QED
    BY <2>1, <2>2
<1>4. Unclosed'
  BY <1>1 DEF WInv, Unclosed
<1>5. CASE Awake(e) => p \in {"try", "status", "wait"}
  <2>1. \A x \in Endpoints : Awake(x) => Awake(x)'
    <3> SUFFICES ASSUME NEW x \in Endpoints, Awake(x) PROVE Awake(x)'
      OBVIOUS
    <3>1. CASE x = e
      BY <1>1, <1>2, <1>5, <3>1 DEF Awake
    <3>2. CASE x # e
      BY <1>1, <1>2, <3>2 DEF Awake
    <3> QED
      BY <3>1, <3>2
  <2> QED
    BY <1>1, <1>3, <1>4, <2>1, Quiet DEF WInv
<1>6. CASE send_closed \/ receive_closed
  BY <1>1, <1>3, <1>4, <1>6, Quiet DEF WInv, Unclosed
<1> QED
  BY <1>5, <1>6

LEMMA Wakes_Start ==
  ASSUME IInv, WInv, NEW e \in Endpoints, NEW b \in BOOLEAN, Start(e, b)
  PROVE  WInv'
<1>1. /\ UNCHANGED <<count, capacity, bounded, readable, writable, done, endpoint, cancelled>>
      /\ UNCHANGED <<send_closed, receive_closed>>
  BY DEF Start, ringVars, stateVars, signalVars
<1>2. /\ pc[e] = "idle" /\ endpoint[e] # "none"
      /\ pc'[e] = IF b THEN "top" ELSE "try"
      /\ blocking'[e] = b
      /\ \A x \in Endpoints : x # e => pc'[x] = pc[x] /\ blocking'[x] = blocking[x]
  BY Typed DEF Start
<1>3. Calls'
  <2> SUFFICES ASSUME NEW x \in Endpoints
               PROVE  /\ ~cancelled'[x]
                      /\ pc'[x] \in {"top", "wait", "sleep"} => blocking'[x]
                      /\ pc'[x] # "idle" => endpoint'[x] # "none"
                      /\ Asleep(x)' => endpoint'[x] = "open"
    BY DEF Calls
  <2>1. CASE x = e
    BY <1>1, <1>2, <2>1 DEF WInv, Calls, Asleep
  <2>2. CASE x # e
    BY <1>1, <1>2, <2>2 DEF WInv, Calls, Asleep
  <2> QED
    BY <2>1, <2>2
<1>4. Unclosed'
  BY <1>1 DEF WInv, Unclosed
<1>5. \A x \in Endpoints : Awake(x) => Awake(x)'
  BY <1>1, <1>2 DEF Awake
<1> QED
  BY <1>1, <1>3, <1>4, <1>5, Quiet DEF WInv

LEMMA Wakes_CheckToken ==
  ASSUME IInv, WInv, NEW e \in Endpoints, CheckToken(e)
  PROVE  WInv'
<1>1. GoTo(e, "try") /\ pc[e] = "top"
  BY DEF CheckToken, WInv, Calls
<1> QED
  BY <1>1, GoesOnQuietly DEF CheckToken

LEMMA Wakes_dream_channel_status ==
  ASSUME IInv, WInv, NEW r \in Receivers, dream_channel_status(r)
  PROVE  WInv'
<1>0. r \in Endpoints /\ pc[r] = "status"
      /\ UNCHANGED <<ringVars, stateVars, signalVars, endpoint>>
  BY SidesDiffer DEF dream_channel_status
<1>1. CASE endpoint[r] = "closed" \/ receive_closed
  <2>1. GoTo(r, "closed")
    BY <1>1 DEF dream_channel_status
  <2> QED
    BY <1>0, <1>1, <2>1, GoesOnQuietly DEF Awake
<1>2. CASE ~(endpoint[r] = "closed" \/ receive_closed) /\ send_closed /\ count = 0
  <2>1. GoTo(r, "eof")
    BY <1>2 DEF dream_channel_status
  <2> QED
    BY <1>0, <1>2, <2>1, GoesOnQuietly
<1>3. CASE ~(endpoint[r] = "closed" \/ receive_closed) /\ ~(send_closed /\ count = 0)
  <2>1. GoTo(r, MustWait(r))
    BY <1>3 DEF dream_channel_status
  <2>2. CASE blocking[r]
    BY <1>0, <2>1, <2>2, GoesOnQuietly DEF MustWait
  <2>3. CASE ~blocking[r]
    BY <1>0, <2>1, <2>3, GoesOnQuietly DEF MustWait, Awake
  <2> QED
    BY <2>2, <2>3
<1> QED
  BY <1>1, <1>2, <1>3

LEMMA Wakes_dream_channel_endpoint ==
  ASSUME IInv, WInv, NEW e \in Endpoints, dream_channel_endpoint(e)
  PROVE  WInv'
<1>1. /\ UNCHANGED <<count, capacity, bounded, readable, writable, done, pc, blocking, cancelled>>
      /\ UNCHANGED <<send_closed, receive_closed>>
      /\ endpoint[e] = "none" /\ endpoint'[e] = "open"
      /\ \A x \in Endpoints : x # e => endpoint'[x] = endpoint[x]
  BY Typed DEF dream_channel_endpoint, ringVars, signalVars
<1>2. Calls'
  BY <1>1 DEF WInv, Calls, Asleep
<1>3. Unclosed'
  BY <1>1 DEF WInv, Unclosed
<1>4. \A x \in Endpoints : Awake(x) => Awake(x)'
  BY <1>1 DEF Awake
<1> QED
  BY <1>1, <1>2, <1>3, <1>4, Quiet DEF WInv

(* A close wakes everybody.                                                *)
LEMMA Wakes_dream_channel_close ==
  ASSUME IInv, WInv, NEW e \in Endpoints, dream_channel_close(e)
  PROVE  WInv'
<1>1. /\ UNCHANGED <<pc, blocking, cancelled>> /\ notify_all /\ endpoint'[e] = "closed"
      /\ \A x \in Endpoints : x # e => endpoint'[x] = endpoint[x]
  BY Typed DEF dream_channel_close
<1>2. Signals' /\ readable' = <<>> /\ writable' = <<>>
  BY <1>1, NotifyAll
<1>3. \A x \in Endpoints : ~Asleep(x)'
  BY <1>2 DEF Signals, On
<1>4. Calls'
  BY <1>1, <1>3 DEF WInv, Calls
<1> QED
  BY <1>2, <1>4 DEF WInv, Unclosed, WakesSuffice

(* A call goes to sleep only next to an empty queue, or a full one.        *)
LEMMA Wakes_dream_channel_wait ==
  ASSUME IInv, WInv, NEW e \in Endpoints, dream_channel_wait(e)
  PROVE  WInv'
<1>1. /\ UNCHANGED <<count, capacity, bounded, endpoint, send_closed, receive_closed>>
      /\ pc[e] = "wait" /\ blocking[e] /\ endpoint[e] # "none"
  BY DEF dream_channel_wait, ringVars, stateVars, WInv, Calls
<1>2. /\ pc'[e] = "sleep" /\ blocking'[e]
      /\ \A x \in Endpoints : /\ ~cancelled'[x]
                              /\ x # e => pc'[x] = pc[x] /\ blocking'[x] = blocking[x]
  BY <1>1, GoesOn DEF dream_channel_wait, WInv, PCs
<1>3. /\ done'[e] = Ready(e)
      /\ \A x \in Endpoints : x # e => done'[x] = done[x]
  BY Typed DEF dream_channel_wait
<1>4. Calls'
  <2> SUFFICES ASSUME NEW x \in Endpoints
               PROVE  /\ ~cancelled'[x]
                      /\ pc'[x] \in {"top", "wait", "sleep"} => blocking'[x]
                      /\ pc'[x] # "idle" => endpoint'[x] # "none"
                      /\ Asleep(x)' => endpoint'[x] = "open"
    BY DEF Calls
  <2>1. CASE x = e
    <3>1. Asleep(x)' => endpoint'[x] = "open"
      BY <1>1, <1>3, <2>1, Typed DEF Asleep, Ready
    <3> QED
      BY <1>1, <1>2, <2>1, <3>1
  <2>2. CASE x # e
    BY <1>1, <1>2, <1>3, <2>2 DEF WInv, Calls, Asleep
  <2> QED
    BY <2>1, <2>2
<1>5. \A x \in Endpoints : x # e /\ Awake(x) => Awake(x)'
  BY <1>1, <1>2, <1>3 DEF Awake
<1>6. CASE Ready(e)
  <2>1. readable' = readable /\ writable' = writable
    BY <1>6 DEF dream_channel_wait
  <2>2. \A x \in Endpoints : Awake(x) => Awake(x)'
    BY <1>1, <1>2, <1>3, <1>5, <1>6 DEF Awake
  <2>3. Unclosed'
    BY <1>1, <2>1 DEF WInv, Unclosed
  <2> QED
    BY <1>1, <1>4, <2>1, <2>2, <2>3, Quiet DEF WInv
<1>7. CASE ~Ready(e)
  <2>1. ~send_closed /\ ~receive_closed
    BY <1>7 DEF Ready
  <2>2. Unclosed'
    BY <1>1, <2>1 DEF Unclosed
  <2>3. count \in Nat /\ capacity \in Nat /\ count <= capacity
    BY DEF IInv, TypeOK
  <2>4. CASE e \in Receivers
    <3>1. e \notin Senders /\ writable' = writable /\ count = 0
      BY <1>7, <2>3, <2>4, SidesDiffer DEF dream_channel_wait, Ready
    <3>2. AwakeOf(Senders) \subseteq AwakeOf(Senders)'
      BY <1>5, <3>1, SidesDiffer DEF AwakeOf
    <3>3. Cardinality(AwakeOf(Senders)) <= Cardinality(AwakeOf(Senders)')
      BY <3>2, EndpointsFinite, Sizes DEF AwakeOf
    <3> QED
      BY <1>1, <1>4, <2>2, <2>3, <3>1, <3>3, AwakeSizes DEF WInv, WakesSuffice
  <2>5. CASE e \in Senders
    <3>1. readable' = readable /\ bounded /\ count = capacity
      BY <1>7, <2>3, <2>5 DEF dream_channel_wait, Ready
    <3>2. AwakeOf(Receivers) \subseteq AwakeOf(Receivers)'
      BY <1>5, <2>5, SidesDiffer DEF AwakeOf
    <3>3. Cardinality(AwakeOf(Receivers)) <= Cardinality(AwakeOf(Receivers)')
      BY <3>2, EndpointsFinite, Sizes DEF AwakeOf
    <3> QED
      BY <1>1, <1>4, <2>2, <2>3, <3>1, <3>3, AwakeSizes DEF WInv, WakesSuffice
  <2> QED
    BY <2>4, <2>5, SidesDiffer
<1> QED
  BY <1>6, <1>7

(* A woken call was taken off its list by whoever woke it.                 *)
LEMMA Wakes_WaitCompleted ==
  ASSUME IInv, WInv, NEW e \in Endpoints, WaitCompleted(e)
  PROVE  WInv'
<1>1. /\ UNCHANGED <<count, capacity, bounded, endpoint, send_closed, receive_closed>>
      /\ pc[e] = "sleep" /\ done[e] /\ blocking[e] /\ endpoint[e] # "none"
  BY DEF WaitCompleted, ringVars, stateVars, WInv, Calls
<1>2. /\ pc'[e] = "top" /\ blocking'[e]
      /\ \A x \in Endpoints : /\ ~cancelled'[x]
                              /\ x # e => pc'[x] = pc[x] /\ blocking'[x] = blocking[x]
  BY <1>1, GoesOn DEF WaitCompleted, WInv, PCs
<1>3. /\ readable' = readable /\ writable' = writable
      /\ \A x \in Endpoints : x # e => done'[x] = done[x]
  <2>1. ~On(readable, e) /\ ~On(writable, e)
    BY <1>1, Registered DEF Asleep
  <2> QED
    BY <2>1, Typed DEF WaitCompleted, unregister, Without
<1>4. Calls'
  <2> SUFFICES ASSUME NEW x \in Endpoints
               PROVE  /\ ~cancelled'[x]
                      /\ pc'[x] \in {"top", "wait", "sleep"} => blocking'[x]
                      /\ pc'[x] # "idle" => endpoint'[x] # "none"
                      /\ Asleep(x)' => endpoint'[x] = "open"
    BY DEF Calls
  <2>1. CASE x = e
    BY <1>1, <1>2, <2>1 DEF Asleep
  <2>2. CASE x # e
    BY <1>1, <1>2, <1>3, <2>2 DEF WInv, Calls, Asleep
  <2> QED
    BY <2>1, <2>2
<1>5. Unclosed'
  BY <1>1, <1>3 DEF WInv, Unclosed
<1>6. \A x \in Endpoints : Awake(x) => Awake(x)'
  BY <1>1, <1>2, <1>3 DEF Awake
<1> QED
  BY <1>1, <1>3, <1>4, <1>5, <1>6, Quiet DEF WInv

(* What the end of a call that sent or received, and woke one of q, does   *)
(* to the calls that are awake.                                            *)
LEMMA Hands ==
  ASSUME IInv, WInv, NEW e \in Endpoints, pc[e] = "try", GoTo(e, "idle"), endpoint' = endpoint,
         NEW q \in {readable, writable}, notify_one(q)
  PROVE  /\ Calls'
         /\ \A x \in Endpoints \ {e} : Awake(x) => Awake(x)'
         /\ q # <<>> => \E h \in Endpoints : On(q, h) /\ ~Awake(h) /\ Awake(h)'
<1>1. /\ pc'[e] = "idle"
      /\ \A x \in Endpoints : /\ ~cancelled'[x]
                              /\ x # e => pc'[x] = pc[x] /\ blocking'[x] = blocking[x]
  BY GoesOn DEF WInv, PCs
<1>2. q \in Seq(Endpoints) /\ Distinct(q)
  BY Typed DEF IInv, Signals, Endpoints
<1>3. q # <<>> => /\ Head(q) \in Endpoints /\ On(q, Head(q))
                  /\ Asleep(Head(q)) /\ blocking[Head(q)] /\ endpoint[Head(q)] = "open"
  BY <1>2, RestFacts, Registered DEF WInv, Calls, Asleep
<1>4. \A x \in Endpoints : /\ done[x] => done'[x]
                           /\ q # <<>> /\ x = Head(q) => done'[x]
  BY <1>3, Typed DEF notify_one
<1>5. Calls'
  <2> SUFFICES ASSUME NEW x \in Endpoints
               PROVE  /\ ~cancelled'[x]
                      /\ pc'[x] \in {"top", "wait", "sleep"} => blocking'[x]
                      /\ pc'[x] # "idle" => endpoint'[x] # "none"
                      /\ Asleep(x)' => endpoint'[x] = "open"
    BY DEF Calls
  <2>1. CASE x = e
    BY <1>1, <2>1 DEF Asleep
  <2>2. CASE x # e
    BY <1>1, <1>4, <2>2 DEF WInv, Calls, Asleep
  <2> QED
    BY <2>1, <2>2
<1>6. \A x \in Endpoints \ {e} : Awake(x) => Awake(x)'
  BY <1>1, <1>4 DEF Awake
<1>7. q # <<>> => \E h \in Endpoints : On(q, h) /\ ~Awake(h) /\ Awake(h)'
  <2> SUFFICES ASSUME q # <<>>, NEW h, h = Head(q)
               PROVE  h \in Endpoints /\ On(q, h) /\ ~Awake(h) /\ Awake(h)'
    OBVIOUS
  <2>1. h \in Endpoints /\ On(q, h) /\ Asleep(h) /\ blocking[h] /\ endpoint[h] = "open"
    BY <1>3
  <2>2. h # e /\ done'[h]
    BY <1>4, <2>1 DEF Asleep
  <2> QED
    BY <1>1, <2>1, <2>2 DEF Awake, Asleep
<1> QED
  BY <1>3, <1>5, <1>6, <1>7

(* A value more, and a receiver more that is awake.                        *)
LEMMA Wakes_dream_channel_send ==
  ASSUME IInv, WInv, NEW s \in Senders, dream_channel_send(s)
  PROVE  WInv'
<1>0. s \in Endpoints /\ s \notin Receivers /\ pc[s] = "try"
      /\ UNCHANGED <<stateVars, writable, endpoint>>
  BY SidesDiffer DEF dream_channel_send
<1>1. CASE Refused(s)
  <2>1. GoTo(s, "closed") /\ UNCHANGED <<ringVars, signalVars>>
    BY <1>0, <1>1 DEF dream_channel_send, Refused, signalVars
  <2>2. Awake(s) => send_closed \/ receive_closed
    BY <1>1 DEF Refused, Awake
  <2> QED
    BY <1>0, <2>1, <2>2, GoesOnQuietly
<1>2. CASE ~Refused(s) /\ Full
  <2>1. GoTo(s, MustWait(s)) /\ UNCHANGED <<ringVars, signalVars>>
    BY <1>0, <1>2 DEF dream_channel_send, Refused, Full, signalVars
  <2>2. CASE blocking[s]
    BY <1>0, <2>1, <2>2, GoesOnQuietly DEF MustWait
  <2>3. CASE ~blocking[s]
    BY <1>0, <2>1, <2>3, GoesOnQuietly DEF MustWait, Awake
  <2> QED
    BY <2>2, <2>3
<1>3. CASE ~Refused(s) /\ ~Full
  <2>1. /\ GoTo(s, "idle") /\ notify_one(readable) /\ readable' = Rest(readable)
        /\ writable' = writable /\ endpoint' = endpoint
        /\ count' = count + 1 /\ (bounded => capacity' = capacity /\ count < capacity)
        /\ UNCHANGED <<bounded, send_closed, receive_closed>>
    <3>1. count \in Nat /\ capacity \in Nat /\ count <= capacity
      BY DEF IInv, TypeOK
    <3>2. /\ GoTo(s, "idle") /\ notify_one(readable) /\ readable' = Rest(readable)
          /\ count' = count + 1 /\ (count # capacity => capacity' = capacity)
      BY <1>3 DEF dream_channel_send, Refused, Full
    <3> QED
      BY <1>0, <1>3, <3>1, <3>2 DEF Full, stateVars
  <2>2. /\ Calls'
        /\ \A x \in Endpoints \ {s} : Awake(x) => Awake(x)'
        /\ readable # <<>> => \E h \in Endpoints : On(readable, h) /\ ~Awake(h) /\ Awake(h)'
    <3>1. PICK q : q = readable
      OBVIOUS
    <3>2. q \in {readable, writable} /\ notify_one(q)
      BY <2>1, <3>1
    <3>3. /\ Calls'
          /\ \A x \in Endpoints \ {s} : Awake(x) => Awake(x)'
          /\ q # <<>> => \E h \in Endpoints : On(q, h) /\ ~Awake(h) /\ Awake(h)'
      BY <1>0, <2>1, <3>2, Hands
    <3> QED
      BY <3>1, <3>3
  <2>3. readable' # <<>> => readable # <<>>
    BY <2>1 DEF Rest
  <2>4. Unclosed'
    BY <2>1, <2>3 DEF WInv, Unclosed
  <2>5. readable # <<>> => count + 1 <= Cardinality(AwakeOf(Receivers)')
    <3> SUFFICES ASSUME readable # <<>>
                 PROVE  count + 1 <= Cardinality(AwakeOf(Receivers)')
      OBVIOUS
    <3>1. \E h : h \in AwakeOf(Receivers)' \ AwakeOf(Receivers)
      BY <2>2, Registered DEF AwakeOf
    <3>2. AwakeOf(Receivers) \subseteq AwakeOf(Receivers)'
      BY <1>0, <2>2, SidesDiffer DEF AwakeOf
    <3>3. Cardinality(AwakeOf(Receivers)) + 1 <= Cardinality(AwakeOf(Receivers)')
      BY <3>1, <3>2, EndpointsFinite, Sizes DEF AwakeOf
    <3>4. count \in Nat /\ count <= Cardinality(AwakeOf(Receivers))
      BY DEF IInv, TypeOK, WInv, WakesSuffice
    <3> QED
      BY <3>3, <3>4, AwakeSizes
  <2>6. writable # <<>> => bounded /\ capacity - (count + 1) <= Cardinality(AwakeOf(Senders)')
    <3> SUFFICES ASSUME writable # <<>>
                 PROVE  bounded /\ capacity - (count + 1) <= Cardinality(AwakeOf(Senders)')
      OBVIOUS
    <3>1. AwakeOf(Senders) \ {s} \subseteq AwakeOf(Senders)'
      BY <2>2, SidesDiffer DEF AwakeOf
    <3>2. Cardinality(AwakeOf(Senders)) - 1 <= Cardinality(AwakeOf(Senders)')
      BY <3>1, EndpointsFinite, Sizes DEF AwakeOf
    <3>3. bounded /\ capacity - count <= Cardinality(AwakeOf(Senders))
      BY DEF WInv, WakesSuffice
    <3>4. count \in Nat /\ capacity \in Nat
      BY DEF IInv, TypeOK
    <3> QED
      BY <3>2, <3>3, <3>4, AwakeSizes
  <2>7. WakesSuffice'
    BY <2>1, <2>3, <2>5, <2>6 DEF WakesSuffice
  <2> QED
    BY <2>2, <2>4, <2>7 DEF WInv
<1> QED
  BY <1>1, <1>2, <1>3

(* A slot more, and a sender more that is awake.                           *)
LEMMA Wakes_dream_channel_receive ==
  ASSUME IInv, WInv, NEW r \in Receivers, dream_channel_receive(r)
  PROVE  WInv'
<1>0. r \in Endpoints /\ r \notin Senders /\ pc[r] = "try"
      /\ UNCHANGED <<stateVars, readable, endpoint>>
  BY SidesDiffer DEF dream_channel_receive
<1>1. CASE Nothing(r)
  <2>1. GoTo(r, "status") /\ UNCHANGED <<ringVars, signalVars>>
    BY <1>0, <1>1 DEF dream_channel_receive, Nothing, signalVars
  <2> QED
    BY <1>0, <2>1, GoesOnQuietly
<1>2. CASE ~Nothing(r)
  <2>1. /\ GoTo(r, "idle") /\ notify_one(writable) /\ writable' = Rest(writable)
        /\ readable' = readable /\ endpoint' = endpoint
        /\ count' = count - 1 /\ capacity' = capacity
        /\ UNCHANGED <<bounded, send_closed, receive_closed>>
    BY <1>0, <1>2 DEF dream_channel_receive, Nothing, stateVars
  <2>2. /\ Calls'
        /\ \A x \in Endpoints \ {r} : Awake(x) => Awake(x)'
        /\ writable # <<>> => \E h \in Endpoints : On(writable, h) /\ ~Awake(h) /\ Awake(h)'
    <3>1. PICK q : q = writable
      OBVIOUS
    <3>2. q \in {readable, writable} /\ notify_one(q)
      BY <2>1, <3>1
    <3>3. /\ Calls'
          /\ \A x \in Endpoints \ {r} : Awake(x) => Awake(x)'
          /\ q # <<>> => \E h \in Endpoints : On(q, h) /\ ~Awake(h) /\ Awake(h)'
      BY <1>0, <2>1, <3>2, Hands
    <3> QED
      BY <3>1, <3>3
  <2>3. writable' # <<>> => writable # <<>>
    BY <2>1 DEF Rest
  <2>4. Unclosed'
    BY <2>1, <2>3 DEF WInv, Unclosed
  <2>5. count \in Nat /\ capacity \in Nat
    BY DEF IInv, TypeOK
  <2>6. readable # <<>> => count - 1 <= Cardinality(AwakeOf(Receivers)')
    <3> SUFFICES ASSUME readable # <<>>
                 PROVE  count - 1 <= Cardinality(AwakeOf(Receivers)')
      OBVIOUS
    <3>1. AwakeOf(Receivers) \ {r} \subseteq AwakeOf(Receivers)'
      BY <2>2, SidesDiffer DEF AwakeOf
    <3>2. Cardinality(AwakeOf(Receivers)) - 1 <= Cardinality(AwakeOf(Receivers)')
      BY <3>1, EndpointsFinite, Sizes DEF AwakeOf
    <3>3. count <= Cardinality(AwakeOf(Receivers))
      BY DEF WInv, WakesSuffice
    <3> QED
      BY <2>5, <3>2, <3>3, AwakeSizes
  <2>7. writable # <<>> => bounded /\ capacity - (count - 1) <= Cardinality(AwakeOf(Senders)')
    <3> SUFFICES ASSUME writable # <<>>
                 PROVE  bounded /\ capacity - (count - 1) <= Cardinality(AwakeOf(Senders)')
      OBVIOUS
    <3>1. \E h : h \in AwakeOf(Senders)' \ AwakeOf(Senders)
      BY <2>2, Registered DEF AwakeOf
    <3>2. AwakeOf(Senders) \subseteq AwakeOf(Senders)'
      BY <1>0, <2>2, SidesDiffer DEF AwakeOf
    <3>3. Cardinality(AwakeOf(Senders)) + 1 <= Cardinality(AwakeOf(Senders)')
      BY <3>1, <3>2, EndpointsFinite, Sizes DEF AwakeOf
    <3>4. bounded /\ capacity - count <= Cardinality(AwakeOf(Senders))
      BY DEF WInv, WakesSuffice
    <3> QED
      BY <2>5, <3>3, <3>4, AwakeSizes
  <2>8. WakesSuffice'
    BY <2>1, <2>3, <2>6, <2>7 DEF WakesSuffice
  <2> QED
    BY <2>2, <2>4, <2>8 DEF WInv
<1> QED
  BY <1>1, <1>2

LEMMA WInvStep == Cancellable = {} /\ IInv /\ WInv /\ [Next]_vars => WInv'
<1> SUFFICES ASSUME Cancellable = {}, IInv, WInv, [Next]_vars PROVE WInv'
  OBVIOUS
<1>1. CASE UNCHANGED vars
  BY <1>1 DEF vars, ringVars, stateVars, signalVars, callVars, WInv, Calls, Asleep, Unclosed,
              WakesSuffice, AwakeOf, Awake
<1>2. ASSUME NEW e \in Endpoints, dream_channel_endpoint(e) PROVE WInv'
  BY <1>2, Wakes_dream_channel_endpoint
<1>3. ASSUME NEW e \in Endpoints, dream_channel_close(e) PROVE WInv'
  BY <1>3, Wakes_dream_channel_close
<1>4. ASSUME NEW e \in Endpoints, NEW b \in BOOLEAN, Start(e, b) PROVE WInv'
  BY <1>4, Wakes_Start
<1>5. ASSUME NEW e \in Endpoints, CheckToken(e) PROVE WInv'
  BY <1>5, Wakes_CheckToken
<1>6. ASSUME NEW s \in Senders, dream_channel_send(s) PROVE WInv'
  BY <1>6, Wakes_dream_channel_send
<1>7. ASSUME NEW r \in Receivers, dream_channel_receive(r) PROVE WInv'
  BY <1>7, Wakes_dream_channel_receive
<1>8. ASSUME NEW r \in Receivers, dream_channel_status(r) PROVE WInv'
  BY <1>8, Wakes_dream_channel_status
<1>9. ASSUME NEW e \in Endpoints, dream_channel_wait(e) PROVE WInv'
  BY <1>9, Wakes_dream_channel_wait
<1>10. ASSUME NEW e \in Endpoints, WaitCompleted(e) PROVE WInv'
  BY <1>10, Wakes_WaitCompleted
<1>11. ASSUME NEW e \in Endpoints PROVE ~WaitCancelled(e) /\ ~CancelToken(e)
  BY <1>11 DEF WaitCancelled, CancelToken, WInv, Calls
<1> QED
  BY <1>1, <1>2, <1>3, <1>4, <1>5, <1>6, <1>7, <1>8, <1>9, <1>10, <1>11 DEF Next, Step

(* While a call sleeps, every value or slot it could have is about to be   *)
(* looked at by another call, if no token is cancelled: notify_one in send *)
(* and receive, and the second look of dream_channel_wait, leave nothing   *)
(* to sleepers alone.                                                      *)
THEOREM NothingLeftToSleepers == Cancellable = {} => (Spec => []WakesSuffice)
<1> SUFFICES ASSUME Cancellable = {} PROVE Spec => []WakesSuffice
  OBVIOUS
<1>1. Init => WInv
  BY DEF Init, WInv, Calls, Unclosed, WakesSuffice, Asleep
<1>2. IInv /\ WInv /\ [Next]_vars => WInv'
  BY WInvStep
<1>3. WInv => WakesSuffice
  BY DEF WInv
<1> QED
  BY <1>1, <1>2, <1>3, Inductive, PTL DEF Spec

-----------------------------------------------------------------------------
(* The ring implements the queue.                                          *)

(* What the queue is, read off the ring. *)
LEMMA ContentsFacts ==
  ASSUME IInv
  PROVE  /\ Contents \in Seq(Values) /\ Len(Contents) = count /\ count \in Nat
         /\ \A i \in 1..count : Contents[i] = items[Slot(i - 1)]
<1>1. count \in Nat /\ capacity \in Nat \ {0} /\ head \in Nat
  BY DEF IInv, TypeOK
<1>2. \A i \in 1..count : Contents[i] = items[Slot(i - 1)]
  <2> SUFFICES ASSUME NEW i \in 1..count PROVE Contents[i] = items[Slot(i - 1)]
    OBVIOUS
  <2>1. head + i - 1 = head + (i - 1)
    BY <1>1
  <2> QED
    BY <2>1 DEF Contents, Slot
<1>3. \A i \in 1..count : Contents[i] \in Values
  <2> SUFFICES ASSUME NEW i \in 1..count PROVE items[Slot(i - 1)] \in Values
    BY <1>2
  <2>1. i - 1 \in 0..(count - 1) /\ count # 0
    BY <1>1
  <2> QED
    BY <2>1 DEF IInv, Ring
<1>4. Contents \in [1..count -> Values]
  <2>1. Contents = [i \in 1..count |-> Contents[i]]
    BY DEF Contents
  <2> QED
    BY <1>3, <2>1
<1> QED
  BY <1>1, <1>2, <1>4

(* Which sides are closed. *)
LEMMA ClosedFacts ==
  ASSUME send_closed \in BOOLEAN, receive_closed \in BOOLEAN
  PROVE  /\ Closed \subseteq {"send", "receive"}
         /\ "send" \in Closed <=> send_closed
         /\ "receive" \in Closed <=> receive_closed
BY DEF Closed

(* Steps that leave the ring, its closure and the history alone.           *)
LEMMA Stutters ==
  ASSUME UNCHANGED <<ringVars, bounded, send_closed, receive_closed, sends, inbox>>
  PROVE  UNCHANGED Fifo!vars
BY DEF ringVars, Contents, Room, Accepted, Closed, Fifo!vars

(* An accepted send puts the sender's next value. *)
LEMMA Puts ==
  ASSUME IInv, IInv', NEW s \in Senders, dream_channel_send(s), ~Refused(s), ~Full
  PROVE  Fifo!Put(<<s, sends[s] + 1>>)
<1> DEFINE v == <<s, sends[s] + 1>>
<1>1. /\ v \in Values /\ sends[s] < MaxSends
      /\ count' = count + 1
      /\ \A i \in 0..(count - 1) : items'[Slot(i)'] = items[Slot(i)]
      /\ items'[(head' + count) % capacity'] = v
      /\ bounded => capacity' = capacity /\ count < capacity
  BY SendRing
<1>2. /\ UNCHANGED <<stateVars, endpoint, inbox>> /\ sends' = [sends EXCEPT ![s] = @ + 1]
  BY DEF dream_channel_send, Refused, Full
<1>3. Closed = {} /\ Closed' = Closed
  BY <1>2 DEF Refused, Closed, stateVars
<1>4. Room' = Room /\ (Room = 0 \/ Len(Contents) < Room)
  BY <1>1, <1>2, ContentsFacts DEF Room, stateVars
<1>5. Contents' = Append(Contents, v)
  <2>1. /\ Contents \in Seq(Values) /\ Len(Contents) = count /\ count \in Nat
        /\ \A i \in 1..count : Contents[i] = items[Slot(i - 1)]
    BY ContentsFacts
  <2>2. /\ Contents' \in Seq(Values) /\ Len(Contents') = count'
        /\ \A i \in 1..count' : Contents'[i] = items'[Slot(i - 1)']
    <3>1. (/\ Contents \in Seq(Values) /\ Len(Contents) = count /\ count \in Nat
           /\ \A i \in 1..count : Contents[i] = items[Slot(i - 1)])'
      BY ContentsFacts, PTL
    <3> QED
      BY <3>1
  <2>3. /\ Append(Contents, v) \in Seq(Values) /\ Len(Append(Contents, v)) = count + 1
        /\ \A i \in 1..count : Append(Contents, v)[i] = Contents[i]
        /\ Append(Contents, v)[count + 1] = v
    BY <1>1, <2>1
  <2>4. ASSUME NEW i \in 1..(count + 1) PROVE Contents'[i] = Append(Contents, v)[i]
    <3>1. CASE i \in 1..count
      <4>1. i - 1 \in 0..(count - 1) /\ i \in 1..count'
        BY <1>1, <2>1, <3>1
      <4> QED
        BY <1>1, <2>1, <2>2, <2>3, <3>1, <4>1
    <3>2. CASE i = count + 1
      <4>1. i - 1 = count /\ i \in 1..count'
        BY <1>1, <2>1, <3>2
      <4>2. Contents'[i] = items'[(head' + (i - 1)) % capacity']
        BY <2>2, <4>1 DEF Slot
      <4>3. Contents'[i] = v
        BY <1>1, <4>1, <4>2
      <4> QED
        BY <2>3, <3>2, <4>3
    <3> QED
      BY <2>1, <3>1, <3>2
  <2> QED
    BY <1>1, <2>2, <2>3, <2>4
<1>6. v \notin Accepted /\ Accepted' = Accepted \cup {v}
  <2>1. /\ sends \in [Senders -> 0..MaxSends] /\ v[1] = s /\ v[2] = sends[s] + 1
        /\ sends'[s] = sends[s] + 1 /\ \A x \in Senders : x # s => sends'[x] = sends[x]
        /\ sends[s] \in Nat
    BY <1>2, Typed, MaxSendsType
  <2>2. v \notin Accepted
    BY <2>1 DEF Accepted
  <2>3. ASSUME NEW w \in Values
        PROVE  w[2] <= sends'[w[1]] <=> w[2] <= sends[w[1]] \/ w = v
    <3>1. PICK x \in Senders, n \in 1..MaxSends : w = <<x, n>>
      BY DEF Values
    <3>2. w[1] = x /\ w[2] = n /\ n \in Nat
      BY <3>1, MaxSendsType
    <3>3. CASE x = s
      <4>1. n <= sends[s] + 1 <=> n <= sends[s] \/ n = sends[s] + 1
        BY <2>1, <3>2
      <4> QED
        BY <2>1, <3>1, <3>2, <3>3, <4>1
    <3>4. CASE x # s
      BY <2>1, <3>1, <3>2, <3>4
    <3> QED
      BY <3>3, <3>4
  <2>4. Accepted' = {w \in Values : w[2] <= sends'[w[1]]}
    BY DEF Accepted
  <2> QED
    BY <1>1, <2>2, <2>3, <2>4 DEF Accepted
<1> QED
  BY <1>2, <1>3, <1>4, <1>5, <1>6 DEF Fifo!Put

(* A receive takes the oldest value. *)
LEMMA Takes ==
  ASSUME IInv, IInv', NEW r \in Receivers, dream_channel_receive(r), ~Nothing(r)
  PROVE  Fifo!Take(r)
<1>1. /\ items[head] = items[Slot(0)] /\ capacity' = capacity
      /\ count \in 1..capacity /\ count' = count - 1
      /\ \A i \in 0..(count - 2) : items'[Slot(i)'] = items[Slot(i + 1)]
  BY ReceiveRing
<1>2. /\ UNCHANGED <<stateVars, sends>>
      /\ inbox' = [inbox EXCEPT ![r] = Append(@, items[head])]
  BY DEF dream_channel_receive, Nothing
<1>3. Closed' = Closed /\ Accepted' = Accepted /\ Room' = Room
  BY <1>1, <1>2 DEF Closed, Accepted, Room, stateVars
<1>4. /\ Contents \in Seq(Values) /\ Len(Contents) = count /\ count \in Nat
      /\ \A i \in 1..count : Contents[i] = items[Slot(i - 1)]
  BY ContentsFacts
<1>5. /\ Contents' \in Seq(Values) /\ Len(Contents') = count'
      /\ \A i \in 1..count' : Contents'[i] = items'[Slot(i - 1)']
  <2>1. (/\ Contents \in Seq(Values) /\ Len(Contents) = count /\ count \in Nat
         /\ \A i \in 1..count : Contents[i] = items[Slot(i - 1)])'
    BY ContentsFacts, PTL
  <2> QED
    BY <2>1
<1>6. Contents # <<>> /\ Head(Contents) = items[head]
  <2>1. 1 \in 1..count /\ 1 - 1 = 0
    BY <1>1, <1>4
  <2> QED
    BY <1>1, <1>4, <2>1
<1>7. Contents' = Tail(Contents)
  <2>1. /\ Tail(Contents) \in Seq(Values) /\ Len(Tail(Contents)) = count - 1
        /\ \A i \in 1..(count - 1) : Tail(Contents)[i] = Contents[i + 1]
    BY <1>4, <1>6
  <2>2. ASSUME NEW i \in 1..(count - 1) PROVE Contents'[i] = Tail(Contents)[i]
    <3>1. /\ i - 1 \in 0..(count - 2) /\ (i - 1) + 1 = i /\ i + 1 \in 1..count
          /\ (i + 1) - 1 = i /\ i \in 1..count'
      BY <1>1, <1>4
    <3>2. Contents'[i] = items'[Slot(i - 1)']
      BY <1>5, <3>1
    <3>3. items'[Slot(i - 1)'] = items[Slot(i)]
      BY <1>1, <3>1
    <3>4. Contents[i + 1] = items[Slot(i)]
      BY <1>4, <3>1
    <3> QED
      BY <2>1, <3>2, <3>3, <3>4
  <2> QED
    BY <1>1, <1>5, <2>1, <2>2
<1> QED
  BY <1>2, <1>3, <1>6, <1>7 DEF Fifo!Take

(* The last close of a side closes it, the others do nothing; the last     *)
(* receiver discards the queue.                                            *)
LEMMA Closes ==
  ASSUME IInv, IInv', NEW e \in Endpoints, dream_channel_close(e)
  PROVE  Fifo!CloseSend \/ Fifo!CloseReceive \/ UNCHANGED Fifo!vars
<1>1. /\ send_closed \in BOOLEAN /\ receive_closed \in BOOLEAN
      /\ send_closed' \in BOOLEAN /\ receive_closed' \in BOOLEAN
      /\ UNCHANGED <<bounded, sends, inbox>> /\ capacity' = capacity
  BY DEF IInv, TypeOK, dream_channel_close, ringVars
<1>2. Accepted' = Accepted /\ Room' = Room
  BY <1>1 DEF Accepted, Room
<1>3. CASE e \in Senders
  <2>1. /\ send_closed' = (send_closed \/ senders = 1)
        /\ UNCHANGED <<receive_closed, ringVars>>
    BY <1>3 DEF dream_channel_close
  <2>2. Contents' = Contents
    BY <2>1 DEF Contents, ringVars
  <2>3. CASE send_closed'
    <3>1. Closed' = Closed \cup {"send"}
      BY <1>1, <2>1, <2>3 DEF Closed
    <3> QED
      BY <1>1, <1>2, <2>2, <3>1 DEF Fifo!CloseSend
  <2>4. CASE ~send_closed'
    BY <1>1, <2>1, <2>4, Stutters
  <2> QED
    BY <2>3, <2>4
<1>4. CASE e \in Receivers
  <2>1. /\ receive_closed' = (receive_closed \/ receivers = 1) /\ UNCHANGED send_closed
        /\ IF receivers = 1 THEN count' = 0 ELSE UNCHANGED ringVars
    BY <1>4, SidesDiffer DEF dream_channel_close
  <2>2. CASE receivers = 1
    <3>1. Closed' = Closed \cup {"receive"}
      BY <1>1, <2>1, <2>2 DEF Closed
    <3>2. Contents' = <<>>
      <4>1. (Contents \in Seq(Values) /\ Len(Contents) = count)'
        BY ContentsFacts, PTL
      <4> QED
        BY <2>1, <2>2, <4>1
    <3> QED
      BY <1>1, <1>2, <3>1, <3>2 DEF Fifo!CloseReceive
  <2>3. CASE receivers # 1
    <3>1. receive_closed' = receive_closed
      BY <1>1, <2>1, <2>3
    <3> QED
      BY <1>1, <2>1, <2>3, <3>1, Stutters
  <2> QED
    BY <2>2, <2>3
<1> QED
  BY <1>3, <1>4, SidesDiffer

LEMMA FifoInit == Init => Fifo!Init
<1> SUFFICES ASSUME Init PROVE Fifo!Init
  OBVIOUS
<1>1. IInv
  BY InitIInv
<1>2. Contents = <<>>
  BY <1>1, ContentsFacts DEF Init
<1>3. Closed = {}
  BY DEF Init, Closed
<1>4. Accepted = {}
  <2> SUFFICES ASSUME NEW v \in Values PROVE ~(v[2] <= sends[v[1]])
    BY DEF Accepted
  <2>1. v[1] \in Senders /\ v[2] \in Nat /\ v[2] >= 1
    BY MaxSendsType DEF Values
  <2> QED
    BY <2>1 DEF Init
<1>5. Room \in Nat
  BY <1>1 DEF Room, IInv, TypeOK
<1> QED
  BY <1>2, <1>3, <1>4, <1>5 DEF Fifo!Init, Init

LEMMA FifoStep == IInv /\ IInv' /\ [Next]_vars => [Fifo!Next]_(Fifo!vars)
<1> SUFFICES ASSUME IInv, IInv', [Next]_vars
             PROVE  Fifo!Next \/ UNCHANGED Fifo!vars
  OBVIOUS
<1> DEFINE Goal == Fifo!Next \/ UNCHANGED Fifo!vars
<1>1. ASSUME UNCHANGED <<ringVars, bounded, send_closed, receive_closed, sends, inbox>>
      PROVE  Goal
  BY <1>1, Stutters
<1>2. CASE UNCHANGED vars
  BY <1>1, <1>2 DEF vars, stateVars, callVars
<1>3. ASSUME NEW e \in Endpoints, dream_channel_endpoint(e) PROVE Goal
  BY <1>1, <1>3 DEF dream_channel_endpoint
<1>4. ASSUME NEW e \in Endpoints, dream_channel_close(e) PROVE Goal
  BY <1>4, Closes DEF Fifo!Next
<1>5. ASSUME NEW e \in Endpoints, NEW b \in BOOLEAN, Start(e, b) PROVE Goal
  BY <1>1, <1>5 DEF Start, stateVars
<1>6. ASSUME NEW s \in Senders, dream_channel_send(s) PROVE Goal
  <2>1. CASE Refused(s) \/ Full
    BY <1>1, <1>6, <2>1 DEF dream_channel_send, Refused, Full, stateVars
  <2>2. CASE ~Refused(s) /\ ~Full
    <3>1. <<s, sends[s] + 1>> \in Values
      BY <1>6, <2>2, SendRing
    <3>2. Fifo!Put(<<s, sends[s] + 1>>)
      BY <1>6, <2>2, Puts
    <3> QED
      BY <3>1, <3>2 DEF Fifo!Next
  <2> QED
    BY <2>1, <2>2
<1>7. ASSUME NEW r \in Receivers, dream_channel_receive(r) PROVE Goal
  <2>1. CASE Nothing(r)
    BY <1>1, <1>7, <2>1 DEF dream_channel_receive, Nothing, stateVars
  <2>2. CASE ~Nothing(r)
    BY <1>7, <2>2, Takes DEF Fifo!Next
  <2> QED
    BY <2>1, <2>2
<1>8. ASSUME NEW r \in Receivers, dream_channel_status(r) PROVE Goal
  BY <1>1, <1>8 DEF dream_channel_status, stateVars
<1>9. ASSUME NEW e \in Endpoints, dream_channel_wait(e) PROVE Goal
  BY <1>1, <1>9 DEF dream_channel_wait, stateVars
<1>10. ASSUME NEW e \in Endpoints,
              CheckToken(e) \/ WaitCompleted(e) \/ WaitCancelled(e) \/ CancelToken(e)
       PROVE  Goal
  BY <1>1, <1>10 DEF CheckToken, WaitCompleted, WaitCancelled, CancelToken, stateVars
<1> QED
  BY <1>2, <1>3, <1>4, <1>5, <1>6, <1>7, <1>8, <1>9, <1>10 DEF Next, Step

(* The ring of channel.c, growing, wrapping around and discarded by the    *)
(* last receiver, implements the FIFO queue that delivers every accepted   *)
(* value at most once and in order.                                        *)
THEOREM RefinesFifo == Spec => ImplementsFifo
<1>1. Init => Fifo!Init
  BY FifoInit
<1>2. IInv /\ IInv' /\ [Next]_vars => [Fifo!Next]_(Fifo!vars)
  BY FifoStep
<1>3. Spec => []IInv
  BY Inductive
<1> QED
  BY <1>1, <1>2, <1>3, PTL DEF Spec, ImplementsFifo, Fifo!Spec
=============================================================================
