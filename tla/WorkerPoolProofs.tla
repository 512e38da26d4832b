-------------------------- MODULE WorkerPoolProofs --------------------------
(***************************************************************************)
(* Proofs about WorkerPool, for any sessions, jobs and threads, any limit  *)
(* of the pool and any number of refused thread creations.                 *)
(***************************************************************************)
EXTENDS WorkerPool, FiniteSetTheorems, TLAPS

Distinct(q) == \A i, j \in 1..Len(q) : q[i] = q[j] => i = j

(* Which threads have a session, and which are on the idle list.           *)
ServedPCs == {"serve", "cond", "resume", "run", "blocked", "reply", "finish", "deliver"}
ThreadsRight ==
    /\ Distinct(idle)
    /\ \A t \in Threads :
          /\ tw[t] # None <=> \/ tpc[t] \in ServedPCs
                              \/ tpc[t] \in {"deliver_park", "park"} /\ word[t] = "ASSIGNED"
          /\ t \in Elems(idle) <=> /\ tpc[t] \in {"deliver_park", "park", "parked"}
                                   /\ word[t] # "ASSIGNED"
          /\ word[t] = "PARKED" <=> tpc[t] = "parked"

(* BoundOnce, with at most one server and one binding dispatch.            *)
Serves(s) == \E t \in Threads : tw[t] = s
Binds(s) == \E j \in Jobs : On[j] = s /\ dpc[j] = "bind"
Queued(s) == s \in Elems(runq)
Unqueuing(s) == xpc[s] = "unbind"
Exclusive ==
    /\ Distinct(runq)
    /\ \A t, u \in Threads : tw[t] = tw[u] /\ tw[t] # None => t = u
    /\ \A j, k \in Jobs : dpc[j] = "bind" /\ dpc[k] = "bind" /\ On[j] = On[k] => j = k
    /\ \A s \in Sessions :
          One(Serves(s)) + One(Binds(s)) + One(Queued(s)) + One(Unqueuing(s)) = One(w[s].bound)

(* A job is active while a thread runs it; a thread that keeps the future  *)
(* of a one-shot session takes no other job.                               *)
RunsRight ==
    /\ \A s \in Sessions :
          /\ w[s].busy <=> \E t \in Threads : tw[t] = s /\ tpc[t] \in {"run", "blocked"}
          /\ w[s].active # None => w[s].busy
    /\ \A t \in Threads :
          /\ tf[t] # None =>
                \/ tpc[t] \in {"reply", "after", "deliver", "deliver_exit", "deliver_park"}
                \/ tpc[t] \in {"serve", "finish"} /\ w[tw[t]].dead
          /\ tpc[t] = "reply" /\ tw[t] \in OneShot => w[tw[t]].dead

(* A queued job has a bound session that is not dead.                      *)
QueuesRight ==
    \A s \in Sessions :
        /\ Distinct(w[s].queue)
        /\ w[s].queue # <<>> => w[s].bound /\ ~w[s].dead
        /\ s \in OneShot => Len(w[s].queue) <= 1 /\ (w[s].busy => w[s].queue = <<>>)
        /\ xpc[s] \notin {"new", "stop"} \/ spc[s] \notin {"new", "stop"} => w[s].dead

(* A job's future never leaves its session.                                *)
Home ==
    /\ \A s \in Sessions :
          /\ xf[s] # {} => xpc[s] = "complete"
          /\ sf[s] # {} => spc[s] = "complete"
    /\ \A s \in Sessions, j \in Jobs :
          j \in Elems(w[s].queue) \/ w[s].active = j \/ j \in xf[s] \/ j \in sf[s] => On[j] = s

(* FutureConserved, with at most one thread that holds a future.           *)
Unposted(j) == dpc[j] \in {"new", "enqueue", "refused"}
Posted(j) == j \in Elems(w[On[j]].queue)
Running(j) == w[On[j]].active = j
Holds(j) == \E t \in Threads : tf[t] = j
AtTerminate(j) == j \in xf[On[j]]
AtShutdown(j) == j \in sf[On[j]]
FutureOnce ==
    /\ \A t, u \in Threads : tf[t] = tf[u] /\ tf[t] # None => t = u
    /\ \A j \in Jobs :
          completed[j] + One(Unposted(j)) + One(Posted(j)) + One(Running(j)) + One(Holds(j))
              + One(AtTerminate(j)) + One(AtShutdown(j)) = 1

(* The references of a session; a freed one has none left.                 *)
Stopping(s) == spc[s] \in {"stop", "complete", "release"}
Ending(s) == xpc[s] \notin {"new", "done"}
Unqueued(s) == xpc[s] \in {"unbind", "unref"}
Calls(s) == Cardinality(Dispatching(s))
RefSum(s) ==
    One(s \in registered) + Calls(s) + One(Stopping(s)) + One(Ending(s))
        + One(Serves(s)) + One(Queued(s)) + One(Unqueued(s))
RefsRight ==
    /\ ~panicked => \A s \in Sessions : w[s].refs = RefSum(s)
    /\ \A s \in Sessions : s \notin spawned \/ s \in freed => w[s].refs = 0

(* A terminated session is not bound, unless it was stopped in a job.      *)
Ends ==
    \A s \in Sessions :
        /\ xpc[s] \in {"release", "done"} /\ ~w[s].detached => ~w[s].bound
        /\ xpc[s] = "wait" => w[s].bound

IInv == /\ TypeOK /\ ThreadsRight /\ PoolAccounting /\ Exclusive /\ RunsRight
        /\ QueuesRight /\ Home /\ FutureOnce /\ RefsRight /\ Ends

-----------------------------------------------------------------------------
(* Sequences without repetition: the run queue, the idle list, job queues. *)

LEMMA EmptyFacts == Elems(<<>>) = {} /\ Distinct(<<>>)
BY DEF Elems, Distinct

LEMMA ElemsType ==
  ASSUME NEW S, NEW q \in Seq(S)
  PROVE  Elems(q) \subseteq S /\ (q # <<>> <=> Elems(q) # {})
<1>1. Len(q) \in Nat /\ \A i \in 1..Len(q) : q[i] \in S
  OBVIOUS
<1>2. q # <<>> => 1 \in 1..Len(q)
  BY <1>1
<1> QED
  BY <1>1, <1>2 DEF Elems

LEMMA AppendFacts ==
  ASSUME NEW S, NEW q \in Seq(S), NEW e \in S
  PROVE  /\ Append(q, e) \in Seq(S) /\ Append(q, e) # <<>>
         /\ Len(Append(q, e)) = Len(q) + 1 /\ Len(q) \in Nat
         /\ Elems(Append(q, e)) = Elems(q) \cup {e}
         /\ Distinct(q) /\ e \notin Elems(q) => Distinct(Append(q, e))
<1>1. /\ Append(q, e) \in Seq(S) /\ Len(Append(q, e)) = Len(q) + 1 /\ Len(q) \in Nat
      /\ \A i \in 1..Len(q) : Append(q, e)[i] = q[i]
      /\ Append(q, e)[Len(q) + 1] = e
  OBVIOUS
<1>2. \A i \in 1..(Len(q) + 1) : i \in 1..Len(q) \/ i = Len(q) + 1
  BY <1>1
<1>3. \A i \in 1..Len(q) : i \in 1..(Len(q) + 1)
  BY <1>1
<1>4. Len(q) + 1 \in 1..(Len(q) + 1)
  BY <1>1
<1>5. Elems(Append(q, e)) = Elems(q) \cup {e}
  BY <1>1, <1>2, <1>3, <1>4 DEF Elems
<1>6. Distinct(q) /\ e \notin Elems(q) => Distinct(Append(q, e))
  BY <1>1, <1>2 DEF Distinct, Elems
<1> QED
  BY <1>1, <1>5, <1>6

LEMMA TailFacts ==
  ASSUME NEW S, NEW q \in Seq(S), q # <<>>, Distinct(q)
  PROVE  /\ Tail(q) \in Seq(S) /\ Distinct(Tail(q))
         /\ Head(q) \in S /\ Head(q) \in Elems(q)
         /\ Elems(Tail(q)) = Elems(q) \ {Head(q)}
         /\ Len(q) \in Nat /\ Len(Tail(q)) = Len(q) - 1
<1>1. /\ Head(q) = q[1] /\ Len(q) \in Nat /\ Len(q) >= 1 /\ Tail(q) \in Seq(S)
      /\ Len(Tail(q)) = Len(q) - 1
      /\ \A i \in 1..(Len(q) - 1) : Tail(q)[i] = q[i + 1]
      /\ q[1] \in S
  OBVIOUS
<1>2. Distinct(Tail(q))
  <2> SUFFICES ASSUME NEW i \in 1..Len(Tail(q)), NEW j \in 1..Len(Tail(q)),
                      Tail(q)[i] = Tail(q)[j]
               PROVE  i = j
    BY DEF Distinct
  <2>1. i + 1 \in 1..Len(q) /\ j + 1 \in 1..Len(q) /\ q[i + 1] = q[j + 1]
    BY <1>1
  <2>2. i + 1 = j + 1
    BY <2>1 DEF Distinct
  <2> QED
    BY <1>1, <2>2
<1>3. Head(q) \in Elems(q)
  <2>1. 1 \in 1..Len(q)
    BY <1>1
  <2> QED
    BY <1>1, <2>1 DEF Elems
<1>4. ASSUME NEW e PROVE e \in Elems(Tail(q)) <=> e \in Elems(q) /\ e # q[1]
  <2>1. ASSUME e \in Elems(Tail(q)) PROVE e \in Elems(q) /\ e # q[1]
    <3>1. PICK i \in 1..Len(Tail(q)) : Tail(q)[i] = e
      BY <2>1 DEF Elems
    <3>2. i + 1 \in 1..Len(q) /\ q[i + 1] = e /\ i + 1 # 1 /\ 1 \in 1..Len(q)
      BY <1>1, <3>1
    <3> QED
      BY <3>2 DEF Elems, Distinct
  <2>2. ASSUME e \in Elems(q), e # q[1] PROVE e \in Elems(Tail(q))
    <3>1. PICK i \in 1..Len(q) : q[i] = e
      BY <2>2 DEF Elems
    <3>2. i - 1 \in 1..Len(Tail(q)) /\ Tail(q)[i - 1] = e
      BY <1>1, <2>2, <3>1
    <3> QED
      BY <3>2 DEF Elems
  <2> QED
    BY <2>1, <2>2
<1> QED
  BY <1>1, <1>2, <1>3, <1>4

(* A thread goes to the front of the idle list. *)
LEMMA PushFacts ==
  ASSUME NEW S, NEW q \in Seq(S), NEW e \in S, Distinct(q), e \notin Elems(q)
  PROVE  /\ <<e>> \o q \in Seq(S) /\ Distinct(<<e>> \o q)
         /\ Elems(<<e>> \o q) = Elems(q) \cup {e}
<1> DEFINE u == <<e>> \o q
<1>1. /\ u \in Seq(S) /\ Len(u) = Len(q) + 1 /\ Len(q) \in Nat
      /\ u[1] = e /\ \A i \in 1..Len(q) : u[i + 1] = q[i]
  OBVIOUS
<1> HIDE DEF u
<1>2. \A i \in 1..Len(u) : i = 1 \/ (i - 1 \in 1..Len(q) /\ u[i] = q[i - 1])
  <2> SUFFICES ASSUME NEW i \in 1..Len(u), i # 1
               PROVE  i - 1 \in 1..Len(q) /\ u[i] = q[i - 1]
    OBVIOUS
  <2>1. i - 1 \in 1..Len(q) /\ (i - 1) + 1 = i
    BY <1>1
  <2> QED
    BY <1>1, <2>1
<1>3. 1 \in 1..Len(u) /\ \A i \in 1..Len(q) : i + 1 \in 1..Len(u)
  BY <1>1
<1>4. Elems(u) = Elems(q) \cup {e}
  <2>1. ASSUME NEW x \in Elems(u) PROVE x \in Elems(q) \cup {e}
    <3>1. PICK i \in 1..Len(u) : u[i] = x
      BY <2>1 DEF Elems
    <3> QED
      BY <1>1, <1>2, <3>1 DEF Elems
  <2>2. ASSUME NEW x \in Elems(q) \cup {e} PROVE x \in Elems(u)
    <3>1. CASE x = e
      BY <1>1, <1>3, <3>1 DEF Elems
    <3>2. CASE x \in Elems(q)
      <4>1. PICK i \in 1..Len(q) : q[i] = x
        BY <3>2 DEF Elems
      <4> QED
        BY <1>1, <1>3, <4>1 DEF Elems
    <3> QED
      BY <3>1, <3>2
  <2> QED
    BY <2>1, <2>2
<1>5. Distinct(u)
  <2> SUFFICES ASSUME NEW i \in 1..Len(u), NEW j \in 1..Len(u), u[i] = u[j]
               PROVE  i = j
    BY DEF Distinct
  <2>1. CASE i = 1
    BY <1>1, <1>2, <2>1 DEF Elems
  <2>2. CASE j = 1
    BY <1>1, <1>2, <2>2 DEF Elems
  <2>3. CASE i # 1 /\ j # 1
    <3>1. i - 1 \in 1..Len(q) /\ j - 1 \in 1..Len(q) /\ q[i - 1] = q[j - 1]
      BY <1>2, <2>3
    <3>2. i - 1 = j - 1
      BY <3>1 DEF Distinct
    <3> QED
      BY <1>1, <3>2
  <2> QED
    BY <2>1, <2>2, <2>3
<1> QED
  BY <1>1, <1>4, <1>5 DEF u

(* Taking one element out. *)
LEMMA WithoutFacts ==
  ASSUME NEW S, NEW q \in Seq(S), Distinct(q), NEW e
  PROVE  /\ Without(q, e) \in Seq(S) /\ Distinct(Without(q, e))
         /\ \A x : x \in Elems(Without(q, e)) <=> x \in Elems(q) /\ x # e
<1>1. CASE e \notin Elems(q)
  BY <1>1 DEF Without, Elems
<1>2. CASE e \in Elems(q)
  <2> DEFINE i == CHOOSE i \in 1..Len(q) : q[i] = e
             n == Len(q)
             p == SubSeq(q, 1, i - 1)
             t == SubSeq(q, i + 1, n)
             u == p \o t
  <2>1. i \in 1..n /\ q[i] = e
    BY <1>2 DEF Elems
  <2> HIDE DEF i
  <2>2. n \in Nat /\ \A k \in 1..n : q[k] \in S
    OBVIOUS
  <2>3. /\ p \in Seq(S) /\ Len(p) = i - 1
        /\ \A k \in 1..(i - 1) : p[k] = q[k]
    BY <2>1, <2>2
  <2>4. /\ t \in Seq(S) /\ Len(t) = n - i
        /\ \A k \in 1..(n - i) : t[k] = q[i + k]
    BY <2>1, <2>2
  <2> HIDE DEF p, t
  <2>5. /\ u \in Seq(S) /\ Len(u) = n - 1
        /\ \A k \in 1..(n - 1) : u[k] = IF k < i THEN q[k] ELSE q[k + 1]
    <3>1. u \in Seq(S) /\ Len(u) = (i - 1) + (n - i)
      BY <2>3, <2>4
    <3>2. \A k \in 1..(n - 1) : u[k] = IF k <= Len(p) THEN p[k] ELSE t[k - Len(p)]
      BY <2>1, <2>2, <2>3, <2>4
    <3>3. ASSUME NEW k \in 1..(n - 1)
          PROVE  u[k] = IF k < i THEN q[k] ELSE q[k + 1]
      <4>1. CASE k < i
        BY <2>1, <2>2, <2>3, <3>2, <4>1
      <4>2. CASE k >= i
        <5>1. k - Len(p) = k - i + 1 /\ k - i + 1 \in 1..(n - i) /\ i + (k - i + 1) = k + 1
          BY <2>1, <2>2, <2>3, <4>2
        <5>2. ~(k <= Len(p))
          BY <2>1, <2>3, <4>2
        <5>3. u[k] = t[k - Len(p)]
          BY <3>2, <5>2
        <5> QED
          BY <2>1, <2>4, <4>2, <5>1, <5>3
      <4>3. k < i \/ k >= i
        BY <2>1, <2>2
      <4> QED
        BY <4>1, <4>2, <4>3, Zenon
    <3> QED
      BY <2>1, <2>2, <3>1, <3>3
  <2>6. Without(q, e) = u
    BY <1>2 DEF Without, i, p, t
  <2> HIDE DEF u
  <2>7. Distinct(u)
    <3> SUFFICES ASSUME NEW j \in 1..Len(u), NEW k \in 1..Len(u), u[j] = u[k]
                 PROVE  j = k
      BY DEF Distinct
    <3> DEFINE f(x) == IF x < i THEN x ELSE x + 1
    <3>1. /\ f(j) \in 1..n /\ f(k) \in 1..n /\ q[f(j)] = q[f(k)]
          /\ j \in Nat /\ k \in Nat
      BY <2>1, <2>2, <2>5
    <3>2. f(j) = f(k)
      BY <3>1 DEF Distinct
    <3> QED
      BY <2>1, <3>1, <3>2
  <2>8. ASSUME NEW x PROVE x \in Elems(u) <=> x \in Elems(q) /\ x # e
    <3>1. ASSUME x \in Elems(u) PROVE x \in Elems(q) /\ x # e
      <4>1. PICK k \in 1..(n - 1) : u[k] = x
        BY <2>5, <3>1 DEF Elems
      <4>2. CASE k < i
        BY <2>1, <2>2, <2>5, <4>1, <4>2 DEF Elems, Distinct
      <4>3. CASE k >= i
        <5>1. k + 1 \in 1..n /\ q[k + 1] = x /\ k + 1 # i
          BY <2>1, <2>2, <2>5, <4>1, <4>3
        <5> QED
          BY <2>1, <5>1 DEF Elems, Distinct
      <4> QED
        BY <2>1, <4>2, <4>3
    <3>2. ASSUME x \in Elems(q), x # e PROVE x \in Elems(u)
      <4>1. PICK k \in 1..n : q[k] = x
        BY <3>2 DEF Elems
      <4>2. CASE k < i
        BY <2>1, <2>2, <2>5, <4>1, <4>2 DEF Elems
      <4>3. CASE k > i
        <5>1. k - 1 \in 1..(n - 1) /\ ~(k - 1 < i) /\ (k - 1) + 1 = k
          BY <2>1, <2>2, <4>1, <4>3
        <5>2. u[k - 1] = x
          BY <2>5, <4>1, <5>1
        <5> QED
          BY <2>5, <5>1, <5>2 DEF Elems
      <4> QED
        BY <2>1, <2>2, <3>2, <4>1, <4>2, <4>3
    <3> QED
      BY <3>1, <3>2
  <2> QED
    BY <2>5, <2>6, <2>7, <2>8
<1> QED
  BY <1>1, <1>2

-----------------------------------------------------------------------------
(* Types and counting.                                                     *)

Session == [refs : Nat, queue : Seq(Jobs), active : Jobs \cup {None}, busy : BOOLEAN,
            dead : BOOLEAN, bound : BOOLEAN, parked : BOOLEAN, detached : BOOLEAN]
ThreadPCs == {"none", "serve", "cond", "resume", "run", "blocked", "reply", "finish",
              "after", "deliver", "deliver_exit", "deliver_park", "park", "parked"}
DispatchPCs == {"new", "enqueue", "bind", "refused", "release", "done"}
InCall == {"enqueue", "bind", "refused", "release"}
EndPCs == {"new", "stop", "complete", "unqueue", "unbind", "unref", "look", "wait",
           "release", "done"}

LEMMA Typed ==
  ASSUME IInv
  PROVE  /\ w \in [Sessions -> Session]
         /\ spawned \subseteq Sessions /\ registered \subseteq spawned
         /\ freed \subseteq spawned
         /\ runq \in Seq(Sessions) /\ running \in Nat /\ injected \in Nat
         /\ idle \in Seq(Threads) /\ refusals \in 0..MaxRefusals
         /\ tpc \in [Threads -> ThreadPCs]
         /\ word \in [Threads -> {"IDLE", "ASSIGNED", "PARKED"}]
         /\ tw \in [Threads -> Sessions \cup {None}]
         /\ tj \in [Threads -> Jobs \cup {None}]
         /\ tf \in [Threads -> Jobs \cup {None}]
         /\ dpc \in [Jobs -> DispatchPCs]
         /\ xpc \in [Sessions -> EndPCs] /\ xf \in [Sessions -> SUBSET Jobs]
         /\ spc \in [Sessions -> {"new", "stop", "complete", "release", "done"}]
         /\ sf \in [Sessions -> SUBSET Jobs]
         /\ completed \in [Jobs -> Nat] /\ On \in [Jobs -> Sessions]
BY TargetAssumption DEF IInv, TypeOK, Session, ThreadPCs, DispatchPCs, EndPCs

LEMMA WType ==
  ASSUME IInv
  PROVE  w \in [Sessions -> Session]
BY Typed

LEMMA DispatchTypes ==
  ASSUME IInv
  PROVE  dpc \in [Jobs -> DispatchPCs] /\ On \in [Jobs -> Sessions]
BY Typed

LEMMA EndTypes ==
  ASSUME IInv
  PROVE  /\ xpc \in [Sessions -> EndPCs] /\ xf \in [Sessions -> SUBSET Jobs]
         /\ spc \in [Sessions -> {"new", "stop", "complete", "release", "done"}]
         /\ sf \in [Sessions -> SUBSET Jobs]
BY Typed

LEMMA ThreadTypes ==
  ASSUME IInv
  PROVE  /\ tpc \in [Threads -> ThreadPCs]
         /\ word \in [Threads -> {"IDLE", "ASSIGNED", "PARKED"}]
         /\ tw \in [Threads -> Sessions \cup {None}]
         /\ tj \in [Threads -> Jobs \cup {None}]
         /\ tf \in [Threads -> Jobs \cup {None}]
BY Typed

LEMMA Apart == None \notin Sessions /\ None \notin Jobs
BY NoneAssumption

(* A set with at most one element. *)
LEMMA CardOne ==
  ASSUME NEW S, \A x, y \in S : x = y
  PROVE  Cardinality(S) = One(S # {})
<1>1. CASE S = {}
  BY <1>1, FS_EmptySet DEF One
<1>2. CASE S # {}
  <2>1. PICK x \in S : S = {x}
    BY <1>2
  <2> QED
    BY <1>2, <2>1, FS_Singleton DEF One
<1> QED
  BY <1>1, <1>2

Counted == {t \in Threads : CountedThread(t)}

LEMMA CountType ==
  ASSUME IInv
  PROVE  /\ IsFiniteSet(Counted) /\ running = Cardinality(Counted) /\ running \in Nat
         /\ \A t \in Threads : CountedThread(t) => running # 0
<1>1. IsFiniteSet(Counted)
  BY SetsFinite, FS_Subset DEF Counted
<1>2. running = Cardinality(Counted) /\ running \in Nat
  BY <1>1, FS_CardinalityType DEF IInv, PoolAccounting, Counted
<1>3. ASSUME NEW t \in Threads, CountedThread(t) PROVE running # 0
  BY <1>1, <1>2, <1>3, FS_EmptySet DEF Counted
<1> QED
  BY <1>1, <1>2, <1>3

(* pool_running, when no thread, one thread or a pair of threads changes.  *)
LEMMA CountSame ==
  ASSUME IInv, \A x \in Threads : CountedThread(x)' <=> CountedThread(x), running' = running
  PROVE  PoolAccounting'
BY DEF IInv, PoolAccounting

LEMMA CountLess ==
  ASSUME IInv, NEW t \in Threads, CountedThread(t), ~CountedThread(t)',
         \A x \in Threads : x # t => (CountedThread(x)' <=> CountedThread(x)),
         running' = running - 1
  PROVE  PoolAccounting' /\ running' \in Nat
<1>1. Counted' = Counted \ {t} /\ t \in Counted
  BY DEF Counted
<1>2. Cardinality(Counted \ {t}) = Cardinality(Counted) - 1 /\ running # 0
  BY <1>1, CountType, FS_RemoveElement
<1> QED
  BY <1>1, <1>2, CountType DEF PoolAccounting, Counted

LEMMA CountMore ==
  ASSUME IInv, NEW t \in Threads, ~CountedThread(t), CountedThread(t)',
         \A x \in Threads : x # t => (CountedThread(x)' <=> CountedThread(x)),
         running' = running + 1
  PROVE  PoolAccounting'
<1>1. Counted' = Counted \cup {t} /\ t \notin Counted
  BY DEF Counted
<1>2. Cardinality(Counted \cup {t}) = Cardinality(Counted) + 1
  BY <1>1, CountType, FS_AddElement
<1> QED
  BY <1>1, <1>2, CountType DEF PoolAccounting, Counted

LEMMA CountSwap ==
  ASSUME IInv, NEW t \in Threads, NEW u \in Threads, t # u,
         CountedThread(t), ~CountedThread(t)', ~CountedThread(u), CountedThread(u)',
         \A x \in Threads : x # t /\ x # u => (CountedThread(x)' <=> CountedThread(x)),
         running' = running
  PROVE  PoolAccounting'
<1> DEFINE B == Counted \ {t}
<1>1. Counted' = B \cup {u} /\ t \in Counted /\ u \notin B
  BY DEF Counted
<1>2. Cardinality(B) = Cardinality(Counted) - 1 /\ IsFiniteSet(B)
  BY <1>1, CountType, FS_RemoveElement
<1>3. Cardinality(B \cup {u}) = Cardinality(B) + 1
  BY <1>1, <1>2, FS_AddElement
<1> HIDE DEF B
<1> QED
  BY <1>1, <1>2, <1>3, CountType DEF PoolAccounting, Counted

(* The dispatches that hold a reference, when one of them moves.           *)
LEMMA InCallType ==
  ASSUME IInv, NEW s \in Sessions
  PROVE  /\ IsFiniteSet(Dispatching(s)) /\ Calls(s) \in Nat
         /\ \A j \in Jobs : On[j] = s /\ dpc[j] \in InCall => Calls(s) >= 1
<1>1. IsFiniteSet(Dispatching(s))
  BY SetsFinite, FS_Subset DEF Dispatching
<1>2. Calls(s) \in Nat
  BY <1>1, FS_CardinalityType DEF Calls
<1>3. ASSUME NEW j \in Jobs, On[j] = s, dpc[j] \in InCall
      PROVE  Calls(s) >= 1
  <2>1. j \in Dispatching(s)
    BY <1>3 DEF Dispatching, InCall
  <2> QED
    BY <1>1, <1>2, <2>1, FS_EmptySet DEF Calls
<1> QED
  BY <1>1, <1>2, <1>3

LEMMA InCallTwo ==
  ASSUME IInv, NEW s \in Sessions, NEW j \in Jobs, NEW k \in Jobs, j # k,
         On[j] = s, On[k] = s, dpc[j] \in InCall, dpc[k] \in InCall
  PROVE  Calls(s) >= 2
<1> DEFINE B == Dispatching(s) \ {j}
<1>1. j \in Dispatching(s) /\ k \in B
  BY DEF Dispatching, InCall
<1>2. IsFiniteSet(B) /\ Cardinality(B) = Calls(s) - 1
  BY <1>1, InCallType, FS_RemoveElement DEF Calls
<1>3. Cardinality(B) \in Nat /\ Cardinality(B) # 0
  BY <1>1, <1>2, FS_CardinalityType, FS_EmptySet
<1> QED
  BY <1>2, <1>3, InCallType

LEMMA InCallMoves ==
  ASSUME IInv, NEW j \in Jobs, NEW s \in Sessions,
         \A x \in Jobs : x # j => dpc'[x] = dpc[x]
  PROVE  /\ On[j] # s \/ (dpc[j] \in InCall <=> dpc'[j] \in InCall) =>
               Calls(s)' = Calls(s)
         /\ On[j] = s /\ dpc[j] \notin InCall /\ dpc'[j] \in InCall =>
               Calls(s)' = Calls(s) + 1
         /\ On[j] = s /\ dpc[j] \in InCall /\ dpc'[j] \notin InCall =>
               Calls(s)' = Calls(s) - 1
<1>1. Dispatching(s)' = {x \in Jobs : On[x] = s /\ dpc'[x] \in InCall}
  BY DEF Dispatching, InCall
<1>2. Dispatching(s) = {x \in Jobs : On[x] = s /\ dpc[x] \in InCall}
  BY DEF Dispatching, InCall
<1>3. ASSUME On[j] # s \/ (dpc[j] \in InCall <=> dpc'[j] \in InCall)
      PROVE  Dispatching(s)' = Dispatching(s)
  BY <1>1, <1>2, <1>3
<1>4. ASSUME On[j] = s, dpc[j] \notin InCall, dpc'[j] \in InCall
      PROVE  Calls(s)' = Calls(s) + 1
  <2>1. Dispatching(s)' = Dispatching(s) \cup {j} /\ j \notin Dispatching(s)
    BY <1>1, <1>2, <1>4
  <2> QED
    BY <2>1, InCallType, FS_AddElement DEF Calls
<1>5. ASSUME On[j] = s, dpc[j] \in InCall, dpc'[j] \notin InCall
      PROVE  Calls(s)' = Calls(s) - 1
  <2>1. Dispatching(s)' = Dispatching(s) \ {j} /\ j \in Dispatching(s)
    BY <1>1, <1>2, <1>5
  <2> QED
    BY <2>1, InCallType, FS_RemoveElement DEF Calls
<1> QED
  BY <1>3, <1>4, <1>5 DEF Calls

(* A session that is referred to has references, and is not freed.         *)
LEMMA Referred ==
  ASSUME IInv, ~panicked, NEW s \in Sessions,
         \/ s \in registered \/ Serves(s) \/ Queued(s) \/ Stopping(s) \/ Ending(s)
         \/ \E j \in Jobs : On[j] = s /\ dpc[j] \in InCall
  PROVE  w[s].refs >= 1 /\ w[s].refs \in Nat /\ s \in spawned /\ s \notin freed
<1>1. w[s].refs = RefSum(s) /\ w[s].refs \in Nat
  BY Typed DEF IInv, RefsRight, Session
<1>2. Calls(s) \in Nat
      /\ ((\E j \in Jobs : On[j] = s /\ dpc[j] \in InCall) => Calls(s) >= 1)
  BY InCallType
<1>3. RefSum(s) >= 1
  BY <1>2 DEF RefSum, One
<1>4. w[s].refs # 0
  BY <1>1, <1>3
<1> QED
  BY <1>1, <1>3, <1>4 DEF IInv, RefsRight

LEMMA Serving ==
  ASSUME IInv, NEW t \in Threads, tpc[t] \in ServedPCs
  PROVE  tw[t] \in Sessions
BY Typed DEF IInv, ThreadsRight

(* Completing a set of futures. *)
LEMMA Completes ==
  ASSUME IInv, NEW K, complete(K)
  PROVE  /\ completed' \in [Jobs -> Nat]
         /\ \A y \in Jobs : completed'[y] = completed[y] + One(y \in K)
<1>1. \A y \in Jobs : completed[y] \in Nat
  BY Typed
<1>2. \A y \in Jobs : completed'[y] = completed[y] + One(y \in K)
  BY DEF complete, One
<1>3. completed' = [y \in Jobs |-> completed[y] + One(y \in K)]
  BY DEF complete, One
<1> QED
  BY <1>1, <1>2, <1>3 DEF One

-----------------------------------------------------------------------------
(* Steps that leave a part of the invariant alone.                         *)

LEMMA KeepExclusive ==
  ASSUME IInv, tw' = tw, runq' = runq,
         \A y \in Jobs : dpc'[y] = "bind" <=> dpc[y] = "bind",
         \A x \in Sessions : xpc'[x] = "unbind" <=> xpc[x] = "unbind",
         \A x \in Sessions : w'[x].bound <=> w[x].bound
  PROVE  Exclusive'
<1>1. ASSUME NEW x \in Sessions
      PROVE  /\ Serves(x)' <=> Serves(x)
             /\ Binds(x)' <=> Binds(x)
             /\ Queued(x)' <=> Queued(x)
             /\ Unqueuing(x)' <=> Unqueuing(x)
  BY DEF Serves, Binds, Queued, Unqueuing
<1>2. ASSUME NEW x \in Sessions
      PROVE  One(Serves(x)') + One(Binds(x)') + One(Queued(x)') + One(Unqueuing(x)')
                 = One(w'[x].bound)
  <2>1. One(Serves(x)) + One(Binds(x)) + One(Queued(x)) + One(Unqueuing(x)) = One(w[x].bound)
    BY DEF IInv, Exclusive
  <2> QED
    BY <1>1, <2>1 DEF One
<1> QED
  BY <1>2 DEF IInv, Exclusive

LEMMA KeepFuture ==
  ASSUME IInv, tf' = tf, xf' = xf, sf' = sf, completed' = completed,
         \A y \in Jobs : Unposted(y)' <=> Unposted(y),
         \A x \in Sessions : w'[x].queue = w[x].queue /\ w'[x].active = w[x].active
  PROVE  FutureOnce'
<1>1. ASSUME NEW y \in Jobs
      PROVE  /\ Posted(y)' <=> Posted(y)
             /\ Running(y)' <=> Running(y)
             /\ Holds(y)' <=> Holds(y)
             /\ AtTerminate(y)' <=> AtTerminate(y)
             /\ AtShutdown(y)' <=> AtShutdown(y)
  <2>1. On[y] \in Sessions
    BY Typed
  <2> QED
    BY <2>1 DEF Posted, Running, Holds, AtTerminate, AtShutdown
<1>2. ASSUME NEW y \in Jobs
      PROVE  completed'[y] + One(Unposted(y)') + One(Posted(y)') + One(Running(y)')
                 + One(Holds(y)') + One(AtTerminate(y)') + One(AtShutdown(y)') = 1
  <2>1. completed[y] + One(Unposted(y)) + One(Posted(y)) + One(Running(y))
            + One(Holds(y)) + One(AtTerminate(y)) + One(AtShutdown(y)) = 1
    BY DEF IInv, FutureOnce
  <2> QED
    BY <1>1, <2>1 DEF One
<1> QED
  BY <1>2 DEF IInv, FutureOnce

LEMMA KeepRefs ==
  ASSUME IInv, ~panicked, tw' = tw, runq' = runq, registered' = registered,
         spawned' = spawned, freed' = freed,
         \A x \in Sessions : /\ Stopping(x)' <=> Stopping(x)
                             /\ Ending(x)' <=> Ending(x)
                             /\ Unqueued(x)' <=> Unqueued(x)
                             /\ Calls(x)' = Calls(x)
                             /\ w'[x].refs = w[x].refs
  PROVE  RefsRight'
<1>1. ASSUME NEW x \in Sessions
      PROVE  /\ Serves(x)' <=> Serves(x)
             /\ Queued(x)' <=> Queued(x)
             /\ x \in registered' <=> x \in registered
  BY DEF Serves, Queued
<1>2. ASSUME NEW x \in Sessions PROVE w'[x].refs = RefSum(x)'
  <2>1. w[x].refs = RefSum(x) /\ Calls(x) \in Nat
    BY InCallType DEF IInv, RefsRight
  <2> QED
    BY <1>1, <2>1 DEF RefSum, One
<1> QED
  BY <1>2 DEF IInv, RefsRight

LEMMA KeepThreads ==
  ASSUME IInv, tpc' = tpc, word' = word, tw' = tw, idle' = idle
  PROVE  ThreadsRight'
BY DEF IInv, ThreadsRight

LEMMA KeepRuns ==
  ASSUME IInv, tpc' = tpc, tw' = tw, tf' = tf,
         \A x \in Sessions : /\ w'[x].busy <=> w[x].busy
                             /\ w'[x].active = w[x].active
                             /\ w'[x].dead <=> w[x].dead
  PROVE  RunsRight'
BY Serving DEF IInv, RunsRight, ServedPCs

LEMMA KeepCount ==
  ASSUME IInv, tpc' = tpc, word' = word, running' = running
  PROVE  PoolAccounting'
BY DEF IInv, PoolAccounting, CountedThread

LEMMA KeepCalls ==
  ASSUME dpc' = dpc, NEW x \in Sessions
  PROVE  Calls(x)' = Calls(x)
BY DEF Calls, Dispatching

-----------------------------------------------------------------------------
(* Updates of the session struct.                                          *)

(* What a step may leave alone in the struct of x. *)
SameQueue(x) == w'[x].queue = w[x].queue /\ w'[x].active = w[x].active
SameFlags(x) ==
    /\ w'[x].busy <=> w[x].busy
    /\ w'[x].dead <=> w[x].dead
    /\ w'[x].detached <=> w[x].detached

(* A reference is dropped; only an empty session is freed. *)
LEMMA DropRef ==
  ASSUME IInv, NEW s \in Sessions, drop_ref(s, w[s], {}), w[s].refs # 0,
         w[s].queue # <<>> => w[s].refs # 1
  PROVE  /\ w' \in [Sessions -> Session]
         /\ \A x \in Sessions : /\ w'[x].refs = w[x].refs - One(x = s)
                                /\ SameQueue(x) /\ SameFlags(x)
                                /\ w'[x].bound <=> w[x].bound
         /\ freed' = freed \cup (IF w[s].refs = 1 THEN {s} ELSE {})
         /\ completed' = completed
<1>1. w[s].refs - 1 \in Nat /\ w[s].refs \in Nat
  BY WType DEF Session
<1>2. w' \in [Sessions -> Session]
  BY <1>1, WType DEF Session, drop_ref
<1>3. \A x \in Sessions : x # s => w'[x] = w[x]
  BY WType DEF drop_ref
<1>4. /\ w'[s].refs = w[s].refs - 1
      /\ w'[s].queue = w[s].queue /\ w'[s].active = w[s].active
      /\ w'[s].busy = w[s].busy /\ w'[s].dead = w[s].dead
      /\ w'[s].bound = w[s].bound /\ w'[s].detached = w[s].detached
  BY <1>1, WType DEF Session, drop_ref
<1>5. \A x \in Sessions : w[x].refs \in Nat
  BY WType DEF Session
<1>6. \A x \in Sessions : w'[x].refs = w[x].refs - One(x = s)
  BY <1>3, <1>4, <1>5 DEF One
<1>7. freed' = freed \cup (IF w[s].refs = 1 THEN {s} ELSE {})
  BY DEF drop_ref
<1>8. complete({})
  BY EmptyFacts DEF drop_ref
<1>9. completed' = completed
  BY <1>8, Typed DEF complete
<1> QED
  BY <1>2, <1>3, <1>4, <1>6, <1>7, <1>9 DEF SameQueue, SameFlags

(* A reference is taken. *)
LEMMA TakeRef ==
  ASSUME IInv, NEW s \in Sessions, w' = [w EXCEPT ![s].refs = @ + 1]
  PROVE  /\ w' \in [Sessions -> Session]
         /\ \A x \in Sessions : /\ w'[x].refs = w[x].refs + One(x = s)
                                /\ SameQueue(x) /\ SameFlags(x)
                                /\ w'[x].bound <=> w[x].bound
<1>1. w[s].refs + 1 \in Nat /\ w[s].refs \in Nat
  BY WType DEF Session
<1>2. w' \in [Sessions -> Session]
  BY <1>1, WType DEF Session
<1>3. \A x \in Sessions : x # s => w'[x] = w[x]
  BY WType
<1>4. /\ w'[s].refs = w[s].refs + 1
      /\ w'[s].queue = w[s].queue /\ w'[s].active = w[s].active
      /\ w'[s].busy = w[s].busy /\ w'[s].dead = w[s].dead
      /\ w'[s].bound = w[s].bound /\ w'[s].detached = w[s].detached
  BY <1>1, WType DEF Session
<1>5. \A x \in Sessions : w[x].refs \in Nat
  BY WType DEF Session
<1>6. \A x \in Sessions : w'[x].refs = w[x].refs + One(x = s)
  BY <1>3, <1>4, <1>5 DEF One
<1> QED
  BY <1>2, <1>3, <1>4, <1>6 DEF SameQueue, SameFlags

(* stop_worker. *)
LEMMA StopFacts ==
  ASSUME IInv, NEW s \in Sessions, w' = [w EXCEPT ![s] = Stopped(s)]
  PROVE  /\ w' \in [Sessions -> Session]
         /\ \A x \in Sessions : x # s => w'[x] = w[x]
         /\ w'[s].refs = w[s].refs /\ w'[s].queue = <<>> /\ w'[s].active = None
         /\ w'[s].busy = w[s].busy /\ w'[s].dead /\ w'[s].bound = w[s].bound
         /\ w'[s].detached <=> w[s].detached \/ w[s].busy
<1>1. w[s] \in Session
  BY WType
<1>2. w[s].detached \in BOOLEAN /\ w[s].busy \in BOOLEAN /\ (w[s].detached \/ w[s].busy) \in BOOLEAN
  BY <1>1 DEF Session
<1>3. <<>> \in Seq(Jobs)
  OBVIOUS
<1>4. Stopped(s) \in Session
  BY <1>1, <1>2, <1>3 DEF Session, Stopped
<1>5. /\ Stopped(s).refs = w[s].refs /\ Stopped(s).queue = <<>> /\ Stopped(s).active = None
      /\ Stopped(s).busy = w[s].busy /\ Stopped(s).dead /\ Stopped(s).bound = w[s].bound
  BY <1>1 DEF Session, Stopped
<1>6. Stopped(s).detached <=> w[s].detached \/ w[s].busy
  BY <1>1 DEF Session, Stopped
<1>7. /\ w' \in [Sessions -> Session] /\ w'[s] = Stopped(s)
      /\ \A x \in Sessions : x # s => w'[x] = w[x]
  BY <1>4, WType
<1> QED
  BY <1>5, <1>6, <1>7

(* A session with jobs is held by its thread, the run queue or a binding   *)
(* dispatch, besides the reference of the call that looks at it.           *)
LEMMA QueueHeld ==
  ASSUME IInv, ~panicked, NEW s \in Sessions, w[s].queue # <<>>,
         \/ Stopping(s) \/ Ending(s)
         \/ \E j \in Jobs : On[j] = s /\ dpc[j] = "release"
  PROVE  w[s].refs # 1
<1>1. w[s].refs = RefSum(s) /\ Calls(s) \in Nat
  BY InCallType DEF IInv, RefsRight
<1>2. w[s].bound
  BY DEF IInv, QueuesRight
<1>3. Serves(s) \/ Binds(s) \/ Queued(s) \/ Unqueuing(s)
  BY <1>2 DEF IInv, Exclusive, One
<1>4. Binds(s) \/ (\E j \in Jobs : On[j] = s /\ dpc[j] = "release") => Calls(s) >= 1
  BY InCallType DEF Binds, InCall
<1>5. Binds(s) /\ (\E j \in Jobs : On[j] = s /\ dpc[j] = "release") => Calls(s) >= 2
  <2> SUFFICES ASSUME Binds(s), NEW j \in Jobs, On[j] = s, dpc[j] = "release"
               PROVE  Calls(s) >= 2
    OBVIOUS
  <2>1. PICK k \in Jobs : On[k] = s /\ dpc[k] = "bind"
    BY DEF Binds
  <2> QED
    BY <2>1, InCallTwo DEF InCall
<1>6. Unqueuing(s) => Unqueued(s) /\ Ending(s)
  BY DEF Unqueuing, Unqueued, Ending
<1>7. CASE Serves(s) \/ Queued(s) \/ Unqueuing(s)
  BY <1>1, <1>4, <1>6, <1>7 DEF RefSum, One
<1>8. CASE Binds(s)
  BY <1>1, <1>4, <1>5, <1>8 DEF RefSum, One
<1> QED
  BY <1>3, <1>7, <1>8

(* A step that touches no struct but its reference count and its parked    *)
(* flag, and no terminate or shutdown.                                     *)
LEMMA KeepSessions ==
  ASSUME IInv, xpc' = xpc, spc' = spc, xf' = xf, sf' = sf,
         \A x \in Sessions : /\ SameQueue(x) /\ SameFlags(x)
                             /\ w'[x].bound <=> w[x].bound
  PROVE  QueuesRight' /\ Home' /\ Ends'
<1>1. QueuesRight'
  BY DEF IInv, QueuesRight, SameQueue, SameFlags
<1>2. Home'
  BY DEF IInv, Home, SameQueue
<1>3. Ends'
  BY DEF IInv, Ends, SameFlags
<1> QED
  BY <1>1, <1>2, <1>3

(* Threads that sleep in dream_cond_wait are woken; nobody else moves.     *)
Woken ==
    \A x \in Threads : tpc'[x] = tpc[x] \/ (tpc[x] = "cond" /\ tpc'[x] = "resume")

LEMMA Signals ==
  ASSUME IInv, NEW s \in Sessions, tpc' = Signalled(s)
  PROVE  tpc' \in [Threads -> ThreadPCs] /\ Woken
BY ThreadTypes DEF Signalled, Woken, ThreadPCs

LEMMA WokenThreads ==
  ASSUME IInv, Woken, word' = word, tw' = tw, idle' = idle, running' = running
  PROVE  ThreadsRight' /\ PoolAccounting'
<1>1. ThreadsRight'
  BY DEF IInv, ThreadsRight, Woken, ServedPCs
<1>2. \A x \in Threads : CountedThread(x)' <=> CountedThread(x)
  BY DEF CountedThread, Woken
<1> QED
  BY <1>1, <1>2, CountSame

LEMMA WokenRuns ==
  ASSUME IInv, Woken, tw' = tw, tf' = tf,
         \A x \in Sessions : /\ w'[x].busy <=> w[x].busy
                             /\ w'[x].active = w[x].active \/ w'[x].active = None
                             /\ w[x].dead => w'[x].dead
  PROVE  RunsRight'
<1>1. ASSUME NEW x \in Sessions
      PROVE  /\ w'[x].busy <=> \E t \in Threads : tw'[t] = x /\ tpc'[t] \in {"run", "blocked"}
             /\ w'[x].active # None => w'[x].busy
  <2>1. \A t \in Threads : tpc'[t] \in {"run", "blocked"} <=> tpc[t] \in {"run", "blocked"}
    BY DEF Woken
  <2> QED
    BY <2>1 DEF IInv, RunsRight
<1>2. ASSUME NEW t \in Threads
      PROVE  /\ tf'[t] # None =>
                   \/ tpc'[t] \in {"reply", "after", "deliver", "deliver_exit", "deliver_park"}
                   \/ tpc'[t] \in {"serve", "finish"} /\ w'[tw'[t]].dead
             /\ tpc'[t] = "reply" /\ tw'[t] \in OneShot => w'[tw'[t]].dead
  <2>1. tpc[t] \in {"serve", "finish", "reply"} => tw[t] \in Sessions
    BY Serving DEF ServedPCs
  <2> QED
    BY <2>1 DEF IInv, RunsRight, Woken
<1> QED
  BY <1>1, <1>2 DEF RunsRight

LEMMA KeepHome ==
  ASSUME IInv,
         \A x \in Sessions : SameQueue(x) /\ xf'[x] \subseteq xf[x] /\ sf'[x] \subseteq sf[x],
         \A x \in Sessions : /\ xf'[x] # {} => xpc'[x] = "complete"
                             /\ sf'[x] # {} => spc'[x] = "complete"
  PROVE  Home'
BY DEF IInv, Home, SameQueue

(* A thread moves on with its session, and neither begins nor ends a job.  *)
LEMMA MoveRuns ==
  ASSUME IInv, NEW t \in Threads, tw' = tw,
         \A x \in Threads : x # t => tpc'[x] = tpc[x] /\ tf'[x] = tf[x],
         tpc'[t] \in {"run", "blocked"} <=> tpc[t] \in {"run", "blocked"},
         tpc'[t] # "reply",
         tf'[t] # None => \/ tpc'[t] \in {"after", "deliver", "deliver_exit", "deliver_park"}
                          \/ tpc'[t] \in {"serve", "finish"} /\ w[tw[t]].dead,
         tpc'[t] \in {"serve", "finish"} => tw[t] \in Sessions,
         \A x \in Sessions : SameQueue(x) /\ SameFlags(x)
  PROVE  RunsRight'
<1>1. ASSUME NEW x \in Sessions
      PROVE  /\ w'[x].busy <=> \E p \in Threads : tw'[p] = x /\ tpc'[p] \in {"run", "blocked"}
             /\ w'[x].active # None => w'[x].busy
  <2>1. \A p \in Threads : tpc'[p] \in {"run", "blocked"} <=> tpc[p] \in {"run", "blocked"}
    OBVIOUS
  <2> QED
    BY <2>1 DEF IInv, RunsRight, SameQueue, SameFlags
<1>2. ASSUME NEW p \in Threads
      PROVE  /\ tf'[p] # None =>
                   \/ tpc'[p] \in {"reply", "after", "deliver", "deliver_exit", "deliver_park"}
                   \/ tpc'[p] \in {"serve", "finish"} /\ w'[tw'[p]].dead
             /\ tpc'[p] = "reply" /\ tw'[p] \in OneShot => w'[tw'[p]].dead
  <2>1. tpc[p] \in {"serve", "finish", "reply"} => tw[p] \in Sessions
    BY Serving DEF ServedPCs
  <2> QED
    BY <2>1 DEF IInv, RunsRight, SameFlags
<1> QED
  BY <1>1, <1>2 DEF RunsRight

(* The one thread that serves s. *)
LEMMA ServedBy ==
  ASSUME IInv, NEW t \in Threads, NEW s \in Sessions, tw[t] = s
  PROVE  /\ Serves(s) /\ w[s].bound /\ ~Binds(s) /\ ~Queued(s) /\ ~Unqueuing(s)
         /\ \A x \in Threads : tw[x] = s => x = t
         /\ w[s].busy <=> tpc[t] \in {"run", "blocked"}
         /\ tpc[t] \notin {"run", "blocked"} => w[s].active = None
<1>1. Serves(s) /\ \A x \in Threads : tw[x] = s => x = t
  BY Apart DEF Serves, IInv, Exclusive
<1>2. w[s].bound /\ ~Binds(s) /\ ~Queued(s) /\ ~Unqueuing(s)
  BY <1>1 DEF IInv, Exclusive, One
<1>3. w[s].busy <=> tpc[t] \in {"run", "blocked"}
  BY <1>1 DEF IInv, RunsRight
<1> QED
  BY <1>1, <1>2, <1>3 DEF IInv, RunsRight

(* Dropping the thread's reference together with bound. *)
LEMMA DropBound ==
  ASSUME IInv, NEW s \in Sessions, drop_ref(s, [w[s] EXCEPT !.bound = FALSE], {}),
         w[s].refs # 0, w[s].queue = <<>>
  PROVE  /\ w' \in [Sessions -> Session]
         /\ \A x \in Sessions : /\ w'[x].refs = w[x].refs - One(x = s)
                                /\ SameQueue(x) /\ SameFlags(x)
                                /\ w'[x].bound <=> w[x].bound /\ x # s
         /\ freed' = freed \cup (IF w[s].refs = 1 THEN {s} ELSE {})
         /\ completed' = completed
<1>1. w[s].refs - 1 \in Nat /\ w[s].refs \in Nat
  BY WType DEF Session
<1>2. w' \in [Sessions -> Session]
  BY <1>1, WType DEF Session, drop_ref
<1>3. \A x \in Sessions : x # s => w'[x] = w[x]
  BY WType DEF drop_ref
<1>4. /\ w'[s].refs = w[s].refs - 1
      /\ w'[s].queue = w[s].queue /\ w'[s].active = w[s].active
      /\ w'[s].busy = w[s].busy /\ w'[s].dead = w[s].dead
      /\ ~w'[s].bound /\ w'[s].detached = w[s].detached
  BY <1>1, WType DEF Session, drop_ref
<1>5. \A x \in Sessions : w[x].refs \in Nat
  BY WType DEF Session
<1>6. \A x \in Sessions : w'[x].refs = w[x].refs - One(x = s)
  BY <1>3, <1>4, <1>5 DEF One
<1>7. [w[s] EXCEPT !.bound = FALSE].refs = w[s].refs /\ [w[s] EXCEPT !.bound = FALSE].queue = <<>>
  BY WType DEF Session
<1>8. freed' = freed \cup (IF w[s].refs = 1 THEN {s} ELSE {})
  BY <1>7 DEF drop_ref
<1>9. complete({})
  BY <1>7, EmptyFacts DEF drop_ref
<1>10. completed' = completed
  BY <1>9, Typed DEF complete
<1> QED
  BY <1>2, <1>3, <1>4, <1>6, <1>8, <1>10 DEF SameQueue, SameFlags

-----------------------------------------------------------------------------
(* start_thread.                                                           *)

(* tpc in which some threads have begun to block. *)
Moved(P) ==
    /\ P \in [Threads -> ThreadPCs]
    /\ \A x \in Threads : \/ P[x] = tpc[x]
                          \/ tpc[x] = "serve" /\ P[x] = "cond" /\ tf[x] = None
                          \/ tpc[x] = "run" /\ P[x] = "blocked"

(* The idle or new thread u gets the session s. *)
Started(u, s, P) ==
    /\ tpc[u] \in {"none", "deliver_park", "park", "parked"}
    /\ tw[u] = None /\ ~CountedThread(u)
    /\ tpc' \in [Threads -> ThreadPCs] /\ tw' \in [Threads -> Sessions \cup {None}]
    /\ word' \in [Threads -> {"IDLE", "ASSIGNED", "PARKED"}]
    /\ idle' \in Seq(Threads) /\ Distinct(idle') /\ Elems(idle') = Elems(idle) \ {u}
    /\ tw'[u] = s /\ word'[u] = "ASSIGNED"
    /\ tpc'[u] = IF tpc[u] \in {"deliver_park", "park"} THEN tpc[u] ELSE "serve"
    /\ \A x \in Threads : x # u => tpc'[x] = P[x] /\ word'[x] = word[x] /\ tw'[x] = tw[x]
    /\ refusals' = refusals

LEMMA MovedSame ==
  ASSUME IInv
  PROVE  Moved(tpc)
BY ThreadTypes DEF Moved

LEMMA MovedTypes ==
  ASSUME NEW P, Moved(P)
  PROVE  P \in [Threads -> ThreadPCs]
BY DEF Moved

LEMMA StartThread ==
  ASSUME IInv, NEW P, Moved(P), NEW s \in Sessions, start_thread(s, P)
  PROVE  \E u \in Threads : Started(u, s, P)
<1>1. CASE idle # <<>>
  <2> DEFINE u == Head(idle)
  <2>1. Distinct(idle) /\ idle \in Seq(Threads)
    BY Typed DEF IInv, ThreadsRight
  <2>2. /\ u \in Threads /\ u \in Elems(idle) /\ Tail(idle) \in Seq(Threads)
        /\ Distinct(Tail(idle)) /\ Elems(Tail(idle)) = Elems(idle) \ {u}
    BY <1>1, <2>1, TailFacts
  <2>3. /\ idle' = Tail(idle) /\ word' = [word EXCEPT ![u] = "ASSIGNED"]
        /\ tw' = [tw EXCEPT ![u] = s] /\ refusals' = refusals
        /\ tpc' = IF word[u] = "PARKED" THEN [P EXCEPT ![u] = "serve"] ELSE P
    BY <1>1 DEF start_thread
  <2> HIDE DEF u
  <2>4. /\ tpc[u] \in {"deliver_park", "park", "parked"} /\ word[u] # "ASSIGNED"
        /\ word[u] = "PARKED" <=> tpc[u] = "parked"
    BY <2>2 DEF IInv, ThreadsRight
  <2>5. tw[u] = None /\ ~CountedThread(u)
    BY <2>2, <2>4 DEF IInv, ThreadsRight, ServedPCs, CountedThread
  <2>6. P[u] = tpc[u] /\ P \in [Threads -> ThreadPCs]
    BY <2>2, <2>4 DEF Moved
  <2>7. /\ tpc' \in [Threads -> ThreadPCs] /\ tw' \in [Threads -> Sessions \cup {None}]
        /\ word' \in [Threads -> {"IDLE", "ASSIGNED", "PARKED"}]
    BY <2>2, <2>3, <2>6, ThreadTypes DEF ThreadPCs
  <2>8. /\ tw'[u] = s /\ word'[u] = "ASSIGNED"
        /\ tpc'[u] = IF tpc[u] \in {"deliver_park", "park"} THEN tpc[u] ELSE "serve"
    BY <2>2, <2>3, <2>4, <2>6, ThreadTypes
  <2>9. \A x \in Threads : x # u => tpc'[x] = P[x] /\ word'[x] = word[x] /\ tw'[x] = tw[x]
    BY <2>2, <2>3, <2>6, ThreadTypes
  <2>10. Started(u, s, P)
    BY <2>2, <2>3, <2>4, <2>5, <2>7, <2>8, <2>9 DEF Started
  <2> QED
    BY <2>2, <2>10
<1>2. CASE idle = <<>>
  <2> DEFINE u == CHOOSE x \in Threads : tpc[x] = "none"
  <2>1. u \in Threads /\ tpc[u] = "none"
    BY <1>2 DEF start_thread
  <2>2. /\ idle' = idle /\ word' = [word EXCEPT ![u] = "ASSIGNED"]
        /\ tw' = [tw EXCEPT ![u] = s] /\ refusals' = refusals
        /\ tpc' = [P EXCEPT ![u] = "serve"]
    BY <1>2 DEF start_thread
  <2> HIDE DEF u
  <2>3. tw[u] = None /\ ~CountedThread(u) /\ u \notin Elems(idle)
    BY <2>1 DEF IInv, ThreadsRight, ServedPCs, CountedThread
  <2>4. idle' \in Seq(Threads) /\ Distinct(idle') /\ Elems(idle') = Elems(idle) \ {u}
    BY <2>2, <2>3, Typed DEF IInv, ThreadsRight
  <2>5. P \in [Threads -> ThreadPCs]
    BY DEF Moved
  <2>6. /\ tpc' \in [Threads -> ThreadPCs] /\ tw' \in [Threads -> Sessions \cup {None}]
        /\ word' \in [Threads -> {"IDLE", "ASSIGNED", "PARKED"}]
        /\ tw'[u] = s /\ word'[u] = "ASSIGNED" /\ tpc'[u] = "serve"
        /\ \A x \in Threads : x # u => tpc'[x] = P[x] /\ word'[x] = word[x] /\ tw'[x] = tw[x]
    BY <2>1, <2>2, <2>5, ThreadTypes DEF ThreadPCs
  <2>7. Started(u, s, P)
    BY <2>1, <2>2, <2>3, <2>4, <2>6 DEF Started
  <2> QED
    BY <2>1, <2>7
<1> QED
  BY <1>1, <1>2

LEMMA StartedThreads ==
  ASSUME IInv, NEW P, Moved(P), NEW s \in Sessions, NEW u \in Threads, Started(u, s, P)
  PROVE  ThreadsRight'
<1> SUFFICES ASSUME NEW x \in Threads
             PROVE  /\ tw'[x] # None <=>
                          \/ tpc'[x] \in ServedPCs
                          \/ tpc'[x] \in {"deliver_park", "park"} /\ word'[x] = "ASSIGNED"
                    /\ x \in Elems(idle') <=>
                          tpc'[x] \in {"deliver_park", "park", "parked"} /\ word'[x] # "ASSIGNED"
                    /\ word'[x] = "PARKED" <=> tpc'[x] = "parked"
  BY DEF ThreadsRight, Started
<1>1. CASE x = u
  BY <1>1, Apart DEF Started, ServedPCs
<1>2. CASE x # u
  BY <1>2 DEF IInv, ThreadsRight, Started, Moved, ServedPCs
<1> QED
  BY <1>1, <1>2

LEMMA StartedServes ==
  ASSUME IInv, NEW P, NEW s \in Sessions, NEW u \in Threads, Started(u, s, P), ~Serves(s)
  PROVE  /\ \A x \in Sessions : Serves(x)' <=> Serves(x) \/ x = s
         /\ \A p, q \in Threads : tw'[p] = tw'[q] /\ tw'[p] # None => p = q
<1>1. /\ tw[u] = None /\ tw'[u] = s
      /\ \A x \in Threads : x # u => tw'[x] = tw[x] /\ tw[x] # s
  BY DEF Started, Serves
<1>2. ASSUME NEW x \in Sessions PROVE Serves(x)' <=> Serves(x) \/ x = s
  <2>1. x # None
    BY Apart
  <2> QED
    BY <1>1, <2>1 DEF Serves
<1>3. ASSUME NEW p \in Threads, NEW q \in Threads, tw'[p] = tw'[q], tw'[p] # None
      PROVE  p = q
  BY <1>1, <1>3 DEF IInv, Exclusive
<1> QED
  BY <1>2, <1>3

LEMMA StartedRuns ==
  ASSUME IInv, NEW P, Moved(P), NEW s \in Sessions, NEW u \in Threads, Started(u, s, P),
         ~Serves(s), tf' = tf, \A x \in Sessions : SameQueue(x) /\ SameFlags(x)
  PROVE  RunsRight'
<1>1. /\ tw[u] = None /\ tw'[u] = s
      /\ \A x \in Threads : x # u => tw'[x] = tw[x] /\ tw[x] # s /\ tpc'[x] = P[x]
      /\ tpc[u] \notin {"run", "blocked"} /\ tpc'[u] \notin {"run", "blocked"}
  BY DEF Started, Serves
<1>2. ASSUME NEW x \in Sessions
      PROVE  /\ w'[x].busy <=> \E p \in Threads : tw'[p] = x /\ tpc'[p] \in {"run", "blocked"}
             /\ w'[x].active # None => w'[x].busy
  <2>1. \A p \in Threads : tw'[p] = x /\ tpc'[p] \in {"run", "blocked"}
                              <=> tw[p] = x /\ tpc[p] \in {"run", "blocked"}
    BY <1>1 DEF Moved
  <2> QED
    BY <2>1 DEF IInv, RunsRight, SameQueue, SameFlags
<1>3. ASSUME NEW p \in Threads
      PROVE  /\ tf'[p] # None =>
                   \/ tpc'[p] \in {"reply", "after", "deliver", "deliver_exit", "deliver_park"}
                   \/ tpc'[p] \in {"serve", "finish"} /\ w'[tw'[p]].dead
             /\ tpc'[p] = "reply" /\ tw'[p] \in OneShot => w'[tw'[p]].dead
  <2>1. CASE p = u
    BY <2>1 DEF IInv, RunsRight, Started
  <2>2. CASE p # u
    <3>1. tpc[p] \in {"serve", "finish", "reply"} => tw[p] \in Sessions
      BY Serving DEF ServedPCs
    <3>2. \/ tpc'[p] = tpc[p]
          \/ tpc'[p] = "cond" /\ tf[p] = None
          \/ tpc'[p] = "blocked" /\ tpc[p] = "run"
      BY <1>1, <2>2 DEF Moved
    <3> QED
      BY <1>1, <2>2, <3>1, <3>2 DEF IInv, RunsRight, SameFlags
  <2> QED
    BY <2>1, <2>2
<1> QED
  BY <1>2, <1>3 DEF RunsRight

(* The caller's own step, when no thread was started. *)
LEMMA MovedThreads ==
  ASSUME IInv, NEW P, Moved(P), tpc' = P, tw' = tw, word' = word, idle' = idle, tf' = tf,
         \A x \in Sessions : SameQueue(x) /\ SameFlags(x)
  PROVE  ThreadsRight' /\ RunsRight'
<1>1. ThreadsRight'
  BY DEF IInv, ThreadsRight, Moved, ServedPCs
<1>2. ASSUME NEW x \in Sessions
      PROVE  /\ w'[x].busy <=> \E p \in Threads : tw'[p] = x /\ tpc'[p] \in {"run", "blocked"}
             /\ w'[x].active # None => w'[x].busy
  <2>1. \A p \in Threads : tpc'[p] \in {"run", "blocked"} <=> tpc[p] \in {"run", "blocked"}
    BY DEF Moved
  <2> QED
    BY <2>1 DEF IInv, RunsRight, SameQueue, SameFlags
<1>3. ASSUME NEW p \in Threads
      PROVE  /\ tf'[p] # None =>
                   \/ tpc'[p] \in {"reply", "after", "deliver", "deliver_exit", "deliver_park"}
                   \/ tpc'[p] \in {"serve", "finish"} /\ w'[tw'[p]].dead
             /\ tpc'[p] = "reply" /\ tw'[p] \in OneShot => w'[tw'[p]].dead
  <2>1. tpc[p] \in {"serve", "finish", "reply"} => tw[p] \in Sessions
    BY Serving DEF ServedPCs
  <2>2. \/ tpc'[p] = tpc[p]
        \/ tpc'[p] = "cond" /\ tf[p] = None
        \/ tpc'[p] = "blocked" /\ tpc[p] = "run"
    BY DEF Moved
  <2> QED
    BY <2>1, <2>2 DEF IInv, RunsRight, SameFlags
<1> QED
  BY <1>1, <1>2, <1>3 DEF RunsRight

(* The head of the run queue has no thread. *)
LEMMA QueueHead ==
  ASSUME IInv, runq # <<>>
  PROVE  /\ Head(runq) \in Sessions /\ Queued(Head(runq)) /\ ~Serves(Head(runq))
         /\ Tail(runq) \in Seq(Sessions) /\ Distinct(Tail(runq))
         /\ Elems(Tail(runq)) = Elems(runq) \ {Head(runq)}
<1>1. Distinct(runq) /\ runq \in Seq(Sessions)
  BY Typed DEF IInv, Exclusive
<1>2. /\ Head(runq) \in Sessions /\ Queued(Head(runq))
      /\ Tail(runq) \in Seq(Sessions) /\ Distinct(Tail(runq))
      /\ Elems(Tail(runq)) = Elems(runq) \ {Head(runq)}
  BY <1>1, TailFacts DEF Queued
<1>3. ~Serves(Head(runq))
  BY <1>2 DEF IInv, Exclusive, One
<1> QED
  BY <1>2, <1>3

(* The monitor's variables and the counters keep their types. *)
MonitorTypes ==
    /\ running \in Nat /\ injected \in Nat /\ refusals \in 0..MaxRefusals
    /\ watching \in BOOLEAN /\ stalled \in BOOLEAN
    /\ mon \in {"none", "check", "timed", "sleep"}

(* The structs but for parked. *)
SameStructs ==
    /\ w' \in [Sessions -> Session]
    /\ \A x \in Sessions : /\ w'[x].refs = w[x].refs
                           /\ SameQueue(x) /\ SameFlags(x)
                           /\ w'[x].bound <=> w[x].bound

(* What the callers of start_queued leave alone. *)
Elsewhere ==
    UNCHANGED <<spawned, registered, freed, tj, tf, callVars, completed, panicked>>

-----------------------------------------------------------------------------
(* workerSpawn and workerDispatchAsync.                                    *)

(* A session gets its id. *)
LEMMA Inv_workerSpawn ==
  ASSUME IInv, ~panicked, NEW s \in Sessions,
         workerSpawn(s)
  PROVE  IInv'
<1>a. w[s].refs = 0 /\ s \notin spawned /\ s \notin registered /\ s \notin freed
  BY Typed DEF workerSpawn, IInv, RefsRight
<1>0. /\ w' \in [Sessions -> Session]
      /\ \A x \in Sessions : /\ w'[x].refs = w[x].refs + One(x = s)
                             /\ SameQueue(x) /\ SameFlags(x)
                             /\ w'[x].bound <=> w[x].bound
      /\ spawned' = spawned \cup {s}
      /\ registered' = registered \cup {s}
      /\ UNCHANGED <<freed, runq, running, injected, idle, refusals, watching,
                     stalled, mon, tpc, word, tw, tj, tf, dpc, xpc, xf, spc, sf,
                     completed, panicked>>
  <2>1. /\ w' \in [Sessions -> Session]
        /\ \A x \in Sessions : /\ w'[x].refs = w[x].refs + One(x = s)
                               /\ SameQueue(x) /\ SameFlags(x)
                               /\ w'[x].bound <=> w[x].bound
    <3>1. /\ w' \in [Sessions -> Session]
          /\ \A x \in Sessions : x # s => w'[x] = w[x]
      BY WType DEF workerSpawn, Session
    <3>2. /\ w'[s].refs = 1
          /\ w'[s].queue = w[s].queue /\ w'[s].active = w[s].active
          /\ w'[s].busy = w[s].busy /\ w'[s].dead = w[s].dead
          /\ w'[s].bound = w[s].bound /\ w'[s].detached = w[s].detached
      BY WType DEF workerSpawn, Session
    <3>3. \A x \in Sessions : w[x].refs \in Nat
      BY WType DEF Session
    <3> QED
      BY <1>a, <3>1, <3>2, <3>3 DEF SameQueue, SameFlags, One
  <2>2. /\ spawned' = spawned \cup {s}
        /\ registered' = registered \cup {s}
        /\ UNCHANGED <<freed, runq, running, injected, idle, refusals, watching,
                       stalled, mon, tpc, word, tw, tj, tf, dpc, xpc, xf, spc, sf,
                       completed, panicked>>
    BY <1>a, Typed DEF workerSpawn, poolVars, monVars, threadVars, callVars
  <2> QED
    BY <2>1, <2>2
<1>1. TypeOK'
  BY <1>0, Typed, <1>a DEF IInv, TypeOK, Session, ThreadPCs, DispatchPCs, EndPCs
<1>2. ThreadsRight'
  BY <1>0, KeepThreads
<1>3. PoolAccounting'
  BY <1>0, KeepCount
<1>4. Exclusive'
  BY <1>0, <1>a, KeepExclusive
<1>5. RunsRight'
  BY <1>0, <1>a, KeepRuns DEF SameQueue, SameFlags
<1>6. QueuesRight' /\ Home' /\ Ends'
  BY <1>0, KeepSessions DEF SameQueue, SameFlags
<1>7. FutureOnce'
  BY <1>0, <1>a, KeepFuture DEF SameQueue, SameFlags, Unposted
<1>8. RefsRight'
  <2>1. \A x \in Sessions : /\ Stopping(x)' <=> Stopping(x)
                            /\ Ending(x)' <=> Ending(x)
                            /\ Serves(x)' <=> Serves(x)
                            /\ Queued(x)' <=> Queued(x)
                            /\ Unqueued(x)' <=> Unqueued(x)
    BY <1>0, <1>a DEF Stopping, Ending, Serves, Queued, Unqueued
  <2>2. \A x \in Sessions : x \in registered' <=> x \in registered \/ x = s
    BY <1>0, <1>a
  <2>3. \A x \in Sessions : Calls(x)' = Calls(x) /\ Calls(x) \in Nat
    BY <1>0, KeepCalls, InCallType
  <2>4. ASSUME NEW x \in Sessions PROVE w'[x].refs = RefSum(x)'
    <3>1. w[x].refs = RefSum(x) /\ w'[x].refs = w[x].refs + One(x = s)
      BY <1>0, <1>a DEF IInv, RefsRight
    <3> QED
      BY <2>1, <2>2, <2>3, <3>1, <1>a DEF RefSum, One
  <2>5. ASSUME NEW x \in Sessions, x \notin spawned' \/ x \in freed' PROVE w'[x].refs = 0
    BY <1>0, <1>a, <2>5 DEF IInv, RefsRight, One
  <2> QED
    BY <2>4, <2>5 DEF RefsRight
<1> QED
  BY <1>1, <1>2, <1>3, <1>4, <1>5, <1>6, <1>7, <1>8 DEF IInv

(* A dispatch looks its session up. *)
LEMMA Inv_dispatch_acquire ==
  ASSUME IInv, ~panicked, NEW j \in Jobs,
         NEW s \in Sessions, s = On[j], s \in registered, dispatch_acquire(j)
  PROVE  IInv'
<1>a. dpc[j] = "new" /\ s \in spawned /\ s \notin freed
  BY Typed, Referred DEF dispatch_acquire
<1>0. /\ w' \in [Sessions -> Session]
      /\ \A x \in Sessions : /\ w'[x].refs = w[x].refs + One(x = s)
                             /\ SameQueue(x) /\ SameFlags(x)
                             /\ w'[x].bound <=> w[x].bound
      /\ dpc'[j] = "enqueue" /\ \A x \in Jobs : x # j => dpc'[x] = dpc[x]
      /\ UNCHANGED <<spawned, registered, freed, runq, running, injected, idle,
                     refusals, watching, stalled, mon, tpc, word, tw, tj, tf,
                     xpc, xf, spc, sf, completed, panicked>>
  <2>1. /\ w' \in [Sessions -> Session]
        /\ \A x \in Sessions : /\ w'[x].refs = w[x].refs + One(x = s)
                               /\ SameQueue(x) /\ SameFlags(x)
                               /\ w'[x].bound <=> w[x].bound
    BY TakeRef DEF dispatch_acquire
  <2>2. /\ dpc'[j] = "enqueue" /\ \A x \in Jobs : x # j => dpc'[x] = dpc[x]
        /\ UNCHANGED <<spawned, registered, freed, runq, running, injected, idle,
                       refusals, watching, stalled, mon, tpc, word, tw, tj, tf,
                       xpc, xf, spc, sf, completed, panicked>>
    BY <1>a, Typed DEF dispatch_acquire, poolVars, monVars, threadVars
  <2> QED
    BY <2>1, <2>2
<1>1. TypeOK'
  <2>1. dpc' \in [Jobs -> DispatchPCs]
    BY <1>a, DispatchTypes DEF dispatch_acquire, DispatchPCs
  <2> QED
    BY <1>0, <2>1, Typed, <1>a DEF IInv, TypeOK, Session, ThreadPCs,
       DispatchPCs, EndPCs
<1>2. ThreadsRight'
  BY <1>0, KeepThreads
<1>3. PoolAccounting'
  BY <1>0, KeepCount
<1>4. Exclusive'
  BY <1>0, <1>a, KeepExclusive
<1>5. RunsRight'
  BY <1>0, <1>a, KeepRuns DEF SameQueue, SameFlags
<1>6. QueuesRight' /\ Home' /\ Ends'
  BY <1>0, KeepSessions DEF SameQueue, SameFlags
<1>7. FutureOnce'
  BY <1>0, <1>a, KeepFuture DEF SameQueue, SameFlags, Unposted
<1>8. RefsRight'
  <2>1. \A x \in Sessions : /\ Stopping(x)' <=> Stopping(x)
                            /\ Ending(x)' <=> Ending(x)
                            /\ Serves(x)' <=> Serves(x)
                            /\ Queued(x)' <=> Queued(x)
                            /\ Unqueued(x)' <=> Unqueued(x)
    BY <1>0, <1>a DEF Stopping, Ending, Serves, Queued, Unqueued
  <2>2. \A x \in Sessions : x \in registered' <=> x \in registered
    BY <1>0, <1>a
  <2>3. \A x \in Sessions : Calls(x)' = Calls(x) + One(x = s) /\ Calls(x) \in Nat
    BY <1>0, <1>a, InCallType, InCallMoves DEF InCall, One
  <2>4. ASSUME NEW x \in Sessions PROVE w'[x].refs = RefSum(x)'
    <3>1. w[x].refs = RefSum(x) /\ w'[x].refs = w[x].refs + One(x = s)
      BY <1>0, <1>a DEF IInv, RefsRight
    <3> QED
      BY <2>1, <2>2, <2>3, <3>1, <1>a DEF RefSum, One
  <2>5. ASSUME NEW x \in Sessions, x \notin spawned' \/ x \in freed' PROVE w'[x].refs = 0
    BY <1>0, <1>a, <2>5 DEF IInv, RefsRight, One
  <2> QED
    BY <2>4, <2>5 DEF RefsRight
<1> QED
  BY <1>1, <1>2, <1>3, <1>4, <1>5, <1>6, <1>7, <1>8 DEF IInv

(* A dispatch answers the future of a session that is gone. *)
LEMMA Inv_dispatch_gone ==
  ASSUME IInv, ~panicked, NEW j \in Jobs,
         NEW s \in Sessions, s = On[j], s \notin registered, dispatch_acquire(j)
  PROVE  IInv'
<1>a. /\ dpc[j] = "new" /\ Unposted(j) /\ completed' \in [Jobs -> Nat]
      /\ \A y \in Jobs : completed'[y] = completed[y] + One(y = j)
  BY Completes DEF dispatch_acquire, One, Unposted
<1>0. /\ completed' \in [Jobs -> Nat] /\ \A y \in Jobs : completed'[y] = completed[y] + One(y = j)
      /\ dpc'[j] = "done" /\ \A x \in Jobs : x # j => dpc'[x] = dpc[x]
      /\ UNCHANGED <<w, spawned, registered, freed, runq, running, injected,
                     idle, refusals, watching, stalled, mon, tpc, word, tw, tj,
                     tf, xpc, xf, spc, sf, panicked>>
  BY <1>a, Typed DEF dispatch_acquire, poolVars, monVars, threadVars
<1>1. TypeOK'
  <2>1. dpc' \in [Jobs -> DispatchPCs]
    BY <1>a, DispatchTypes DEF dispatch_acquire, DispatchPCs
  <2> QED
    BY <1>0, <2>1, Typed, <1>a DEF IInv, TypeOK, Session, ThreadPCs,
       DispatchPCs, EndPCs
<1>2. ThreadsRight'
  BY <1>0, KeepThreads
<1>3. PoolAccounting'
  BY <1>0, KeepCount
<1>4. Exclusive'
  BY <1>0, <1>a, KeepExclusive
<1>5. RunsRight'
  BY <1>0, KeepRuns
<1>6. QueuesRight' /\ Home' /\ Ends'
  BY <1>0, KeepSessions DEF SameQueue, SameFlags
<1>7. FutureOnce'
  <2>1. \A y \in Jobs : Unposted(y)' <=> Unposted(y) /\ y # j
    BY <1>0, <1>a DEF Unposted
  <2>2. \A y \in Jobs : /\ Posted(y)' <=> Posted(y)
                        /\ Running(y)' <=> Running(y)
                        /\ Holds(y)' <=> Holds(y)
                        /\ AtTerminate(y)' <=> AtTerminate(y)
                        /\ AtShutdown(y)' <=> AtShutdown(y)
    BY <1>0, <1>a, Typed DEF Posted, Running, Holds, AtTerminate, AtShutdown,
       SameQueue
  <2>3. \A p, q \in Threads : tf'[p] = tf'[q] /\ tf'[p] # None => p = q
    BY <1>0, <1>a DEF IInv, FutureOnce
  <2>4. \A y \in Jobs : completed'[y] = completed[y] + One(y = j) /\ completed[y] \in Nat
    BY <1>0, <1>a, Typed DEF One
  <2>5. ASSUME NEW y \in Jobs
        PROVE  completed'[y] + One(Unposted(y)') + One(Posted(y)') + One(Running(y)')
                   + One(Holds(y)') + One(AtTerminate(y)') + One(AtShutdown(y)') = 1
    <3>1. completed[y] + One(Unposted(y)) + One(Posted(y)) + One(Running(y))
              + One(Holds(y)) + One(AtTerminate(y)) + One(AtShutdown(y)) = 1
      BY DEF IInv, FutureOnce
    <3> QED
      BY <2>1, <2>2, <2>4, <3>1, <1>a DEF One
  <2> QED
    BY <2>3, <2>5 DEF FutureOnce
<1>8. RefsRight'
  <2>1. \A x \in Sessions : /\ Stopping(x)' <=> Stopping(x)
                            /\ Ending(x)' <=> Ending(x)
                            /\ Unqueued(x)' <=> Unqueued(x)
    BY <1>0, <1>a DEF Stopping, Ending, Unqueued
  <2>2. \A x \in Sessions : Calls(x)' = Calls(x)
    BY <1>0, <1>a, InCallMoves DEF InCall
  <2> QED
    BY <1>0, <2>1, <2>2, KeepRefs
<1> QED
  BY <1>1, <1>2, <1>3, <1>4, <1>5, <1>6, <1>7, <1>8 DEF IInv

(* enqueue refuses a job. *)
LEMMA Inv_enqueue_refused ==
  ASSUME IInv, ~panicked, NEW j \in Jobs,
         NEW s \in Sessions, s = On[j], Refused(s), enqueue(j)
  PROVE  IInv'
<1>a. dpc[j] = "enqueue"
  BY DEF enqueue
<1>0. /\ dpc'[j] = "refused" /\ \A x \in Jobs : x # j => dpc'[x] = dpc[x]
      /\ UNCHANGED <<w, spawned, registered, freed, runq, running, injected,
                     idle, refusals, watching, stalled, mon, tpc, word, tw, tj,
                     tf, xpc, xf, spc, sf, completed, panicked>>
  BY <1>a, Typed DEF enqueue, poolVars, monVars
<1>1. TypeOK'
  <2>1. dpc' \in [Jobs -> DispatchPCs]
    BY <1>a, DispatchTypes DEF enqueue, DispatchPCs
  <2> QED
    BY <1>0, <2>1, Typed, <1>a DEF IInv, TypeOK, Session, ThreadPCs,
       DispatchPCs, EndPCs
<1>2. ThreadsRight'
  BY <1>0, KeepThreads
<1>3. PoolAccounting'
  BY <1>0, KeepCount
<1>4. Exclusive'
  BY <1>0, <1>a, KeepExclusive
<1>5. RunsRight'
  BY <1>0, KeepRuns
<1>6. QueuesRight' /\ Home' /\ Ends'
  BY <1>0, KeepSessions DEF SameQueue, SameFlags
<1>7. FutureOnce'
  BY <1>0, <1>a, KeepFuture DEF Unposted
<1>8. RefsRight'
  <2>1. \A x \in Sessions : /\ Stopping(x)' <=> Stopping(x)
                            /\ Ending(x)' <=> Ending(x)
                            /\ Unqueued(x)' <=> Unqueued(x)
    BY <1>0, <1>a DEF Stopping, Ending, Unqueued
  <2>2. \A x \in Sessions : Calls(x)' = Calls(x)
    BY <1>0, <1>a, InCallMoves DEF InCall
  <2> QED
    BY <1>0, <2>1, <2>2, KeepRefs
<1> QED
  BY <1>1, <1>2, <1>3, <1>4, <1>5, <1>6, <1>7, <1>8 DEF IInv

(* A refused job is answered. *)
LEMMA Inv_dispatch_refused ==
  ASSUME IInv, ~panicked, NEW j \in Jobs,
         dispatch_refused(j)
  PROVE  IInv'
<1>a. /\ dpc[j] = "refused" /\ Unposted(j) /\ completed' \in [Jobs -> Nat]
      /\ \A y \in Jobs : completed'[y] = completed[y] + One(y = j)
  BY Completes DEF dispatch_refused, One, Unposted
<1>0. /\ completed' \in [Jobs -> Nat] /\ \A y \in Jobs : completed'[y] = completed[y] + One(y = j)
      /\ dpc'[j] = "release" /\ \A x \in Jobs : x # j => dpc'[x] = dpc[x]
      /\ UNCHANGED <<w, spawned, registered, freed, runq, running, injected,
                     idle, refusals, watching, stalled, mon, tpc, word, tw, tj,
                     tf, xpc, xf, spc, sf, panicked>>
  BY <1>a, Typed DEF dispatch_refused, sessionVars, poolVars, monVars,
     threadVars
<1>1. TypeOK'
  <2>1. dpc' \in [Jobs -> DispatchPCs]
    BY <1>a, DispatchTypes DEF dispatch_refused, DispatchPCs
  <2> QED
    BY <1>0, <2>1, Typed, <1>a DEF IInv, TypeOK, Session, ThreadPCs,
       DispatchPCs, EndPCs
<1>2. ThreadsRight'
  BY <1>0, KeepThreads
<1>3. PoolAccounting'
  BY <1>0, KeepCount
<1>4. Exclusive'
  BY <1>0, <1>a, KeepExclusive
<1>5. RunsRight'
  BY <1>0, KeepRuns
<1>6. QueuesRight' /\ Home' /\ Ends'
  BY <1>0, KeepSessions DEF SameQueue, SameFlags
<1>7. FutureOnce'
  <2>1. \A y \in Jobs : Unposted(y)' <=> Unposted(y) /\ y # j
    BY <1>0, <1>a DEF Unposted
  <2>2. \A y \in Jobs : /\ Posted(y)' <=> Posted(y)
                        /\ Running(y)' <=> Running(y)
                        /\ Holds(y)' <=> Holds(y)
                        /\ AtTerminate(y)' <=> AtTerminate(y)
                        /\ AtShutdown(y)' <=> AtShutdown(y)
    BY <1>0, <1>a, Typed DEF Posted, Running, Holds, AtTerminate, AtShutdown,
       SameQueue
  <2>3. \A p, q \in Threads : tf'[p] = tf'[q] /\ tf'[p] # None => p = q
    BY <1>0, <1>a DEF IInv, FutureOnce
  <2>4. \A y \in Jobs : completed'[y] = completed[y] + One(y = j) /\ completed[y] \in Nat
    BY <1>0, <1>a, Typed DEF One
  <2>5. ASSUME NEW y \in Jobs
        PROVE  completed'[y] + One(Unposted(y)') + One(Posted(y)') + One(Running(y)')
                   + One(Holds(y)') + One(AtTerminate(y)') + One(AtShutdown(y)') = 1
    <3>1. completed[y] + One(Unposted(y)) + One(Posted(y)) + One(Running(y))
              + One(Holds(y)) + One(AtTerminate(y)) + One(AtShutdown(y)) = 1
      BY DEF IInv, FutureOnce
    <3> QED
      BY <2>1, <2>2, <2>4, <3>1, <1>a DEF One
  <2> QED
    BY <2>3, <2>5 DEF FutureOnce
<1>8. RefsRight'
  <2>1. \A x \in Sessions : /\ Stopping(x)' <=> Stopping(x)
                            /\ Ending(x)' <=> Ending(x)
                            /\ Unqueued(x)' <=> Unqueued(x)
    BY <1>0, <1>a DEF Stopping, Ending, Unqueued
  <2>2. \A x \in Sessions : Calls(x)' = Calls(x)
    BY <1>0, <1>a, InCallMoves DEF InCall
  <2> QED
    BY <1>0, <2>1, <2>2, KeepRefs
<1> QED
  BY <1>1, <1>2, <1>3, <1>4, <1>5, <1>6, <1>7, <1>8 DEF IInv

(* A dispatch returns its reference. *)
LEMMA Inv_dispatch_release ==
  ASSUME IInv, ~panicked, NEW j \in Jobs,
         NEW s \in Sessions, s = On[j], dispatch_release(j)
  PROVE  IInv'
<1>a. /\ dpc[j] = "release" /\ w[s].refs # 0 /\ s \in spawned /\ s \notin freed
      /\ w[s].queue # <<>> => w[s].refs # 1 /\ w[s].refs \in Nat
  BY Referred, QueueHeld DEF dispatch_release, InCall
<1>0. /\ w' \in [Sessions -> Session]
      /\ \A x \in Sessions : /\ w'[x].refs = w[x].refs - One(x = s)
                             /\ SameQueue(x) /\ SameFlags(x)
                             /\ w'[x].bound <=> w[x].bound
      /\ freed' = freed \cup (IF w[s].refs = 1 THEN {s} ELSE {}) /\ freed' \subseteq spawned
      /\ dpc'[j] = "done" /\ \A x \in Jobs : x # j => dpc'[x] = dpc[x]
      /\ UNCHANGED <<spawned, registered, runq, running, injected, idle,
                     refusals, watching, stalled, mon, tpc, word, tw, tj, tf,
                     xpc, xf, spc, sf, completed, panicked>>
  <2>1. /\ w' \in [Sessions -> Session]
        /\ \A x \in Sessions : /\ w'[x].refs = w[x].refs - One(x = s)
                               /\ SameQueue(x) /\ SameFlags(x)
                               /\ w'[x].bound <=> w[x].bound
    BY <1>a, DropRef DEF dispatch_release
  <2>2. /\ freed' = freed \cup (IF w[s].refs = 1 THEN {s} ELSE {}) /\ freed' \subseteq spawned
        /\ dpc'[j] = "done" /\ \A x \in Jobs : x # j => dpc'[x] = dpc[x]
        /\ UNCHANGED <<spawned, registered, runq, running, injected, idle,
                       refusals, watching, stalled, mon, tpc, word, tw, tj, tf,
                       xpc, xf, spc, sf, completed, panicked>>
    BY <1>a, Typed, DropRef DEF dispatch_release, poolVars, monVars, threadVars
  <2> QED
    BY <2>1, <2>2
<1>1. TypeOK'
  <2>1. dpc' \in [Jobs -> DispatchPCs]
    BY <1>a, DispatchTypes DEF dispatch_release, DispatchPCs
  <2> QED
    BY <1>0, <2>1, Typed, <1>a DEF IInv, TypeOK, Session, ThreadPCs,
       DispatchPCs, EndPCs
<1>2. ThreadsRight'
  BY <1>0, KeepThreads
<1>3. PoolAccounting'
  BY <1>0, KeepCount
<1>4. Exclusive'
  BY <1>0, <1>a, KeepExclusive
<1>5. RunsRight'
  BY <1>0, <1>a, KeepRuns DEF SameQueue, SameFlags
<1>6. QueuesRight' /\ Home' /\ Ends'
  BY <1>0, KeepSessions DEF SameQueue, SameFlags
<1>7. FutureOnce'
  BY <1>0, <1>a, KeepFuture DEF SameQueue, SameFlags, Unposted
<1>8. RefsRight'
  <2>1. \A x \in Sessions : /\ Stopping(x)' <=> Stopping(x)
                            /\ Ending(x)' <=> Ending(x)
                            /\ Serves(x)' <=> Serves(x)
                            /\ Queued(x)' <=> Queued(x)
                            /\ Unqueued(x)' <=> Unqueued(x)
    BY <1>0, <1>a DEF Stopping, Ending, Serves, Queued, Unqueued
  <2>2. \A x \in Sessions : x \in registered' <=> x \in registered
    BY <1>0, <1>a
  <2>3. \A x \in Sessions : Calls(x)' = Calls(x) - One(x = s) /\ Calls(x) \in Nat
    BY <1>0, <1>a, InCallType, InCallMoves DEF InCall, One
  <2>4. ASSUME NEW x \in Sessions PROVE w'[x].refs = RefSum(x)'
    <3>1. w[x].refs = RefSum(x) /\ w'[x].refs = w[x].refs - One(x = s)
      BY <1>0, <1>a DEF IInv, RefsRight
    <3> QED
      BY <2>1, <2>2, <2>3, <3>1, <1>a DEF RefSum, One
  <2>5. ASSUME NEW x \in Sessions, x \notin spawned' \/ x \in freed' PROVE w'[x].refs = 0
    BY <1>0, <1>a, <2>5 DEF IInv, RefsRight, One
  <2> QED
    BY <2>4, <2>5 DEF RefsRight
<1> QED
  BY <1>1, <1>2, <1>3, <1>4, <1>5, <1>6, <1>7, <1>8 DEF IInv

-----------------------------------------------------------------------------
(* stop_worker, workerShutdown and workerTerminate.                        *)

(* workerShutdown looks the session up. *)
LEMMA Inv_shutdown_acquire ==
  ASSUME IInv, ~panicked, NEW s \in Sessions,
         shutdown_acquire(s)
  PROVE  IInv'
<1>a. spc[s] = "new" /\ ~Stopping(s) /\ s \in spawned /\ s \notin freed
  BY Typed, Referred DEF shutdown_acquire, Stopping
<1>0. /\ w' \in [Sessions -> Session]
      /\ \A x \in Sessions : /\ w'[x].refs = w[x].refs + One(x = s)
                             /\ SameQueue(x) /\ SameFlags(x)
                             /\ w'[x].bound <=> w[x].bound
      /\ spc'[s] = "stop" /\ \A x \in Sessions : x # s => spc'[x] = spc[x]
      /\ UNCHANGED <<spawned, registered, freed, runq, running, injected, idle,
                     refusals, watching, stalled, mon, tpc, word, tw, tj, tf,
                     dpc, xpc, xf, sf, completed, panicked>>
  <2>1. /\ w' \in [Sessions -> Session]
        /\ \A x \in Sessions : /\ w'[x].refs = w[x].refs + One(x = s)
                               /\ SameQueue(x) /\ SameFlags(x)
                               /\ w'[x].bound <=> w[x].bound
    BY TakeRef DEF shutdown_acquire
  <2>2. /\ spc'[s] = "stop" /\ \A x \in Sessions : x # s => spc'[x] = spc[x]
        /\ UNCHANGED <<spawned, registered, freed, runq, running, injected, idle,
                       refusals, watching, stalled, mon, tpc, word, tw, tj, tf,
                       dpc, xpc, xf, sf, completed, panicked>>
    BY <1>a, Typed DEF shutdown_acquire, poolVars, monVars, threadVars
  <2> QED
    BY <2>1, <2>2
<1>1. TypeOK'
  <2>1. spc' \in [Sessions -> {"new", "stop", "complete", "release", "done"}]
    BY <1>a, EndTypes DEF shutdown_acquire
  <2> QED
    BY <1>0, <2>1, Typed, <1>a DEF IInv, TypeOK, Session, ThreadPCs,
       DispatchPCs, EndPCs
<1>2. ThreadsRight'
  BY <1>0, KeepThreads
<1>3. PoolAccounting'
  BY <1>0, KeepCount
<1>4. Exclusive'
  BY <1>0, <1>a, KeepExclusive
<1>5. RunsRight'
  BY <1>0, <1>a, KeepRuns DEF SameQueue, SameFlags
<1>6. QueuesRight'
  BY <1>0, <1>a DEF IInv, QueuesRight, SameQueue, SameFlags
<1>7. Home'
  <2>1. \A x \in Sessions : SameQueue(x) /\ xf'[x] \subseteq xf[x] /\ sf'[x] \subseteq sf[x]
    BY <1>0 DEF SameQueue
  <2>2. \A x \in Sessions : /\ xf'[x] # {} => xpc'[x] = "complete"
                            /\ sf'[x] # {} => spc'[x] = "complete"
    BY <1>0, <1>a DEF IInv, Home
  <2> QED
    BY <2>1, <2>2, KeepHome
<1>8. Ends'
  BY <1>0, <1>a DEF IInv, Ends, SameQueue, SameFlags
<1>9. FutureOnce'
  BY <1>0, <1>a, KeepFuture DEF SameQueue, SameFlags, Unposted
<1>10. RefsRight'
  <2>1. \A x \in Sessions : Stopping(x)' <=> Stopping(x) \/ x = s
    BY <1>0, <1>a DEF Stopping
  <2>2. \A x \in Sessions : /\ Ending(x)' <=> Ending(x)
                            /\ Serves(x)' <=> Serves(x)
                            /\ Queued(x)' <=> Queued(x)
                            /\ Unqueued(x)' <=> Unqueued(x)
    BY <1>0, <1>a DEF Ending, Serves, Queued, Unqueued
  <2>3. \A x \in Sessions : x \in registered' <=> x \in registered
    BY <1>0, <1>a
  <2>4. \A x \in Sessions : Calls(x)' = Calls(x) /\ Calls(x) \in Nat
    BY <1>0, KeepCalls, InCallType
  <2>5. ASSUME NEW x \in Sessions PROVE w'[x].refs = RefSum(x)'
    <3>1. w[x].refs = RefSum(x) /\ w'[x].refs = w[x].refs + One(x = s)
      BY <1>0, <1>a DEF IInv, RefsRight
    <3> QED
      BY <2>1, <2>2, <2>3, <2>4, <3>1, <1>a DEF RefSum, One
  <2>6. ASSUME NEW x \in Sessions, x \notin spawned' \/ x \in freed' PROVE w'[x].refs = 0
    BY <1>0, <1>a, <2>6 DEF IInv, RefsRight, One
  <2> QED
    BY <2>5, <2>6 DEF RefsRight
<1> QED
  BY <1>1, <1>2, <1>3, <1>4, <1>5, <1>6, <1>7, <1>8, <1>9, <1>10 DEF IInv

(* stop_worker in workerShutdown. *)
LEMMA Inv_shutdown_stop ==
  ASSUME IInv, ~panicked, NEW s \in Sessions,
         shutdown_stop(s)
  PROVE  IInv'
<1>a. /\ spc[s] = "stop" /\ sf[s] = {} /\ Taken(s) \subseteq Jobs
      /\ \A y \in Jobs : y \in Taken(s) <=> On[y] = s /\ (Posted(y) \/ Running(y))
      /\ \A y \in Jobs : On[y] = s => ~AtShutdown(y)
  <2>1. spc[s] = "stop"
    BY DEF shutdown_stop
  <2>2. Elems(w[s].queue) \subseteq Jobs /\ w[s].active \in Jobs \cup {None}
    BY WType, ElemsType DEF Session
  <2>3. Taken(s) \subseteq Jobs
    BY <2>2 DEF Taken
  <2>4. sf[s] = {}
    BY <2>1 DEF IInv, Home
  <2>5. ASSUME NEW y \in Jobs PROVE y \in Taken(s) <=> On[y] = s /\ (Posted(y) \/ Running(y))
    BY Apart DEF IInv, Home, Taken, Posted, Running
  <2> QED
    BY <2>1, <2>3, <2>4, <2>5 DEF AtShutdown
<1>0. /\ w' \in [Sessions -> Session]
      /\ \A x \in Sessions : x # s => w'[x] = w[x]
      /\ w'[s].refs = w[s].refs /\ w'[s].queue = <<>> /\ w'[s].active = None
      /\ w'[s].busy = w[s].busy /\ w'[s].dead /\ w'[s].bound = w[s].bound
      /\ w'[s].detached <=> w[s].detached \/ w[s].busy
      /\ tpc' \in [Threads -> ThreadPCs] /\ Woken
      /\ sf'[s] = Taken(s) /\ \A x \in Sessions : x # s => sf'[x] = sf[x]
      /\ xpc'[s] = (IF xpc[s] = "wait" THEN "look" ELSE xpc[s])
      /\ \A x \in Sessions : x # s => xpc'[x] = xpc[x]
      /\ spc'[s] = "complete" /\ \A x \in Sessions : x # s => spc'[x] = spc[x]
      /\ UNCHANGED <<spawned, registered, freed, runq, running, injected, idle,
                     refusals, watching, stalled, mon, word, tw, tj, tf, dpc,
                     xf, completed, panicked>>
  <2>1. /\ w' \in [Sessions -> Session]
        /\ \A x \in Sessions : x # s => w'[x] = w[x]
        /\ w'[s].refs = w[s].refs /\ w'[s].queue = <<>> /\ w'[s].active = None
        /\ w'[s].busy = w[s].busy /\ w'[s].dead /\ w'[s].bound = w[s].bound
        /\ w'[s].detached <=> w[s].detached \/ w[s].busy
    BY StopFacts DEF shutdown_stop
  <2>2. /\ tpc' \in [Threads -> ThreadPCs] /\ Woken
        /\ sf'[s] = Taken(s) /\ \A x \in Sessions : x # s => sf'[x] = sf[x]
        /\ xpc'[s] = (IF xpc[s] = "wait" THEN "look" ELSE xpc[s])
        /\ \A x \in Sessions : x # s => xpc'[x] = xpc[x]
        /\ spc'[s] = "complete" /\ \A x \in Sessions : x # s => spc'[x] = spc[x]
        /\ UNCHANGED <<spawned, registered, freed, runq, running, injected, idle,
                       refusals, watching, stalled, mon, word, tw, tj, tf, dpc,
                       xf, completed, panicked>>
    BY <1>a, Typed, Signals DEF shutdown_stop, poolVars, monVars
  <2> QED
    BY <2>1, <2>2
<1>1. TypeOK'
  <2>1. /\ tpc' \in [Threads -> ThreadPCs]
        /\ sf' \in [Sessions -> SUBSET Jobs]
        /\ xpc' \in [Sessions -> EndPCs]
        /\ spc' \in [Sessions -> {"new", "stop", "complete", "release", "done"}]
    BY <1>a, ThreadTypes, EndTypes, Signals DEF shutdown_stop, ThreadPCs, EndPCs
  <2> QED
    BY <1>0, <2>1, Typed, <1>a, Signals DEF IInv, TypeOK, Session, ThreadPCs,
       DispatchPCs, EndPCs
<1>2. ThreadsRight'
  BY <1>0, WokenThreads
<1>3. PoolAccounting'
  BY <1>0, WokenThreads
<1>4. Exclusive'
  BY <1>0, <1>a, KeepExclusive
<1>5. RunsRight'
  BY <1>0, WokenRuns, Typed
<1>6. QueuesRight'
  BY <1>0, <1>a, EmptyFacts DEF IInv, QueuesRight
<1>7. Home'
  <2>1. \A x \in Sessions : xf'[x] # {} => xpc'[x] = "complete"
    BY <1>0, <1>a DEF IInv, Home
  <2>2. \A x \in Sessions : sf'[x] # {} => spc'[x] = "complete"
    BY <1>0, <1>a DEF IInv, Home
  <2>3. ASSUME NEW x \in Sessions, NEW y \in Jobs,
               y \in Elems(w'[x].queue) \/ w'[x].active = y \/ y \in xf'[x] \/ y \in sf'[x]
        PROVE  On[y] = x
    BY <1>0, <1>a, <2>3, EmptyFacts, Apart DEF IInv, Home
  <2> QED
    BY <2>1, <2>2, <2>3 DEF Home
<1>8. Ends'
  BY <1>0, <1>a DEF IInv, Ends
<1>9. FutureOnce'
  <2>1. \A y \in Jobs : Posted(y)' <=> Posted(y) /\ On[y] # s
    BY <1>0, Typed, EmptyFacts DEF Posted
  <2>2. \A y \in Jobs : Running(y)' <=> Running(y) /\ On[y] # s
    BY <1>0, Typed, Apart DEF Running
  <2>3. \A y \in Jobs : AtShutdown(y)' <=> IF On[y] = s THEN Posted(y) \/ Running(y) ELSE AtShutdown(y)
    BY <1>0, <1>a, DispatchTypes DEF AtShutdown
  <2>4. \A y \in Jobs : /\ Unposted(y)' <=> Unposted(y)
                        /\ Holds(y)' <=> Holds(y)
                        /\ AtTerminate(y)' <=> AtTerminate(y)
    BY <1>0, <1>a, Typed DEF Unposted, Holds, AtTerminate, SameQueue
  <2>5. \A p, q \in Threads : tf'[p] = tf'[q] /\ tf'[p] # None => p = q
    BY <1>0, <1>a DEF IInv, FutureOnce
  <2>6. \A y \in Jobs : completed'[y] = completed[y] /\ completed[y] \in Nat
    BY <1>0, <1>a, Typed DEF One
  <2>7. ASSUME NEW y \in Jobs
        PROVE  completed'[y] + One(Unposted(y)') + One(Posted(y)') + One(Running(y)')
                   + One(Holds(y)') + One(AtTerminate(y)') + One(AtShutdown(y)') = 1
    <3>1. completed[y] + One(Unposted(y)) + One(Posted(y)) + One(Running(y))
              + One(Holds(y)) + One(AtTerminate(y)) + One(AtShutdown(y)) = 1
      BY DEF IInv, FutureOnce
    <3> QED
      BY <2>1, <2>2, <2>3, <2>4, <2>6, <3>1, <1>a DEF One
  <2> QED
    BY <2>5, <2>7 DEF FutureOnce
<1>10. RefsRight'
  <2>1. \A x \in Sessions : /\ Stopping(x)' <=> Stopping(x)
                            /\ Ending(x)' <=> Ending(x)
                            /\ Unqueued(x)' <=> Unqueued(x)
    BY <1>0, <1>a DEF Stopping, Ending, Unqueued
  <2>2. \A x \in Sessions : Calls(x)' = Calls(x)
    BY <1>0, KeepCalls
  <2> QED
    BY <1>0, <2>1, <2>2, KeepRefs
<1> QED
  BY <1>1, <1>2, <1>3, <1>4, <1>5, <1>6, <1>7, <1>8, <1>9, <1>10 DEF IInv

(* stop_worker in workerTerminate. *)
LEMMA Inv_terminate_stop ==
  ASSUME IInv, ~panicked, NEW s \in Sessions,
         terminate_stop(s)
  PROVE  IInv'
<1>a. /\ xpc[s] = "stop" /\ xf[s] = {} /\ Taken(s) \subseteq Jobs
      /\ \A y \in Jobs : y \in Taken(s) <=> On[y] = s /\ (Posted(y) \/ Running(y))
      /\ \A y \in Jobs : On[y] = s => ~AtTerminate(y)
  <2>1. xpc[s] = "stop"
    BY DEF terminate_stop
  <2>2. Elems(w[s].queue) \subseteq Jobs /\ w[s].active \in Jobs \cup {None}
    BY WType, ElemsType DEF Session
  <2>3. Taken(s) \subseteq Jobs
    BY <2>2 DEF Taken
  <2>4. xf[s] = {}
    BY <2>1 DEF IInv, Home
  <2>5. ASSUME NEW y \in Jobs PROVE y \in Taken(s) <=> On[y] = s /\ (Posted(y) \/ Running(y))
    BY Apart DEF IInv, Home, Taken, Posted, Running
  <2> QED
    BY <2>1, <2>3, <2>4, <2>5 DEF AtTerminate
<1>0. /\ w' \in [Sessions -> Session]
      /\ \A x \in Sessions : x # s => w'[x] = w[x]
      /\ w'[s].refs = w[s].refs /\ w'[s].queue = <<>> /\ w'[s].active = None
      /\ w'[s].busy = w[s].busy /\ w'[s].dead /\ w'[s].bound = w[s].bound
      /\ w'[s].detached <=> w[s].detached \/ w[s].busy
      /\ tpc' \in [Threads -> ThreadPCs] /\ Woken
      /\ xf'[s] = Taken(s) /\ \A x \in Sessions : x # s => xf'[x] = xf[x]
      /\ xpc'[s] = "complete" /\ \A x \in Sessions : x # s => xpc'[x] = xpc[x]
      /\ UNCHANGED <<spawned, registered, freed, runq, running, injected, idle,
                     refusals, watching, stalled, mon, word, tw, tj, tf, dpc,
                     spc, sf, completed, panicked>>
  <2>1. /\ w' \in [Sessions -> Session]
        /\ \A x \in Sessions : x # s => w'[x] = w[x]
        /\ w'[s].refs = w[s].refs /\ w'[s].queue = <<>> /\ w'[s].active = None
        /\ w'[s].busy = w[s].busy /\ w'[s].dead /\ w'[s].bound = w[s].bound
        /\ w'[s].detached <=> w[s].detached \/ w[s].busy
    BY StopFacts DEF terminate_stop
  <2>2. /\ tpc' \in [Threads -> ThreadPCs] /\ Woken
        /\ xf'[s] = Taken(s) /\ \A x \in Sessions : x # s => xf'[x] = xf[x]
        /\ xpc'[s] = "complete" /\ \A x \in Sessions : x # s => xpc'[x] = xpc[x]
        /\ UNCHANGED <<spawned, registered, freed, runq, running, injected, idle,
                       refusals, watching, stalled, mon, word, tw, tj, tf, dpc,
                       spc, sf, completed, panicked>>
    BY <1>a, Typed, Signals DEF terminate_stop, poolVars, monVars
  <2> QED
    BY <2>1, <2>2
<1>1. TypeOK'
  <2>1. /\ tpc' \in [Threads -> ThreadPCs]
        /\ xf' \in [Sessions -> SUBSET Jobs]
        /\ xpc' \in [Sessions -> EndPCs]
    BY <1>a, ThreadTypes, EndTypes, Signals DEF terminate_stop, ThreadPCs,
       EndPCs
  <2> QED
    BY <1>0, <2>1, Typed, <1>a, Signals DEF IInv, TypeOK, Session, ThreadPCs,
       DispatchPCs, EndPCs
<1>2. ThreadsRight'
  BY <1>0, WokenThreads
<1>3. PoolAccounting'
  BY <1>0, WokenThreads
<1>4. Exclusive'
  BY <1>0, <1>a, KeepExclusive
<1>5. RunsRight'
  BY <1>0, WokenRuns, Typed
<1>6. QueuesRight'
  BY <1>0, <1>a, EmptyFacts DEF IInv, QueuesRight
<1>7. Home'
  <2>1. \A x \in Sessions : xf'[x] # {} => xpc'[x] = "complete"
    BY <1>0, <1>a DEF IInv, Home
  <2>2. \A x \in Sessions : sf'[x] # {} => spc'[x] = "complete"
    BY <1>0, <1>a DEF IInv, Home
  <2>3. ASSUME NEW x \in Sessions, NEW y \in Jobs,
               y \in Elems(w'[x].queue) \/ w'[x].active = y \/ y \in xf'[x] \/ y \in sf'[x]
        PROVE  On[y] = x
    BY <1>0, <1>a, <2>3, EmptyFacts, Apart DEF IInv, Home
  <2> QED
    BY <2>1, <2>2, <2>3 DEF Home
<1>8. Ends'
  BY <1>0, <1>a DEF IInv, Ends
<1>9. FutureOnce'
  <2>1. \A y \in Jobs : Posted(y)' <=> Posted(y) /\ On[y] # s
    BY <1>0, Typed, EmptyFacts DEF Posted
  <2>2. \A y \in Jobs : Running(y)' <=> Running(y) /\ On[y] # s
    BY <1>0, Typed, Apart DEF Running
  <2>3. \A y \in Jobs : AtTerminate(y)' <=> IF On[y] = s THEN Posted(y) \/ Running(y) ELSE AtTerminate(y)
    BY <1>0, <1>a, DispatchTypes DEF AtTerminate
  <2>4. \A y \in Jobs : /\ Unposted(y)' <=> Unposted(y)
                        /\ Holds(y)' <=> Holds(y)
                        /\ AtShutdown(y)' <=> AtShutdown(y)
    BY <1>0, <1>a, Typed DEF Unposted, Holds, AtShutdown, SameQueue
  <2>5. \A p, q \in Threads : tf'[p] = tf'[q] /\ tf'[p] # None => p = q
    BY <1>0, <1>a DEF IInv, FutureOnce
  <2>6. \A y \in Jobs : completed'[y] = completed[y] /\ completed[y] \in Nat
    BY <1>0, <1>a, Typed DEF One
  <2>7. ASSUME NEW y \in Jobs
        PROVE  completed'[y] + One(Unposted(y)') + One(Posted(y)') + One(Running(y)')
                   + One(Holds(y)') + One(AtTerminate(y)') + One(AtShutdown(y)') = 1
    <3>1. completed[y] + One(Unposted(y)) + One(Posted(y)) + One(Running(y))
              + One(Holds(y)) + One(AtTerminate(y)) + One(AtShutdown(y)) = 1
      BY DEF IInv, FutureOnce
    <3> QED
      BY <2>1, <2>2, <2>3, <2>4, <2>6, <3>1, <1>a DEF One
  <2> QED
    BY <2>5, <2>7 DEF FutureOnce
<1>10. RefsRight'
  <2>1. \A x \in Sessions : /\ Stopping(x)' <=> Stopping(x)
                            /\ Ending(x)' <=> Ending(x)
                            /\ Unqueued(x)' <=> Unqueued(x)
    BY <1>0, <1>a DEF Stopping, Ending, Unqueued
  <2>2. \A x \in Sessions : Calls(x)' = Calls(x)
    BY <1>0, KeepCalls
  <2> QED
    BY <1>0, <2>1, <2>2, KeepRefs
<1> QED
  BY <1>1, <1>2, <1>3, <1>4, <1>5, <1>6, <1>7, <1>8, <1>9, <1>10 DEF IInv

(* The futures taken in stop_worker are answered. *)
LEMMA Inv_shutdown_completes ==
  ASSUME IInv, ~panicked, NEW s \in Sessions,
         shutdown_completes(s)
  PROVE  IInv'
<1>a. /\ spc[s] = "complete" /\ completed' \in [Jobs -> Nat]
      /\ \A y \in Jobs : completed'[y] = completed[y] + One(y \in sf[s])
      /\ \A y \in Jobs : y \in sf[s] <=> On[y] = s /\ AtShutdown(y)
  BY Completes DEF shutdown_completes, IInv, Home, AtShutdown
<1>0. /\ sf'[s] = {} /\ \A x \in Sessions : x # s => sf'[x] = sf[x]
      /\ spc'[s] = "release" /\ \A x \in Sessions : x # s => spc'[x] = spc[x]
      /\ completed' \in [Jobs -> Nat] /\ \A y \in Jobs : completed'[y] = completed[y] + One(y \in sf[s])
      /\ UNCHANGED <<w, spawned, registered, freed, runq, running, injected,
                     idle, refusals, watching, stalled, mon, tpc, word, tw, tj,
                     tf, dpc, xpc, xf, panicked>>
  BY <1>a, Typed DEF shutdown_completes, sessionVars, poolVars, monVars,
     threadVars
<1>1. TypeOK'
  <2>1. /\ sf' \in [Sessions -> SUBSET Jobs]
        /\ spc' \in [Sessions -> {"new", "stop", "complete", "release", "done"}]
    BY <1>a, EndTypes DEF shutdown_completes
  <2> QED
    BY <1>0, <2>1, Typed, <1>a DEF IInv, TypeOK, Session, ThreadPCs,
       DispatchPCs, EndPCs
<1>2. ThreadsRight'
  BY <1>0, KeepThreads
<1>3. PoolAccounting'
  BY <1>0, KeepCount
<1>4. Exclusive'
  BY <1>0, KeepExclusive
<1>5. RunsRight'
  BY <1>0, KeepRuns
<1>6. QueuesRight'
  BY <1>0, <1>a DEF IInv, QueuesRight
<1>7. Home'
  <2>1. \A x \in Sessions : SameQueue(x) /\ xf'[x] \subseteq xf[x] /\ sf'[x] \subseteq sf[x]
    BY <1>0 DEF SameQueue
  <2>2. \A x \in Sessions : /\ xf'[x] # {} => xpc'[x] = "complete"
                            /\ sf'[x] # {} => spc'[x] = "complete"
    BY <1>0, <1>a DEF IInv, Home
  <2> QED
    BY <2>1, <2>2, KeepHome
<1>8. Ends'
  BY <1>0, <1>a DEF IInv, Ends
<1>9. FutureOnce'
  <2>1. \A y \in Jobs : AtShutdown(y)' <=> AtShutdown(y) /\ On[y] # s
    BY <1>0, <1>a, DispatchTypes DEF AtShutdown
  <2>2. \A y \in Jobs : /\ Unposted(y)' <=> Unposted(y)
                        /\ Posted(y)' <=> Posted(y)
                        /\ Running(y)' <=> Running(y)
                        /\ Holds(y)' <=> Holds(y)
                        /\ AtTerminate(y)' <=> AtTerminate(y)
    BY <1>0, <1>a, Typed DEF Unposted, Posted, Running, Holds, AtTerminate,
       SameQueue
  <2>3. \A p, q \in Threads : tf'[p] = tf'[q] /\ tf'[p] # None => p = q
    BY <1>0, <1>a DEF IInv, FutureOnce
  <2>4. \A y \in Jobs : completed'[y] = completed[y] + One(y \in sf[s]) /\ completed[y] \in Nat
    BY <1>0, <1>a, Typed DEF One
  <2>5. ASSUME NEW y \in Jobs
        PROVE  completed'[y] + One(Unposted(y)') + One(Posted(y)') + One(Running(y)')
                   + One(Holds(y)') + One(AtTerminate(y)') + One(AtShutdown(y)') = 1
    <3>1. completed[y] + One(Unposted(y)) + One(Posted(y)) + One(Running(y))
              + One(Holds(y)) + One(AtTerminate(y)) + One(AtShutdown(y)) = 1
      BY DEF IInv, FutureOnce
    <3> QED
      BY <2>1, <2>2, <2>4, <3>1, <1>a DEF One
  <2> QED
    BY <2>3, <2>5 DEF FutureOnce
<1>10. RefsRight'
  <2>1. \A x \in Sessions : /\ Stopping(x)' <=> Stopping(x)
                            /\ Ending(x)' <=> Ending(x)
                            /\ Unqueued(x)' <=> Unqueued(x)
    BY <1>0, <1>a DEF Stopping, Ending, Unqueued
  <2>2. \A x \in Sessions : Calls(x)' = Calls(x)
    BY <1>0, KeepCalls
  <2> QED
    BY <1>0, <2>1, <2>2, KeepRefs
<1> QED
  BY <1>1, <1>2, <1>3, <1>4, <1>5, <1>6, <1>7, <1>8, <1>9, <1>10 DEF IInv

(* The futures taken in stop_worker are answered. *)
LEMMA Inv_terminate_completes ==
  ASSUME IInv, ~panicked, NEW s \in Sessions,
         terminate_completes(s)
  PROVE  IInv'
<1>a. /\ xpc[s] = "complete" /\ completed' \in [Jobs -> Nat]
      /\ \A y \in Jobs : completed'[y] = completed[y] + One(y \in xf[s])
      /\ \A y \in Jobs : y \in xf[s] <=> On[y] = s /\ AtTerminate(y)
  BY Completes DEF terminate_completes, IInv, Home, AtTerminate
<1>0. /\ xf'[s] = {} /\ \A x \in Sessions : x # s => xf'[x] = xf[x]
      /\ xpc'[s] = "unqueue" /\ \A x \in Sessions : x # s => xpc'[x] = xpc[x]
      /\ completed' \in [Jobs -> Nat] /\ \A y \in Jobs : completed'[y] = completed[y] + One(y \in xf[s])
      /\ UNCHANGED <<w, spawned, registered, freed, runq, running, injected,
                     idle, refusals, watching, stalled, mon, tpc, word, tw, tj,
                     tf, dpc, spc, sf, panicked>>
  BY <1>a, Typed DEF terminate_completes, sessionVars, poolVars, monVars,
     threadVars
<1>1. TypeOK'
  <2>1. /\ xf' \in [Sessions -> SUBSET Jobs]
        /\ xpc' \in [Sessions -> EndPCs]
    BY <1>a, EndTypes DEF terminate_completes, EndPCs
  <2> QED
    BY <1>0, <2>1, Typed, <1>a DEF IInv, TypeOK, Session, ThreadPCs,
       DispatchPCs, EndPCs
<1>2. ThreadsRight'
  BY <1>0, KeepThreads
<1>3. PoolAccounting'
  BY <1>0, KeepCount
<1>4. Exclusive'
  BY <1>0, <1>a, KeepExclusive
<1>5. RunsRight'
  BY <1>0, KeepRuns
<1>6. QueuesRight'
  BY <1>0, <1>a DEF IInv, QueuesRight
<1>7. Home'
  <2>1. \A x \in Sessions : SameQueue(x) /\ xf'[x] \subseteq xf[x] /\ sf'[x] \subseteq sf[x]
    BY <1>0 DEF SameQueue
  <2>2. \A x \in Sessions : /\ xf'[x] # {} => xpc'[x] = "complete"
                            /\ sf'[x] # {} => spc'[x] = "complete"
    BY <1>0, <1>a DEF IInv, Home
  <2> QED
    BY <2>1, <2>2, KeepHome
<1>8. Ends'
  BY <1>0, <1>a DEF IInv, Ends
<1>9. FutureOnce'
  <2>1. \A y \in Jobs : AtTerminate(y)' <=> AtTerminate(y) /\ On[y] # s
    BY <1>0, <1>a, DispatchTypes DEF AtTerminate
  <2>2. \A y \in Jobs : /\ Unposted(y)' <=> Unposted(y)
                        /\ Posted(y)' <=> Posted(y)
                        /\ Running(y)' <=> Running(y)
                        /\ Holds(y)' <=> Holds(y)
                        /\ AtShutdown(y)' <=> AtShutdown(y)
    BY <1>0, <1>a, Typed DEF Unposted, Posted, Running, Holds, AtShutdown,
       SameQueue
  <2>3. \A p, q \in Threads : tf'[p] = tf'[q] /\ tf'[p] # None => p = q
    BY <1>0, <1>a DEF IInv, FutureOnce
  <2>4. \A y \in Jobs : completed'[y] = completed[y] + One(y \in xf[s]) /\ completed[y] \in Nat
    BY <1>0, <1>a, Typed DEF One
  <2>5. ASSUME NEW y \in Jobs
        PROVE  completed'[y] + One(Unposted(y)') + One(Posted(y)') + One(Running(y)')
                   + One(Holds(y)') + One(AtTerminate(y)') + One(AtShutdown(y)') = 1
    <3>1. completed[y] + One(Unposted(y)) + One(Posted(y)) + One(Running(y))
              + One(Holds(y)) + One(AtTerminate(y)) + One(AtShutdown(y)) = 1
      BY DEF IInv, FutureOnce
    <3> QED
      BY <2>1, <2>2, <2>4, <3>1, <1>a DEF One
  <2> QED
    BY <2>3, <2>5 DEF FutureOnce
<1>10. RefsRight'
  <2>1. \A x \in Sessions : /\ Stopping(x)' <=> Stopping(x)
                            /\ Ending(x)' <=> Ending(x)
                            /\ Unqueued(x)' <=> Unqueued(x)
    BY <1>0, <1>a DEF Stopping, Ending, Unqueued
  <2>2. \A x \in Sessions : Calls(x)' = Calls(x)
    BY <1>0, KeepCalls
  <2> QED
    BY <1>0, <2>1, <2>2, KeepRefs
<1> QED
  BY <1>1, <1>2, <1>3, <1>4, <1>5, <1>6, <1>7, <1>8, <1>9, <1>10 DEF IInv

(* workerShutdown returns its reference. *)
LEMMA Inv_shutdown_release ==
  ASSUME IInv, ~panicked, NEW s \in Sessions,
         shutdown_release(s)
  PROVE  IInv'
<1>a. /\ spc[s] = "release" /\ Stopping(s) /\ w[s].refs # 0 /\ s \in spawned /\ s \notin freed
      /\ w[s].queue # <<>> => w[s].refs # 1
  <2>1. spc[s] = "release" /\ Stopping(s) /\ (Ending(s) \/ Stopping(s))
    BY DEF shutdown_release, Ending, Stopping
  <2> QED
    BY <2>1, Referred, QueueHeld
<1>0. /\ w' \in [Sessions -> Session]
      /\ \A x \in Sessions : /\ w'[x].refs = w[x].refs - One(x = s)
                             /\ SameQueue(x) /\ SameFlags(x)
                             /\ w'[x].bound <=> w[x].bound
      /\ freed' = freed \cup (IF w[s].refs = 1 THEN {s} ELSE {}) /\ freed' \subseteq spawned
      /\ spc'[s] = "done" /\ \A x \in Sessions : x # s => spc'[x] = spc[x]
      /\ UNCHANGED <<spawned, registered, runq, running, injected, idle,
                     refusals, watching, stalled, mon, tpc, word, tw, tj, tf,
                     dpc, xpc, xf, sf, completed, panicked>>
  <2>1. /\ w' \in [Sessions -> Session]
        /\ \A x \in Sessions : /\ w'[x].refs = w[x].refs - One(x = s)
                               /\ SameQueue(x) /\ SameFlags(x)
                               /\ w'[x].bound <=> w[x].bound
    BY <1>a, DropRef DEF shutdown_release
  <2>2. /\ freed' = freed \cup (IF w[s].refs = 1 THEN {s} ELSE {}) /\ freed' \subseteq spawned
        /\ spc'[s] = "done" /\ \A x \in Sessions : x # s => spc'[x] = spc[x]
        /\ UNCHANGED <<spawned, registered, runq, running, injected, idle,
                       refusals, watching, stalled, mon, tpc, word, tw, tj, tf,
                       dpc, xpc, xf, sf, completed, panicked>>
    BY <1>a, Typed, DropRef DEF shutdown_release, poolVars, monVars, threadVars
  <2> QED
    BY <2>1, <2>2
<1>1. TypeOK'
  <2>1. spc' \in [Sessions -> {"new", "stop", "complete", "release", "done"}]
    BY <1>a, EndTypes DEF shutdown_release
  <2> QED
    BY <1>0, <2>1, Typed, <1>a DEF IInv, TypeOK, Session, ThreadPCs,
       DispatchPCs, EndPCs
<1>2. ThreadsRight'
  BY <1>0, KeepThreads
<1>3. PoolAccounting'
  BY <1>0, KeepCount
<1>4. Exclusive'
  BY <1>0, <1>a, KeepExclusive
<1>5. RunsRight'
  BY <1>0, <1>a, KeepRuns DEF SameQueue, SameFlags
<1>6. QueuesRight'
  BY <1>0, <1>a DEF IInv, QueuesRight, SameQueue, SameFlags
<1>7. Home'
  <2>1. \A x \in Sessions : SameQueue(x) /\ xf'[x] \subseteq xf[x] /\ sf'[x] \subseteq sf[x]
    BY <1>0 DEF SameQueue
  <2>2. \A x \in Sessions : /\ xf'[x] # {} => xpc'[x] = "complete"
                            /\ sf'[x] # {} => spc'[x] = "complete"
    BY <1>0, <1>a DEF IInv, Home
  <2> QED
    BY <2>1, <2>2, KeepHome
<1>8. Ends'
  BY <1>0, <1>a DEF IInv, Ends, SameQueue, SameFlags
<1>9. FutureOnce'
  BY <1>0, <1>a, KeepFuture DEF SameQueue, SameFlags, Unposted
<1>10. RefsRight'
  <2>1. \A x \in Sessions : Stopping(x)' <=> Stopping(x) /\ x # s
    BY <1>0, <1>a DEF Stopping
  <2>2. \A x \in Sessions : /\ Ending(x)' <=> Ending(x)
                            /\ Serves(x)' <=> Serves(x)
                            /\ Queued(x)' <=> Queued(x)
                            /\ Unqueued(x)' <=> Unqueued(x)
    BY <1>0, <1>a DEF Ending, Serves, Queued, Unqueued
  <2>3. \A x \in Sessions : x \in registered' <=> x \in registered
    BY <1>0, <1>a
  <2>4. \A x \in Sessions : Calls(x)' = Calls(x) /\ Calls(x) \in Nat
    BY <1>0, KeepCalls, InCallType
  <2>5. ASSUME NEW x \in Sessions PROVE w'[x].refs = RefSum(x)'
    <3>1. w[x].refs = RefSum(x) /\ w'[x].refs = w[x].refs - One(x = s)
      BY <1>0, <1>a DEF IInv, RefsRight
    <3> QED
      BY <2>1, <2>2, <2>3, <2>4, <3>1, <1>a DEF RefSum, One
  <2>6. ASSUME NEW x \in Sessions, x \notin spawned' \/ x \in freed' PROVE w'[x].refs = 0
    BY <1>0, <1>a, <2>6 DEF IInv, RefsRight, One
  <2> QED
    BY <2>5, <2>6 DEF RefsRight
<1> QED
  BY <1>1, <1>2, <1>3, <1>4, <1>5, <1>6, <1>7, <1>8, <1>9, <1>10 DEF IInv

(* workerTerminate takes the session off the id table. *)
LEMMA Inv_terminate_take ==
  ASSUME IInv, ~panicked, NEW s \in Sessions,
         terminate_take(s)
  PROVE  IInv'
<1>a. xpc[s] = "new" /\ ~Ending(s) /\ s \in registered
  BY DEF terminate_take, Ending
<1>0. /\ registered' = registered \ {s}
      /\ xpc'[s] = "stop" /\ \A x \in Sessions : x # s => xpc'[x] = xpc[x]
      /\ UNCHANGED <<w, spawned, freed, runq, running, injected, idle, refusals,
                     watching, stalled, mon, tpc, word, tw, tj, tf, dpc, xf,
                     spc, sf, completed, panicked>>
  BY <1>a, Typed DEF terminate_take, poolVars, monVars, threadVars
<1>1. TypeOK'
  <2>1. xpc' \in [Sessions -> EndPCs]
    BY <1>a, EndTypes DEF terminate_take, EndPCs
  <2> QED
    BY <1>0, <2>1, Typed, <1>a DEF IInv, TypeOK, Session, ThreadPCs,
       DispatchPCs, EndPCs
<1>2. ThreadsRight'
  BY <1>0, KeepThreads
<1>3. PoolAccounting'
  BY <1>0, KeepCount
<1>4. Exclusive'
  BY <1>0, <1>a, KeepExclusive
<1>5. RunsRight'
  BY <1>0, KeepRuns
<1>6. QueuesRight'
  BY <1>0, <1>a DEF IInv, QueuesRight
<1>7. Home'
  <2>1. \A x \in Sessions : SameQueue(x) /\ xf'[x] \subseteq xf[x] /\ sf'[x] \subseteq sf[x]
    BY <1>0 DEF SameQueue
  <2>2. \A x \in Sessions : /\ xf'[x] # {} => xpc'[x] = "complete"
                            /\ sf'[x] # {} => spc'[x] = "complete"
    BY <1>0, <1>a DEF IInv, Home
  <2> QED
    BY <2>1, <2>2, KeepHome
<1>8. Ends'
  BY <1>0, <1>a DEF IInv, Ends
<1>9. FutureOnce'
  BY <1>0, KeepFuture DEF Unposted
<1>10. RefsRight'
  <2>1. \A x \in Sessions : Ending(x)' <=> Ending(x) \/ x = s
    BY <1>0, <1>a DEF Ending
  <2>2. \A x \in Sessions : /\ Stopping(x)' <=> Stopping(x)
                            /\ Serves(x)' <=> Serves(x)
                            /\ Queued(x)' <=> Queued(x)
                            /\ Unqueued(x)' <=> Unqueued(x)
    BY <1>0, <1>a DEF Stopping, Serves, Queued, Unqueued
  <2>3. \A x \in Sessions : x \in registered' <=> x \in registered /\ x # s
    BY <1>0, <1>a
  <2>4. \A x \in Sessions : Calls(x)' = Calls(x) /\ Calls(x) \in Nat
    BY <1>0, KeepCalls, InCallType
  <2>5. ASSUME NEW x \in Sessions PROVE w'[x].refs = RefSum(x)'
    <3>1. w[x].refs = RefSum(x) /\ w'[x].refs = w[x].refs
      BY <1>0, <1>a DEF IInv, RefsRight
    <3> QED
      BY <2>1, <2>2, <2>3, <2>4, <3>1, <1>a DEF RefSum, One
  <2>6. ASSUME NEW x \in Sessions, x \notin spawned' \/ x \in freed' PROVE w'[x].refs = 0
    BY <1>0, <1>a, <2>6 DEF IInv, RefsRight, One
  <2> QED
    BY <2>5, <2>6 DEF RefsRight
<1> QED
  BY <1>1, <1>2, <1>3, <1>4, <1>5, <1>6, <1>7, <1>8, <1>9, <1>10 DEF IInv

(* workerTerminate takes the session off the run queue. *)
LEMMA Inv_unqueue_worker ==
  ASSUME IInv, ~panicked, NEW s \in Sessions,
         unqueue_worker(s)
  PROVE  IInv'
<1>a. xpc[s] = "unqueue" /\ ~Unqueuing(s) /\ ~Unqueued(s) /\ Distinct(runq)
  BY DEF unqueue_worker, Unqueuing, Unqueued, IInv, Exclusive
<1>0. /\ runq' \in Seq(Sessions) /\ Distinct(runq')
      /\ \A x \in Sessions : Queued(x)' <=> Queued(x) /\ x # s
      /\ xpc'[s] = (IF Queued(s) THEN "unbind" ELSE "look")
      /\ \A x \in Sessions : x # s => xpc'[x] = xpc[x]
      /\ UNCHANGED <<w, spawned, registered, freed, running, injected, idle,
                     refusals, watching, stalled, mon, tpc, word, tw, tj, tf,
                     dpc, xf, spc, sf, completed, panicked>>
  BY <1>a, Typed, WithoutFacts DEF unqueue_worker, sessionVars, monVars,
     threadVars, Queued
<1>1. TypeOK'
  <2>1. xpc' \in [Sessions -> EndPCs]
    BY <1>a, EndTypes DEF unqueue_worker, EndPCs
  <2> QED
    BY <1>0, <2>1, Typed, <1>a DEF IInv, TypeOK, Session, ThreadPCs,
       DispatchPCs, EndPCs
<1>2. ThreadsRight'
  BY <1>0, KeepThreads
<1>3. PoolAccounting'
  BY <1>0, KeepCount
<1>4. Exclusive'
  <2>1. \A x \in Sessions : Queued(x)' <=> Queued(x) /\ x # s
    BY <1>0, <1>a DEF Queued
  <2>2. \A x \in Sessions : Unqueuing(x)' <=> IF x = s THEN Queued(s) ELSE Unqueuing(x)
    BY <1>0, <1>a DEF Unqueuing
  <2>3. \A x \in Sessions : /\ Serves(x)' <=> Serves(x)
                            /\ Binds(x)' <=> Binds(x)
    BY <1>0, <1>a DEF Serves, Binds
  <2>4. Distinct(runq')
    BY <1>0, <1>a DEF IInv, Exclusive
  <2>5. \A p, q \in Threads : tw'[p] = tw'[q] /\ tw'[p] # None => p = q
    BY <1>0, <1>a DEF IInv, Exclusive
  <2>6. \A p, q \in Jobs :
          dpc'[p] = "bind" /\ dpc'[q] = "bind" /\ On[p] = On[q] => p = q
    BY <1>0, <1>a DEF IInv, Exclusive
  <2>7. \A x \in Sessions : w'[x].bound <=> w[x].bound
    BY <1>0, <1>a
  <2>8. ASSUME NEW x \in Sessions
        PROVE  One(Serves(x)') + One(Binds(x)') + One(Queued(x)') + One(Unqueuing(x)')
                   = One(w'[x].bound)
    <3>1. One(Serves(x)) + One(Binds(x)) + One(Queued(x)) + One(Unqueuing(x)) = One(w[x].bound)
      BY DEF IInv, Exclusive
    <3> QED
      BY <2>1, <2>2, <2>3, <2>7, <3>1, <1>a DEF One
  <2> QED
    BY <2>4, <2>5, <2>6, <2>8 DEF Exclusive
<1>5. RunsRight'
  BY <1>0, KeepRuns
<1>6. QueuesRight'
  BY <1>0, <1>a DEF IInv, QueuesRight
<1>7. Home'
  <2>1. \A x \in Sessions : SameQueue(x) /\ xf'[x] \subseteq xf[x] /\ sf'[x] \subseteq sf[x]
    BY <1>0 DEF SameQueue
  <2>2. \A x \in Sessions : /\ xf'[x] # {} => xpc'[x] = "complete"
                            /\ sf'[x] # {} => spc'[x] = "complete"
    BY <1>0, <1>a DEF IInv, Home
  <2> QED
    BY <2>1, <2>2, KeepHome
<1>8. Ends'
  BY <1>0, <1>a DEF IInv, Ends
<1>9. FutureOnce'
  BY <1>0, KeepFuture DEF Unposted
<1>10. RefsRight'
  <2>1. \A x \in Sessions : Queued(x)' <=> Queued(x) /\ x # s
    BY <1>0, <1>a DEF Queued
  <2>2. \A x \in Sessions : Unqueued(x)' <=> IF x = s THEN Queued(s) ELSE Unqueued(x)
    BY <1>0, <1>a DEF Unqueued
  <2>3. \A x \in Sessions : /\ Stopping(x)' <=> Stopping(x)
                            /\ Ending(x)' <=> Ending(x)
                            /\ Serves(x)' <=> Serves(x)
    BY <1>0, <1>a DEF Stopping, Ending, Serves
  <2>4. \A x \in Sessions : x \in registered' <=> x \in registered
    BY <1>0, <1>a
  <2>5. \A x \in Sessions : Calls(x)' = Calls(x) /\ Calls(x) \in Nat
    BY <1>0, KeepCalls, InCallType
  <2>6. ASSUME NEW x \in Sessions PROVE w'[x].refs = RefSum(x)'
    <3>1. w[x].refs = RefSum(x) /\ w'[x].refs = w[x].refs
      BY <1>0, <1>a DEF IInv, RefsRight
    <3> QED
      BY <2>1, <2>2, <2>3, <2>4, <2>5, <3>1, <1>a DEF RefSum, One
  <2>7. ASSUME NEW x \in Sessions, x \notin spawned' \/ x \in freed' PROVE w'[x].refs = 0
    BY <1>0, <1>a, <2>7 DEF IInv, RefsRight, One
  <2> QED
    BY <2>6, <2>7 DEF RefsRight
<1> QED
  BY <1>1, <1>2, <1>3, <1>4, <1>5, <1>6, <1>7, <1>8, <1>9, <1>10 DEF IInv

(* An unqueued session is not bound any more. *)
LEMMA Inv_terminate_unbind ==
  ASSUME IInv, ~panicked, NEW s \in Sessions,
         terminate_unbind(s)
  PROVE  IInv'
<1>a. /\ xpc[s] = "unbind" /\ Unqueuing(s) /\ Unqueued(s) /\ w[s].queue = <<>>
  BY DEF terminate_unbind, Unqueuing, Unqueued, IInv, QueuesRight
<1>0. /\ w' \in [Sessions -> Session]
      /\ \A x \in Sessions : x # s => w'[x] = w[x]
      /\ w'[s].refs = w[s].refs /\ SameQueue(s) /\ SameFlags(s) /\ ~w'[s].bound
      /\ xpc'[s] = "unref" /\ \A x \in Sessions : x # s => xpc'[x] = xpc[x]
      /\ UNCHANGED <<spawned, registered, freed, runq, running, injected, idle,
                     refusals, watching, stalled, mon, tpc, word, tw, tj, tf,
                     dpc, xf, spc, sf, completed, panicked>>
  <2>1. /\ w' \in [Sessions -> Session]
        /\ \A x \in Sessions : x # s => w'[x] = w[x]
        /\ w'[s].refs = w[s].refs /\ SameQueue(s) /\ SameFlags(s) /\ ~w'[s].bound
    BY WType DEF terminate_unbind, Session, SameQueue, SameFlags
  <2>2. /\ xpc'[s] = "unref" /\ \A x \in Sessions : x # s => xpc'[x] = xpc[x]
        /\ UNCHANGED <<spawned, registered, freed, runq, running, injected, idle,
                       refusals, watching, stalled, mon, tpc, word, tw, tj, tf,
                       dpc, xf, spc, sf, completed, panicked>>
    BY <1>a, Typed DEF terminate_unbind, poolVars, monVars, threadVars
  <2> QED
    BY <2>1, <2>2
<1>1. TypeOK'
  <2>1. xpc' \in [Sessions -> EndPCs]
    BY <1>a, EndTypes DEF terminate_unbind, EndPCs
  <2> QED
    BY <1>0, <2>1, Typed, <1>a DEF IInv, TypeOK, Session, ThreadPCs,
       DispatchPCs, EndPCs
<1>2. ThreadsRight'
  BY <1>0, KeepThreads
<1>3. PoolAccounting'
  BY <1>0, KeepCount
<1>4. Exclusive'
  <2>1. \A x \in Sessions : Unqueuing(x)' <=> Unqueuing(x) /\ x # s
    BY <1>0, <1>a DEF Unqueuing
  <2>2. \A x \in Sessions : /\ Serves(x)' <=> Serves(x)
                            /\ Binds(x)' <=> Binds(x)
                            /\ Queued(x)' <=> Queued(x)
    BY <1>0, <1>a DEF Serves, Binds, Queued
  <2>3. Distinct(runq')
    BY <1>0, <1>a DEF IInv, Exclusive
  <2>4. \A p, q \in Threads : tw'[p] = tw'[q] /\ tw'[p] # None => p = q
    BY <1>0, <1>a DEF IInv, Exclusive
  <2>5. \A p, q \in Jobs :
          dpc'[p] = "bind" /\ dpc'[q] = "bind" /\ On[p] = On[q] => p = q
    BY <1>0, <1>a DEF IInv, Exclusive
  <2>6. \A x \in Sessions : w'[x].bound <=> w[x].bound /\ x # s
    BY <1>0, <1>a
  <2>7. ASSUME NEW x \in Sessions
        PROVE  One(Serves(x)') + One(Binds(x)') + One(Queued(x)') + One(Unqueuing(x)')
                   = One(w'[x].bound)
    <3>1. One(Serves(x)) + One(Binds(x)) + One(Queued(x)) + One(Unqueuing(x)) = One(w[x].bound)
      BY DEF IInv, Exclusive
    <3> QED
      BY <2>1, <2>2, <2>6, <3>1, <1>a DEF One
  <2> QED
    BY <2>3, <2>4, <2>5, <2>7 DEF Exclusive
<1>5. RunsRight'
  BY <1>0, <1>a, KeepRuns DEF SameQueue, SameFlags
<1>6. QueuesRight'
  BY <1>0, <1>a DEF IInv, QueuesRight, SameQueue, SameFlags
<1>7. Home'
  <2>1. \A x \in Sessions : SameQueue(x) /\ xf'[x] \subseteq xf[x] /\ sf'[x] \subseteq sf[x]
    BY <1>0 DEF SameQueue
  <2>2. \A x \in Sessions : /\ xf'[x] # {} => xpc'[x] = "complete"
                            /\ sf'[x] # {} => spc'[x] = "complete"
    BY <1>0, <1>a DEF IInv, Home
  <2> QED
    BY <2>1, <2>2, KeepHome
<1>8. Ends'
  BY <1>0, <1>a DEF IInv, Ends, SameQueue, SameFlags
<1>9. FutureOnce'
  BY <1>0, <1>a, KeepFuture DEF SameQueue, SameFlags, Unposted
<1>10. RefsRight'
  <2>1. \A x \in Sessions : /\ Stopping(x)' <=> Stopping(x)
                            /\ Ending(x)' <=> Ending(x)
                            /\ Unqueued(x)' <=> Unqueued(x)
    BY <1>0, <1>a DEF Stopping, Ending, Unqueued
  <2>2. \A x \in Sessions : Calls(x)' = Calls(x)
    BY <1>0, KeepCalls
  <2> QED
    BY <1>0, <2>1, <2>2, KeepRefs
<1> QED
  BY <1>1, <1>2, <1>3, <1>4, <1>5, <1>6, <1>7, <1>8, <1>9, <1>10 DEF IInv

(* The reference of the thread the session will not get. *)
LEMMA Inv_terminate_unref ==
  ASSUME IInv, ~panicked, NEW s \in Sessions,
         terminate_unref(s)
  PROVE  IInv'
<1>a. /\ xpc[s] = "unref" /\ Unqueued(s) /\ w[s].refs # 0 /\ s \in spawned /\ s \notin freed
      /\ w[s].queue # <<>> => w[s].refs # 1
  <2>1. xpc[s] = "unref" /\ Unqueued(s) /\ (Ending(s) \/ Stopping(s))
    BY DEF terminate_unref, Ending, Stopping, Unqueued
  <2> QED
    BY <2>1, Referred, QueueHeld
<1>0. /\ w' \in [Sessions -> Session]
      /\ \A x \in Sessions : /\ w'[x].refs = w[x].refs - One(x = s)
                             /\ SameQueue(x) /\ SameFlags(x)
                             /\ w'[x].bound <=> w[x].bound
      /\ freed' = freed \cup (IF w[s].refs = 1 THEN {s} ELSE {}) /\ freed' \subseteq spawned
      /\ xpc'[s] = "look" /\ \A x \in Sessions : x # s => xpc'[x] = xpc[x]
      /\ UNCHANGED <<spawned, registered, runq, running, injected, idle,
                     refusals, watching, stalled, mon, tpc, word, tw, tj, tf,
                     dpc, xf, spc, sf, completed, panicked>>
  <2>1. /\ w' \in [Sessions -> Session]
        /\ \A x \in Sessions : /\ w'[x].refs = w[x].refs - One(x = s)
                               /\ SameQueue(x) /\ SameFlags(x)
                               /\ w'[x].bound <=> w[x].bound
    BY <1>a, DropRef DEF terminate_unref
  <2>2. /\ freed' = freed \cup (IF w[s].refs = 1 THEN {s} ELSE {}) /\ freed' \subseteq spawned
        /\ xpc'[s] = "look" /\ \A x \in Sessions : x # s => xpc'[x] = xpc[x]
        /\ UNCHANGED <<spawned, registered, runq, running, injected, idle,
                       refusals, watching, stalled, mon, tpc, word, tw, tj, tf,
                       dpc, xf, spc, sf, completed, panicked>>
    BY <1>a, Typed, DropRef DEF terminate_unref, poolVars, monVars, threadVars
  <2> QED
    BY <2>1, <2>2
<1>1. TypeOK'
  <2>1. xpc' \in [Sessions -> EndPCs]
    BY <1>a, EndTypes DEF terminate_unref, EndPCs
  <2> QED
    BY <1>0, <2>1, Typed, <1>a DEF IInv, TypeOK, Session, ThreadPCs,
       DispatchPCs, EndPCs
<1>2. ThreadsRight'
  BY <1>0, KeepThreads
<1>3. PoolAccounting'
  BY <1>0, KeepCount
<1>4. Exclusive'
  BY <1>0, <1>a, KeepExclusive
<1>5. RunsRight'
  BY <1>0, <1>a, KeepRuns DEF SameQueue, SameFlags
<1>6. QueuesRight'
  BY <1>0, <1>a DEF IInv, QueuesRight, SameQueue, SameFlags
<1>7. Home'
  <2>1. \A x \in Sessions : SameQueue(x) /\ xf'[x] \subseteq xf[x] /\ sf'[x] \subseteq sf[x]
    BY <1>0 DEF SameQueue
  <2>2. \A x \in Sessions : /\ xf'[x] # {} => xpc'[x] = "complete"
                            /\ sf'[x] # {} => spc'[x] = "complete"
    BY <1>0, <1>a DEF IInv, Home
  <2> QED
    BY <2>1, <2>2, KeepHome
<1>8. Ends'
  BY <1>0, <1>a DEF IInv, Ends, SameQueue, SameFlags
<1>9. FutureOnce'
  BY <1>0, <1>a, KeepFuture DEF SameQueue, SameFlags, Unposted
<1>10. RefsRight'
  <2>1. \A x \in Sessions : Unqueued(x)' <=> Unqueued(x) /\ x # s
    BY <1>0, <1>a DEF Unqueued
  <2>2. \A x \in Sessions : /\ Stopping(x)' <=> Stopping(x)
                            /\ Ending(x)' <=> Ending(x)
                            /\ Serves(x)' <=> Serves(x)
                            /\ Queued(x)' <=> Queued(x)
    BY <1>0, <1>a DEF Stopping, Ending, Serves, Queued
  <2>3. \A x \in Sessions : x \in registered' <=> x \in registered
    BY <1>0, <1>a
  <2>4. \A x \in Sessions : Calls(x)' = Calls(x) /\ Calls(x) \in Nat
    BY <1>0, KeepCalls, InCallType
  <2>5. ASSUME NEW x \in Sessions PROVE w'[x].refs = RefSum(x)'
    <3>1. w[x].refs = RefSum(x) /\ w'[x].refs = w[x].refs - One(x = s)
      BY <1>0, <1>a DEF IInv, RefsRight
    <3> QED
      BY <2>1, <2>2, <2>3, <2>4, <3>1, <1>a DEF RefSum, One
  <2>6. ASSUME NEW x \in Sessions, x \notin spawned' \/ x \in freed' PROVE w'[x].refs = 0
    BY <1>0, <1>a, <2>6 DEF IInv, RefsRight, One
  <2> QED
    BY <2>5, <2>6 DEF RefsRight
<1> QED
  BY <1>1, <1>2, <1>3, <1>4, <1>5, <1>6, <1>7, <1>8, <1>9, <1>10 DEF IInv

(* workerTerminate waits for the serving thread. *)
LEMMA Inv_terminate_look ==
  ASSUME IInv, ~panicked, NEW s \in Sessions,
         terminate_look(s)
  PROVE  IInv'
<1>a. xpc[s] = "look"
  BY DEF terminate_look
<1>0. /\ xpc'[s] = (IF ~w[s].detached /\ w[s].bound THEN "wait" ELSE "release")
      /\ \A x \in Sessions : x # s => xpc'[x] = xpc[x]
      /\ UNCHANGED <<w, spawned, registered, freed, runq, running, injected,
                     idle, refusals, watching, stalled, mon, tpc, word, tw, tj,
                     tf, dpc, xf, spc, sf, completed, panicked>>
  BY <1>a, Typed DEF terminate_look, sessionVars, poolVars, monVars, threadVars
<1>1. TypeOK'
  <2>1. xpc' \in [Sessions -> EndPCs]
    BY <1>a, EndTypes DEF terminate_look, EndPCs
  <2> QED
    BY <1>0, <2>1, Typed, <1>a DEF IInv, TypeOK, Session, ThreadPCs,
       DispatchPCs, EndPCs
<1>2. ThreadsRight'
  BY <1>0, KeepThreads
<1>3. PoolAccounting'
  BY <1>0, KeepCount
<1>4. Exclusive'
  BY <1>0, <1>a, KeepExclusive
<1>5. RunsRight'
  BY <1>0, KeepRuns
<1>6. QueuesRight'
  BY <1>0, <1>a DEF IInv, QueuesRight
<1>7. Home'
  <2>1. \A x \in Sessions : SameQueue(x) /\ xf'[x] \subseteq xf[x] /\ sf'[x] \subseteq sf[x]
    BY <1>0 DEF SameQueue
  <2>2. \A x \in Sessions : /\ xf'[x] # {} => xpc'[x] = "complete"
                            /\ sf'[x] # {} => spc'[x] = "complete"
    BY <1>0, <1>a DEF IInv, Home
  <2> QED
    BY <2>1, <2>2, KeepHome
<1>8. Ends'
  BY <1>0, <1>a DEF IInv, Ends
<1>9. FutureOnce'
  BY <1>0, KeepFuture DEF Unposted
<1>10. RefsRight'
  <2>1. \A x \in Sessions : /\ Stopping(x)' <=> Stopping(x)
                            /\ Ending(x)' <=> Ending(x)
                            /\ Unqueued(x)' <=> Unqueued(x)
    BY <1>0, <1>a DEF Stopping, Ending, Unqueued
  <2>2. \A x \in Sessions : Calls(x)' = Calls(x)
    BY <1>0, KeepCalls
  <2> QED
    BY <1>0, <2>1, <2>2, KeepRefs
<1> QED
  BY <1>1, <1>2, <1>3, <1>4, <1>5, <1>6, <1>7, <1>8, <1>9, <1>10 DEF IInv

(* workerTerminate returns the reference of the id table. *)
LEMMA Inv_terminate_release ==
  ASSUME IInv, ~panicked, NEW s \in Sessions,
         terminate_release(s)
  PROVE  IInv'
<1>a. /\ xpc[s] = "release" /\ Ending(s) /\ w[s].refs # 0 /\ s \in spawned /\ s \notin freed
      /\ w[s].queue # <<>> => w[s].refs # 1
  <2>1. xpc[s] = "release" /\ Ending(s) /\ (Ending(s) \/ Stopping(s))
    BY DEF terminate_release, Ending, Stopping
  <2> QED
    BY <2>1, Referred, QueueHeld
<1>0. /\ w' \in [Sessions -> Session]
      /\ \A x \in Sessions : /\ w'[x].refs = w[x].refs - One(x = s)
                             /\ SameQueue(x) /\ SameFlags(x)
                             /\ w'[x].bound <=> w[x].bound
      /\ freed' = freed \cup (IF w[s].refs = 1 THEN {s} ELSE {}) /\ freed' \subseteq spawned
      /\ xpc'[s] = "done" /\ \A x \in Sessions : x # s => xpc'[x] = xpc[x]
      /\ UNCHANGED <<spawned, registered, runq, running, injected, idle,
                     refusals, watching, stalled, mon, tpc, word, tw, tj, tf,
                     dpc, xf, spc, sf, completed, panicked>>
  <2>1. /\ w' \in [Sessions -> Session]
        /\ \A x \in Sessions : /\ w'[x].refs = w[x].refs - One(x = s)
                               /\ SameQueue(x) /\ SameFlags(x)
                               /\ w'[x].bound <=> w[x].bound
    BY <1>a, DropRef DEF terminate_release
  <2>2. /\ freed' = freed \cup (IF w[s].refs = 1 THEN {s} ELSE {}) /\ freed' \subseteq spawned
        /\ xpc'[s] = "done" /\ \A x \in Sessions : x # s => xpc'[x] = xpc[x]
        /\ UNCHANGED <<spawned, registered, runq, running, injected, idle,
                       refusals, watching, stalled, mon, tpc, word, tw, tj, tf,
                       dpc, xf, spc, sf, completed, panicked>>
    BY <1>a, Typed, DropRef DEF terminate_release, poolVars, monVars, threadVars
  <2> QED
    BY <2>1, <2>2
<1>1. TypeOK'
  <2>1. xpc' \in [Sessions -> EndPCs]
    BY <1>a, EndTypes DEF terminate_release, EndPCs
  <2> QED
    BY <1>0, <2>1, Typed, <1>a DEF IInv, TypeOK, Session, ThreadPCs,
       DispatchPCs, EndPCs
<1>2. ThreadsRight'
  BY <1>0, KeepThreads
<1>3. PoolAccounting'
  BY <1>0, KeepCount
<1>4. Exclusive'
  BY <1>0, <1>a, KeepExclusive
<1>5. RunsRight'
  BY <1>0, <1>a, KeepRuns DEF SameQueue, SameFlags
<1>6. QueuesRight'
  BY <1>0, <1>a DEF IInv, QueuesRight, SameQueue, SameFlags
<1>7. Home'
  <2>1. \A x \in Sessions : SameQueue(x) /\ xf'[x] \subseteq xf[x] /\ sf'[x] \subseteq sf[x]
    BY <1>0 DEF SameQueue
  <2>2. \A x \in Sessions : /\ xf'[x] # {} => xpc'[x] = "complete"
                            /\ sf'[x] # {} => spc'[x] = "complete"
    BY <1>0, <1>a DEF IInv, Home
  <2> QED
    BY <2>1, <2>2, KeepHome
<1>8. Ends'
  BY <1>0, <1>a DEF IInv, Ends, SameQueue, SameFlags
<1>9. FutureOnce'
  BY <1>0, <1>a, KeepFuture DEF SameQueue, SameFlags, Unposted
<1>10. RefsRight'
  <2>1. \A x \in Sessions : Ending(x)' <=> Ending(x) /\ x # s
    BY <1>0, <1>a DEF Ending
  <2>2. \A x \in Sessions : /\ Stopping(x)' <=> Stopping(x)
                            /\ Serves(x)' <=> Serves(x)
                            /\ Queued(x)' <=> Queued(x)
                            /\ Unqueued(x)' <=> Unqueued(x)
    BY <1>0, <1>a DEF Stopping, Serves, Queued, Unqueued
  <2>3. \A x \in Sessions : x \in registered' <=> x \in registered
    BY <1>0, <1>a
  <2>4. \A x \in Sessions : Calls(x)' = Calls(x) /\ Calls(x) \in Nat
    BY <1>0, KeepCalls, InCallType
  <2>5. ASSUME NEW x \in Sessions PROVE w'[x].refs = RefSum(x)'
    <3>1. w[x].refs = RefSum(x) /\ w'[x].refs = w[x].refs - One(x = s)
      BY <1>0, <1>a DEF IInv, RefsRight
    <3> QED
      BY <2>1, <2>2, <2>3, <2>4, <3>1, <1>a DEF RefSum, One
  <2>6. ASSUME NEW x \in Sessions, x \notin spawned' \/ x \in freed' PROVE w'[x].refs = 0
    BY <1>0, <1>a, <2>6 DEF IInv, RefsRight, One
  <2> QED
    BY <2>5, <2>6 DEF RefsRight
<1> QED
  BY <1>1, <1>2, <1>3, <1>4, <1>5, <1>6, <1>7, <1>8, <1>9, <1>10 DEF IInv

-----------------------------------------------------------------------------
(* run_worker and worker_main.                                             *)

(* A thread takes the next job. *)
LEMMA Inv_take_job ==
  ASSUME IInv, ~panicked, NEW t \in Threads,
         NEW s \in Sessions, s = tw[t], NEW h \in Jobs, h = Head(w[s].queue),
         take_job(t)
  PROVE  IInv'
<1>a. /\ tpc[t] = "serve" /\ w[s].queue # <<>> /\ ~w[s].dead /\ tf[t] = None
      /\ w[s].queue \in Seq(Jobs) /\ Distinct(w[s].queue) /\ w[s].active = None
      /\ \A x \in Threads : tw[x] = s => x = t
      /\ On[h] = s /\ Posted(h) /\ Elems(Tail(w[s].queue)) = Elems(w[s].queue) \ {h}
      /\ Distinct(Tail(w[s].queue)) /\ Tail(w[s].queue) \in Seq(Jobs)
      /\ s \in OneShot => Tail(w[s].queue) = <<>>
  <2>1. /\ tpc[t] = "serve" /\ w[s].queue # <<>> /\ ~w[s].dead
    BY DEF take_job
  <2>2. /\ w[s].active = None /\ \A x \in Threads : tw[x] = s => x = t
    BY <2>1, ServedBy
  <2>3. tf[t] = None
    BY <2>1 DEF IInv, RunsRight
  <2>4. w[s].queue \in Seq(Jobs) /\ Distinct(w[s].queue)
    BY WType DEF Session, IInv, QueuesRight
  <2>5. /\ Elems(Tail(w[s].queue)) = Elems(w[s].queue) \ {h} /\ h \in Elems(w[s].queue)
        /\ Distinct(Tail(w[s].queue)) /\ Tail(w[s].queue) \in Seq(Jobs)
        /\ Len(Tail(w[s].queue)) = Len(w[s].queue) - 1 /\ Len(w[s].queue) \in Nat
    BY <2>1, <2>4, TailFacts
  <2>6. On[h] = s /\ Posted(h)
    BY <2>5 DEF IInv, Home, Posted
  <2>7. s \in OneShot => Len(w[s].queue) <= 1
    BY DEF IInv, QueuesRight
  <2>8. s \in OneShot => Tail(w[s].queue) = <<>>
    BY <2>5, <2>7
  <2> QED
    BY <2>1, <2>2, <2>3, <2>4, <2>5, <2>6, <2>8
<1>b. Posted(h)
  BY <1>a
<1>0. /\ w' \in [Sessions -> Session]
      /\ \A x \in Sessions : x # s => w'[x] = w[x]
      /\ w'[s].refs = w[s].refs /\ w'[s].queue = Tail(w[s].queue) /\ w'[s].active = h
      /\ w'[s].busy /\ w'[s].dead = w[s].dead /\ w'[s].bound = w[s].bound
      /\ w'[s].detached = w[s].detached
      /\ tj'[t] = h /\ \A x \in Threads : x # t => tj'[x] = tj[x]
      /\ tpc'[t] = "run" /\ \A x \in Threads : x # t => tpc'[x] = tpc[x]
      /\ UNCHANGED <<spawned, registered, freed, runq, running, injected, idle,
                     refusals, watching, stalled, mon, word, tw, tf, dpc, xpc,
                     xf, spc, sf, completed, panicked>>
  <2>1. /\ w' \in [Sessions -> Session]
        /\ \A x \in Sessions : x # s => w'[x] = w[x]
        /\ w'[s].refs = w[s].refs /\ w'[s].queue = Tail(w[s].queue) /\ w'[s].active = h
        /\ w'[s].busy /\ w'[s].dead = w[s].dead /\ w'[s].bound = w[s].bound
        /\ w'[s].detached = w[s].detached
    <3>1. w' \in [Sessions -> Session]
      <4>1. Tail(w[s].queue) \in Seq(Jobs) /\ Head(w[s].queue) \in Jobs
        BY <1>a
      <4> QED
        <5>1. w[s] \in Session
          BY WType
        <5>2. w'[s] = [w[s] EXCEPT !.queue = Tail(w[s].queue), !.busy = TRUE,
                                   !.active = Head(w[s].queue)]
          BY WType DEF take_job
        <5>3. w'[s] \in Session
          BY <4>1, <5>1, <5>2 DEF Session
        <5>4. \A x \in Sessions : w'[x] \in Session
          BY <5>3, WType DEF take_job
        <5>5. w' = [x \in Sessions |-> w'[x]]
          BY WType DEF take_job
        <5> QED
          BY <5>4, <5>5
    <3>2. \A x \in Sessions : x # s => w'[x] = w[x]
      BY WType DEF take_job
    <3>3. /\ w'[s].refs = w[s].refs /\ w'[s].queue = Tail(w[s].queue) /\ w'[s].active = h
          /\ w'[s].busy /\ w'[s].dead = w[s].dead /\ w'[s].bound = w[s].bound
          /\ w'[s].detached = w[s].detached
      BY WType DEF take_job, Session
    <3> QED
      BY <3>1, <3>2, <3>3
  <2>2. /\ tj'[t] = h /\ \A x \in Threads : x # t => tj'[x] = tj[x]
        /\ tpc'[t] = "run" /\ \A x \in Threads : x # t => tpc'[x] = tpc[x]
        /\ UNCHANGED <<spawned, registered, freed, runq, running, injected, idle,
                       refusals, watching, stalled, mon, word, tw, tf, dpc, xpc,
                       xf, spc, sf, completed, panicked>>
    BY <1>a, Typed DEF take_job, poolVars, monVars, callVars
  <2> QED
    BY <2>1, <2>2
<1>1. TypeOK'
  <2>1. /\ tj' \in [Threads -> Jobs \cup {None}]
        /\ tpc' \in [Threads -> ThreadPCs]
    BY <1>a, ThreadTypes DEF take_job, ThreadPCs
  <2> QED
    BY <1>0, <2>1, Typed, <1>a DEF IInv, TypeOK, Session, ThreadPCs,
       DispatchPCs, EndPCs
<1>2. ThreadsRight'
  BY <1>0, <1>a DEF IInv, ThreadsRight, ServedPCs
<1>3. PoolAccounting'
  <2>1. \A x \in Threads : CountedThread(x)' <=> CountedThread(x)
    BY <1>0, <1>a DEF CountedThread
  <2> QED
    BY <1>0, <2>1, CountSame
<1>4. Exclusive'
  BY <1>0, KeepExclusive
<1>5. RunsRight'
  <2>1. ASSUME NEW x \in Sessions
        PROVE  /\ w'[x].busy <=> \E p \in Threads : tw'[p] = x /\ tpc'[p] \in {"run", "blocked"}
               /\ w'[x].active # None => w'[x].busy
    <3>1. CASE x = s
      BY <1>0, <3>1
    <3>2. CASE x # s
      BY <1>0, <3>2 DEF IInv, RunsRight
    <3> QED
      BY <3>1, <3>2
  <2>2. ASSUME NEW p \in Threads
        PROVE  /\ tf'[p] # None =>
                     \/ tpc'[p] \in {"reply", "after", "deliver", "deliver_exit", "deliver_park"}
                     \/ tpc'[p] \in {"serve", "finish"} /\ w'[tw'[p]].dead
               /\ tpc'[p] = "reply" /\ tw'[p] \in OneShot => w'[tw'[p]].dead
    <3>1. tpc[p] \in {"serve", "finish", "reply"} => tw[p] \in Sessions
      BY Serving DEF ServedPCs
    <3> QED
      BY <1>0, <1>a, <3>1 DEF IInv, RunsRight
  <2> QED
    BY <2>1, <2>2 DEF RunsRight
<1>6. QueuesRight'
  <2>1. ASSUME NEW x \in Sessions, x # s
        PROVE  /\ Distinct(w'[x].queue)
               /\ w'[x].queue # <<>> => w'[x].bound /\ ~w'[x].dead
               /\ x \in OneShot => Len(w'[x].queue) <= 1 /\ (w'[x].busy => w'[x].queue = <<>>)
    BY <1>0, <2>1 DEF IInv, QueuesRight
  <2>2. /\ Distinct(w'[s].queue)
        /\ w'[s].queue # <<>> => w'[s].bound /\ ~w'[s].dead
        /\ s \in OneShot => Len(w'[s].queue) <= 1 /\ (w'[s].busy => w'[s].queue = <<>>)
    BY <1>0, <1>a DEF IInv, QueuesRight
  <2>3. \A x \in Sessions : w'[x].dead = w[x].dead
    BY <1>0
  <2> QED
    BY <1>0, <2>1, <2>2, <2>3 DEF IInv, QueuesRight
<1>7. Home'
  <2>1. ASSUME NEW x \in Sessions, NEW y \in Jobs,
               y \in Elems(w'[x].queue) \/ w'[x].active = y \/ y \in xf'[x] \/ y \in sf'[x]
        PROVE  On[y] = x
    BY <1>0, <1>a, <2>1 DEF IInv, Home
  <2> QED
    BY <1>0, <2>1 DEF IInv, Home
<1>8. Ends'
  <2>1. \A x \in Sessions : w'[x].bound = w[x].bound /\ w'[x].detached = w[x].detached
    BY <1>0
  <2> QED
    BY <1>0, <2>1 DEF IInv, Ends
<1>9. FutureOnce'
  <2>1. \A y \in Jobs : Posted(y)' <=> Posted(y) /\ y # h
    BY <1>0, <1>a, DispatchTypes DEF Posted
  <2>2. \A y \in Jobs : Running(y)' <=> Running(y) \/ y = h
    BY <1>0, <1>a, DispatchTypes, Apart DEF Running
  <2>3. \A y \in Jobs : /\ Unposted(y)' <=> Unposted(y)
                        /\ Holds(y)' <=> Holds(y)
                        /\ AtTerminate(y)' <=> AtTerminate(y)
                        /\ AtShutdown(y)' <=> AtShutdown(y)
    BY <1>0, <1>a, Typed DEF Unposted, Holds, AtTerminate, AtShutdown, SameQueue
  <2>4. \A p, q \in Threads : tf'[p] = tf'[q] /\ tf'[p] # None => p = q
    BY <1>0, <1>a DEF IInv, FutureOnce
  <2>5. \A y \in Jobs : completed'[y] = completed[y] /\ completed[y] \in Nat
    BY <1>0, <1>a, Typed DEF One
  <2>6. ASSUME NEW y \in Jobs
        PROVE  completed'[y] + One(Unposted(y)') + One(Posted(y)') + One(Running(y)')
                   + One(Holds(y)') + One(AtTerminate(y)') + One(AtShutdown(y)') = 1
    <3>1. completed[y] + One(Unposted(y)) + One(Posted(y)) + One(Running(y))
              + One(Holds(y)) + One(AtTerminate(y)) + One(AtShutdown(y)) = 1
      BY DEF IInv, FutureOnce
    <3> QED
      BY <2>1, <2>2, <2>3, <2>5, <3>1, <1>b DEF One
  <2> QED
    BY <2>4, <2>6 DEF FutureOnce
<1>10. RefsRight'
  <2>1. \A x \in Sessions : /\ Stopping(x)' <=> Stopping(x)
                            /\ Ending(x)' <=> Ending(x)
                            /\ Unqueued(x)' <=> Unqueued(x)
    BY <1>0, <1>a DEF Stopping, Ending, Unqueued
  <2>2. \A x \in Sessions : Calls(x)' = Calls(x)
    BY <1>0, KeepCalls
  <2> QED
    BY <1>0, <2>1, <2>2, KeepRefs
<1> QED
  BY <1>1, <1>2, <1>3, <1>4, <1>5, <1>6, <1>7, <1>8, <1>9, <1>10 DEF IInv

(* A parked session is served again. *)
LEMMA Inv_unpark_session ==
  ASSUME IInv, ~panicked, NEW t \in Threads,
         NEW s \in Sessions, s = tw[t], unpark_session(t)
  PROVE  IInv'
<1>a. tpc[t] = "resume" /\ tf[t] = None
  BY DEF unpark_session, IInv, RunsRight
<1>0. /\ w' \in [Sessions -> Session]
      /\ \A x \in Sessions : /\ w'[x].refs = w[x].refs /\ SameQueue(x) /\ SameFlags(x)
                             /\ w'[x].bound <=> w[x].bound
      /\ running' = running + 1
      /\ tpc'[t] = "serve" /\ \A x \in Threads : x # t => tpc'[x] = tpc[x]
      /\ UNCHANGED <<spawned, registered, freed, runq, injected, idle, refusals,
                     watching, stalled, mon, word, tw, tj, tf, dpc, xpc, xf,
                     spc, sf, completed, panicked>>
  <2>1. /\ w' \in [Sessions -> Session]
        /\ \A x \in Sessions : /\ w'[x].refs = w[x].refs /\ SameQueue(x) /\ SameFlags(x)
                               /\ w'[x].bound <=> w[x].bound
    <3>1. w' \in [Sessions -> Session] /\ \A x \in Sessions : x # s => w'[x] = w[x]
      BY WType DEF unpark_session, Session
    <3>2. /\ w'[s].refs = w[s].refs
          /\ w'[s].queue = w[s].queue /\ w'[s].active = w[s].active
          /\ w'[s].busy = w[s].busy /\ w'[s].dead = w[s].dead
          /\ w'[s].bound = w[s].bound /\ w'[s].detached = w[s].detached
      BY WType DEF unpark_session, Session
    <3> QED
      BY <3>1, <3>2 DEF SameQueue, SameFlags
  <2>2. /\ running' = running + 1
        /\ tpc'[t] = "serve" /\ \A x \in Threads : x # t => tpc'[x] = tpc[x]
        /\ UNCHANGED <<spawned, registered, freed, runq, injected, idle, refusals,
                       watching, stalled, mon, word, tw, tj, tf, dpc, xpc, xf,
                       spc, sf, completed, panicked>>
    BY <1>a, Typed DEF unpark_session, monVars, callVars
  <2> QED
    BY <2>1, <2>2
<1>1. TypeOK'
  <2>1. tpc' \in [Threads -> ThreadPCs]
    BY <1>a, ThreadTypes DEF unpark_session, ThreadPCs
  <2>2. running' \in Nat
    BY <1>0, <1>a, CountType
  <2> QED
    BY <1>0, <2>1, <2>2, Typed, <1>a DEF IInv, TypeOK, Session, ThreadPCs,
       DispatchPCs, EndPCs
<1>2. ThreadsRight'
  BY <1>0, <1>a DEF IInv, ThreadsRight, ServedPCs
<1>3. PoolAccounting'
  <2>1. /\ ~CountedThread(t) /\ CountedThread(t)'
        /\ \A x \in Threads : x # t => (CountedThread(x)' <=> CountedThread(x))
    BY <1>0, <1>a DEF CountedThread
  <2> QED
    BY <1>0, <2>1, CountMore
<1>4. Exclusive'
  BY <1>0, <1>a, KeepExclusive
<1>5. RunsRight'
  BY <1>0, <1>a, MoveRuns DEF SameQueue, SameFlags
<1>6. QueuesRight' /\ Home' /\ Ends'
  BY <1>0, KeepSessions DEF SameQueue, SameFlags
<1>7. FutureOnce'
  BY <1>0, <1>a, KeepFuture DEF SameQueue, SameFlags, Unposted
<1>8. RefsRight'
  <2>1. \A x \in Sessions : /\ Stopping(x)' <=> Stopping(x)
                            /\ Ending(x)' <=> Ending(x)
                            /\ Unqueued(x)' <=> Unqueued(x)
    BY <1>0, <1>a DEF Stopping, Ending, Unqueued
  <2>2. \A x \in Sessions : Calls(x)' = Calls(x)
    BY <1>0, KeepCalls
  <2> QED
    BY <1>0, <2>1, <2>2, KeepRefs
<1> QED
  BY <1>1, <1>2, <1>3, <1>4, <1>5, <1>6, <1>7, <1>8 DEF IInv

(* A thread finds nothing to serve. *)
LEMMA Inv_leave_session ==
  ASSUME IInv, ~panicked, NEW t \in Threads,
         NEW s \in Sessions, s = tw[t], leave_session(t)
  PROVE  IInv'
<1>a. tpc[t] = "serve" /\ (tf[t] # None => w[s].dead)
  BY DEF leave_session, IInv, RunsRight
<1>0. /\ tpc'[t] = "finish" /\ \A x \in Threads : x # t => tpc'[x] = tpc[x]
      /\ UNCHANGED <<w, spawned, registered, freed, runq, running, injected,
                     idle, refusals, watching, stalled, mon, word, tw, tj, tf,
                     dpc, xpc, xf, spc, sf, completed, panicked>>
  BY <1>a, Typed DEF leave_session, sessionVars, poolVars, monVars, callVars
<1>1. TypeOK'
  <2>1. tpc' \in [Threads -> ThreadPCs]
    BY <1>a, ThreadTypes DEF leave_session, ThreadPCs
  <2> QED
    BY <1>0, <2>1, Typed, <1>a DEF IInv, TypeOK, Session, ThreadPCs,
       DispatchPCs, EndPCs
<1>2. ThreadsRight'
  BY <1>0, <1>a DEF IInv, ThreadsRight, ServedPCs
<1>3. PoolAccounting'
  <2>1. \A x \in Threads : CountedThread(x)' <=> CountedThread(x)
    BY <1>0, <1>a DEF CountedThread
  <2> QED
    BY <1>0, <2>1, CountSame
<1>4. Exclusive'
  BY <1>0, KeepExclusive
<1>5. RunsRight'
  BY <1>0, <1>a, MoveRuns DEF SameQueue, SameFlags
<1>6. QueuesRight' /\ Home' /\ Ends'
  BY <1>0, KeepSessions DEF SameQueue, SameFlags
<1>7. FutureOnce'
  BY <1>0, KeepFuture DEF Unposted
<1>8. RefsRight'
  BY <1>0, KeepCalls, KeepRefs DEF Stopping, Ending, Unqueued
<1> QED
  BY <1>1, <1>2, <1>3, <1>4, <1>5, <1>6, <1>7, <1>8 DEF IInv

(* A job came while the thread was leaving. *)
LEMMA Inv_unbind_served ==
  ASSUME IInv, ~panicked, NEW t \in Threads,
         NEW s \in Sessions, s = tw[t], w[s].queue # <<>>, ~w[s].dead, unbind(t)
  PROVE  IInv'
<1>a. tpc[t] = "finish" /\ tf[t] = None
  BY DEF unbind, IInv, RunsRight
<1>0. /\ tpc'[t] = "serve" /\ \A x \in Threads : x # t => tpc'[x] = tpc[x]
      /\ UNCHANGED <<w, spawned, registered, freed, runq, running, injected,
                     idle, refusals, watching, stalled, mon, word, tw, tj, tf,
                     dpc, xpc, xf, spc, sf, completed, panicked>>
  BY <1>a, Typed DEF unbind, poolVars, monVars
<1>1. TypeOK'
  <2>1. tpc' \in [Threads -> ThreadPCs]
    BY <1>a, ThreadTypes DEF unbind, ThreadPCs
  <2> QED
    BY <1>0, <2>1, Typed, <1>a DEF IInv, TypeOK, Session, ThreadPCs,
       DispatchPCs, EndPCs
<1>2. ThreadsRight'
  BY <1>0, <1>a DEF IInv, ThreadsRight, ServedPCs
<1>3. PoolAccounting'
  <2>1. \A x \in Threads : CountedThread(x)' <=> CountedThread(x)
    BY <1>0, <1>a DEF CountedThread
  <2> QED
    BY <1>0, <2>1, CountSame
<1>4. Exclusive'
  BY <1>0, KeepExclusive
<1>5. RunsRight'
  BY <1>0, <1>a, MoveRuns DEF SameQueue, SameFlags
<1>6. QueuesRight' /\ Home' /\ Ends'
  BY <1>0, KeepSessions DEF SameQueue, SameFlags
<1>7. FutureOnce'
  BY <1>0, KeepFuture DEF Unposted
<1>8. RefsRight'
  BY <1>0, KeepCalls, KeepRefs DEF Stopping, Ending, Unqueued
<1> QED
  BY <1>1, <1>2, <1>3, <1>4, <1>5, <1>6, <1>7, <1>8 DEF IInv

(* A thread leaves its session. *)
LEMMA Inv_unbind_left ==
  ASSUME IInv, ~panicked, NEW t \in Threads,
         NEW s \in Sessions, s = tw[t], w[s].queue = <<>> \/ w[s].dead,
         unbind(t)
  PROVE  IInv'
<1>a. /\ tpc[t] = "finish" /\ w[s].queue = <<>> /\ w[s].refs # 0 /\ s \in spawned /\ s \notin freed
      /\ Serves(s) /\ ~Binds(s) /\ ~Queued(s) /\ ~Unqueuing(s) /\ w[s].bound /\ ~w[s].busy
      /\ \A x \in Threads : tw[x] = s => x = t
  <2>1. tpc[t] = "finish"
    BY DEF unbind
  <2>2. w[s].queue = <<>>
    BY DEF IInv, QueuesRight
  <2>3. /\ Serves(s) /\ ~Binds(s) /\ ~Queued(s) /\ ~Unqueuing(s) /\ w[s].bound /\ ~w[s].busy
        /\ \A x \in Threads : tw[x] = s => x = t
    BY <2>1, ServedBy
  <2>4. w[s].refs # 0 /\ s \in spawned /\ s \notin freed
    BY <2>3, Referred
  <2> QED
    BY <2>1, <2>2, <2>3, <2>4
<1>d. freed' = freed \cup (IF w[s].refs = 1 THEN {s} ELSE {}) /\ completed' = completed
  <2>1. drop_ref(s, [w[s] EXCEPT !.bound = FALSE], {})
    BY DEF unbind
  <2> QED
    BY <1>a, <2>1, DropBound
<1>0. /\ w' \in [Sessions -> Session]
      /\ \A x \in Sessions : /\ w'[x].refs = w[x].refs - One(x = s)
                             /\ SameQueue(x) /\ SameFlags(x)
                             /\ w'[x].bound <=> w[x].bound /\ x # s
      /\ freed' = freed \cup (IF w[s].refs = 1 THEN {s} ELSE {}) /\ freed' \subseteq spawned
      /\ xpc'[s] = (IF xpc[s] = "wait" THEN "look" ELSE xpc[s])
      /\ \A x \in Sessions : x # s => xpc'[x] = xpc[x]
      /\ tpc'[t] = "after" /\ \A x \in Threads : x # t => tpc'[x] = tpc[x]
      /\ tw'[t] = None /\ \A x \in Threads : x # t => tw'[x] = tw[x]
      /\ UNCHANGED <<spawned, registered, runq, running, injected, idle,
                     refusals, watching, stalled, mon, word, tj, tf, dpc, xf,
                     spc, sf, completed, panicked>>
  <2>1. /\ w' \in [Sessions -> Session]
        /\ \A x \in Sessions : /\ w'[x].refs = w[x].refs - One(x = s)
                               /\ SameQueue(x) /\ SameFlags(x)
                               /\ w'[x].bound <=> w[x].bound /\ x # s
    <3>1. drop_ref(s, [w[s] EXCEPT !.bound = FALSE], {})
      BY DEF unbind
    <3> QED
      BY <1>a, <3>1, DropBound
  <2>2. /\ freed' = freed \cup (IF w[s].refs = 1 THEN {s} ELSE {}) /\ freed' \subseteq spawned
        /\ xpc'[s] = (IF xpc[s] = "wait" THEN "look" ELSE xpc[s])
        /\ \A x \in Sessions : x # s => xpc'[x] = xpc[x]
        /\ tpc'[t] = "after" /\ \A x \in Threads : x # t => tpc'[x] = tpc[x]
        /\ tw'[t] = None /\ \A x \in Threads : x # t => tw'[x] = tw[x]
        /\ UNCHANGED <<spawned, registered, runq, running, injected, idle,
                       refusals, watching, stalled, mon, word, tj, tf, dpc, xf,
                       spc, sf, completed, panicked>>
    BY <1>a, Typed, <1>d DEF unbind, poolVars, monVars
  <2> QED
    BY <2>1, <2>2
<1>1. TypeOK'
  <2>1. /\ xpc' \in [Sessions -> EndPCs]
        /\ tpc' \in [Threads -> ThreadPCs]
        /\ tw' \in [Threads -> Sessions \cup {None}]
    BY <1>a, EndTypes, ThreadTypes DEF unbind, EndPCs, ThreadPCs
  <2> QED
    BY <1>0, <2>1, Typed, <1>a DEF IInv, TypeOK, Session, ThreadPCs,
       DispatchPCs, EndPCs
<1>2. ThreadsRight'
  BY <1>0, <1>a, Apart DEF IInv, ThreadsRight, ServedPCs
<1>3. PoolAccounting'
  <2>1. \A x \in Threads : CountedThread(x)' <=> CountedThread(x)
    BY <1>0, <1>a DEF CountedThread
  <2> QED
    BY <1>0, <2>1, CountSame
<1>4. Exclusive'
  <2>1. \A x \in Sessions : Serves(x)' <=> Serves(x) /\ x # s
    BY <1>0, <1>a, Apart DEF Serves
  <2>2. \A x \in Sessions : /\ Binds(x)' <=> Binds(x)
                            /\ Queued(x)' <=> Queued(x)
                            /\ Unqueuing(x)' <=> Unqueuing(x)
    BY <1>0, <1>a DEF Binds, Queued, Unqueuing
  <2>3. Distinct(runq')
    BY <1>0, <1>a DEF IInv, Exclusive
  <2>4. \A p, q \in Threads : tw'[p] = tw'[q] /\ tw'[p] # None => p = q
    BY <1>0 DEF IInv, Exclusive
  <2>5. \A p, q \in Jobs :
          dpc'[p] = "bind" /\ dpc'[q] = "bind" /\ On[p] = On[q] => p = q
    BY <1>0, <1>a DEF IInv, Exclusive
  <2>6. \A x \in Sessions : w'[x].bound <=> w[x].bound /\ x # s
    BY <1>0, <1>a
  <2>7. ASSUME NEW x \in Sessions
        PROVE  One(Serves(x)') + One(Binds(x)') + One(Queued(x)') + One(Unqueuing(x)')
                   = One(w'[x].bound)
    <3>1. One(Serves(x)) + One(Binds(x)) + One(Queued(x)) + One(Unqueuing(x)) = One(w[x].bound)
      BY DEF IInv, Exclusive
    <3> QED
      BY <2>1, <2>2, <2>6, <3>1, <1>a DEF One
  <2> QED
    BY <2>3, <2>4, <2>5, <2>7 DEF Exclusive
<1>5. RunsRight'
  <2>1. ASSUME NEW x \in Sessions
        PROVE  /\ w'[x].busy <=> \E p \in Threads : tw'[p] = x /\ tpc'[p] \in {"run", "blocked"}
               /\ w'[x].active # None => w'[x].busy
    <3>1. \A p \in Threads : tw'[p] = x /\ tpc'[p] \in {"run", "blocked"}
                            <=> tw[p] = x /\ tpc[p] \in {"run", "blocked"}
      BY <1>0, <1>a
    <3> QED
      BY <1>0, <3>1 DEF IInv, RunsRight, SameQueue, SameFlags
  <2>2. ASSUME NEW p \in Threads
        PROVE  /\ tf'[p] # None =>
                     \/ tpc'[p] \in {"reply", "after", "deliver", "deliver_exit", "deliver_park"}
                     \/ tpc'[p] \in {"serve", "finish"} /\ w'[tw'[p]].dead
               /\ tpc'[p] = "reply" /\ tw'[p] \in OneShot => w'[tw'[p]].dead
    <3>1. tpc[p] \in {"serve", "finish", "reply"} => tw[p] \in Sessions
      BY Serving DEF ServedPCs
    <3> QED
      BY <1>0, <1>a, <3>1 DEF IInv, RunsRight, SameFlags
  <2> QED
    BY <2>1, <2>2 DEF RunsRight
<1>6. QueuesRight'
  BY <1>0, <1>a DEF IInv, QueuesRight, SameQueue, SameFlags
<1>7. Home'
  <2>1. \A x \in Sessions : SameQueue(x) /\ xf'[x] \subseteq xf[x] /\ sf'[x] \subseteq sf[x]
    BY <1>0 DEF SameQueue
  <2>2. \A x \in Sessions : /\ xf'[x] # {} => xpc'[x] = "complete"
                            /\ sf'[x] # {} => spc'[x] = "complete"
    BY <1>0, <1>a DEF IInv, Home
  <2> QED
    BY <2>1, <2>2, KeepHome
<1>8. Ends'
  BY <1>0, <1>a DEF IInv, Ends, SameQueue, SameFlags
<1>9. FutureOnce'
  BY <1>0, <1>a, KeepFuture DEF SameQueue, SameFlags, Unposted
<1>10. RefsRight'
  <2>1. \A x \in Sessions : Serves(x)' <=> Serves(x) /\ x # s
    BY <1>0, <1>a, Apart DEF Serves
  <2>2. \A x \in Sessions : /\ Stopping(x)' <=> Stopping(x)
                            /\ Ending(x)' <=> Ending(x)
                            /\ Queued(x)' <=> Queued(x)
                            /\ Unqueued(x)' <=> Unqueued(x)
    BY <1>0, <1>a DEF Stopping, Ending, Queued, Unqueued
  <2>3. \A x \in Sessions : x \in registered' <=> x \in registered
    BY <1>0, <1>a
  <2>4. \A x \in Sessions : Calls(x)' = Calls(x) /\ Calls(x) \in Nat
    BY <1>0, KeepCalls, InCallType
  <2>5. ASSUME NEW x \in Sessions PROVE w'[x].refs = RefSum(x)'
    <3>1. w[x].refs = RefSum(x) /\ w'[x].refs = w[x].refs - One(x = s)
      BY <1>0, <1>a DEF IInv, RefsRight
    <3> QED
      BY <2>1, <2>2, <2>3, <2>4, <3>1, <1>a DEF RefSum, One
  <2>6. ASSUME NEW x \in Sessions, x \notin spawned' \/ x \in freed' PROVE w'[x].refs = 0
    BY <1>0, <1>a, <2>6 DEF IInv, RefsRight, One
  <2> QED
    BY <2>5, <2>6 DEF RefsRight
<1> QED
  BY <1>1, <1>2, <1>3, <1>4, <1>5, <1>6, <1>7, <1>8, <1>9, <1>10 DEF IInv

(* An instrumented wait ends. *)
LEMMA Inv_job_unblocks ==
  ASSUME IInv, ~panicked, NEW t \in Threads,
         NEW s \in Sessions, s = tw[t], job_unblocks(t)
  PROVE  IInv'
<1>a. tpc[t] = "blocked" /\ tf[t] = None
  BY DEF job_unblocks, IInv, RunsRight
<1>0. /\ running' = running + 1
      /\ tpc'[t] = "run" /\ \A x \in Threads : x # t => tpc'[x] = tpc[x]
      /\ UNCHANGED <<w, spawned, registered, freed, runq, injected, idle,
                     refusals, watching, stalled, mon, word, tw, tj, tf, dpc,
                     xpc, xf, spc, sf, completed, panicked>>
  BY <1>a, Typed DEF job_unblocks, sessionVars, monVars, callVars
<1>1. TypeOK'
  <2>1. tpc' \in [Threads -> ThreadPCs]
    BY <1>a, ThreadTypes DEF job_unblocks, ThreadPCs
  <2>2. running' \in Nat
    BY <1>0, <1>a, CountType
  <2> QED
    BY <1>0, <2>1, <2>2, Typed, <1>a DEF IInv, TypeOK, Session, ThreadPCs,
       DispatchPCs, EndPCs
<1>2. ThreadsRight'
  BY <1>0, <1>a DEF IInv, ThreadsRight, ServedPCs
<1>3. PoolAccounting'
  <2>1. /\ ~CountedThread(t) /\ CountedThread(t)'
        /\ \A x \in Threads : x # t => (CountedThread(x)' <=> CountedThread(x))
    BY <1>0, <1>a DEF CountedThread
  <2> QED
    BY <1>0, <2>1, CountMore
<1>4. Exclusive'
  BY <1>0, KeepExclusive
<1>5. RunsRight'
  BY <1>0, <1>a, MoveRuns DEF SameQueue, SameFlags
<1>6. QueuesRight' /\ Home' /\ Ends'
  BY <1>0, KeepSessions DEF SameQueue, SameFlags
<1>7. FutureOnce'
  BY <1>0, KeepFuture DEF Unposted
<1>8. RefsRight'
  BY <1>0, KeepCalls, KeepRefs DEF Stopping, Ending, Unqueued
<1> QED
  BY <1>1, <1>2, <1>3, <1>4, <1>5, <1>6, <1>7, <1>8 DEF IInv

(* A job returns. *)
LEMMA Inv_job_ends ==
  ASSUME IInv, ~panicked, NEW t \in Threads,
         NEW s \in Sessions, s = tw[t], job_ends(t)
  PROVE  IInv'
<1>a. /\ tpc[t] = "run" /\ w[s].busy /\ \A x \in Threads : tw[x] = s => x = t
      /\ tf[t] = None /\ w[s].active \in Jobs \cup {None} /\ (s \in OneShot => w[s].queue = <<>>)
      /\ \A y \in Jobs : w[s].active = y <=> On[y] = s /\ Running(y)
  <2>1. tpc[t] = "run"
    BY DEF job_ends
  <2>2. w[s].busy /\ \A x \in Threads : tw[x] = s => x = t
    BY <2>1, ServedBy
  <2>3. tf[t] = None
    BY <2>1 DEF IInv, RunsRight
  <2>4. w[s].active \in Jobs \cup {None}
    BY WType DEF Session
  <2>5. s \in OneShot => w[s].queue = <<>>
    BY <2>2 DEF IInv, QueuesRight
  <2>6. \A y \in Jobs : w[s].active = y <=> On[y] = s /\ Running(y)
    BY DEF IInv, Home, Running
  <2> QED
    BY <2>1, <2>2, <2>3, <2>4, <2>5, <2>6
<1>0. /\ w' \in [Sessions -> Session]
      /\ \A x \in Sessions : x # s => w'[x] = w[x]
      /\ w'[s].refs = w[s].refs /\ w'[s].queue = w[s].queue /\ w'[s].active = None
      /\ ~w'[s].busy /\ w'[s].bound = w[s].bound /\ w'[s].detached = w[s].detached
      /\ w'[s].dead <=> w[s].dead \/ s \in OneShot
      /\ tf'[t] = w[s].active /\ \A x \in Threads : x # t => tf'[x] = tf[x]
      /\ tpc'[t] = "reply" /\ \A x \in Threads : x # t => tpc'[x] = tpc[x]
      /\ UNCHANGED <<spawned, registered, freed, runq, running, injected, idle,
                     refusals, watching, stalled, mon, word, tw, tj, dpc, xpc,
                     xf, spc, sf, completed, panicked>>
  <2>1. /\ w' \in [Sessions -> Session]
        /\ \A x \in Sessions : x # s => w'[x] = w[x]
        /\ w'[s].refs = w[s].refs /\ w'[s].queue = w[s].queue /\ w'[s].active = None
        /\ ~w'[s].busy /\ w'[s].bound = w[s].bound /\ w'[s].detached = w[s].detached
        /\ w'[s].dead <=> w[s].dead \/ s \in OneShot
    <3>1. w' \in [Sessions -> Session]
      <4>1. None \in Jobs \cup {None} /\ (w[s].dead \/ s \in OneShot) \in BOOLEAN /\ w[s] \in Session
        BY WType DEF Session
      <4>2. w'[s] \in Session
        BY <4>1, WType DEF job_ends, Session
      <4>3. \A x \in Sessions : w'[x] \in Session
        BY <4>2, WType DEF job_ends
      <4>4. w' = [x \in Sessions |-> w'[x]]
        BY WType DEF job_ends
      <4> QED
        BY <4>3, <4>4
    <3>2. \A x \in Sessions : x # s => w'[x] = w[x]
      BY WType DEF job_ends
    <3>3. /\ w'[s].refs = w[s].refs /\ w'[s].queue = w[s].queue /\ w'[s].active = None
          /\ ~w'[s].busy /\ w'[s].bound = w[s].bound /\ w'[s].detached = w[s].detached
          /\ w'[s].dead <=> w[s].dead \/ s \in OneShot
      BY WType DEF job_ends, Session
    <3> QED
      BY <3>1, <3>2, <3>3
  <2>2. /\ tf'[t] = w[s].active /\ \A x \in Threads : x # t => tf'[x] = tf[x]
        /\ tpc'[t] = "reply" /\ \A x \in Threads : x # t => tpc'[x] = tpc[x]
        /\ UNCHANGED <<spawned, registered, freed, runq, running, injected, idle,
                       refusals, watching, stalled, mon, word, tw, tj, dpc, xpc,
                       xf, spc, sf, completed, panicked>>
    BY <1>a, Typed DEF job_ends, poolVars, monVars, callVars
  <2> QED
    BY <2>1, <2>2
<1>1. TypeOK'
  <2>1. /\ tf' \in [Threads -> Jobs \cup {None}]
        /\ tpc' \in [Threads -> ThreadPCs]
    BY <1>a, ThreadTypes DEF job_ends, ThreadPCs
  <2> QED
    BY <1>0, <2>1, Typed, <1>a DEF IInv, TypeOK, Session, ThreadPCs,
       DispatchPCs, EndPCs
<1>2. ThreadsRight'
  BY <1>0, <1>a DEF IInv, ThreadsRight, ServedPCs
<1>3. PoolAccounting'
  <2>1. \A x \in Threads : CountedThread(x)' <=> CountedThread(x)
    BY <1>0, <1>a DEF CountedThread
  <2> QED
    BY <1>0, <2>1, CountSame
<1>4. Exclusive'
  BY <1>0, KeepExclusive
<1>5. RunsRight'
  <2>1. ASSUME NEW x \in Sessions
        PROVE  /\ w'[x].busy <=> \E p \in Threads : tw'[p] = x /\ tpc'[p] \in {"run", "blocked"}
               /\ w'[x].active # None => w'[x].busy
    <3>1. CASE x = s
      BY <1>0, <1>a, <3>1
    <3>2. CASE x # s
      BY <1>0, <3>2 DEF IInv, RunsRight
    <3> QED
      BY <3>1, <3>2
  <2>2. ASSUME NEW p \in Threads
        PROVE  /\ tf'[p] # None =>
                     \/ tpc'[p] \in {"reply", "after", "deliver", "deliver_exit", "deliver_park"}
                     \/ tpc'[p] \in {"serve", "finish"} /\ w'[tw'[p]].dead
               /\ tpc'[p] = "reply" /\ tw'[p] \in OneShot => w'[tw'[p]].dead
    <3>1. tpc[p] \in {"serve", "finish", "reply"} => tw[p] \in Sessions
      BY Serving DEF ServedPCs
    <3> QED
      BY <1>0, <1>a, <3>1 DEF IInv, RunsRight
  <2> QED
    BY <2>1, <2>2 DEF RunsRight
<1>6. QueuesRight'
  BY <1>0, <1>a DEF IInv, QueuesRight
<1>7. Home'
  <2>1. ASSUME NEW x \in Sessions, NEW y \in Jobs,
               y \in Elems(w'[x].queue) \/ w'[x].active = y \/ y \in xf'[x] \/ y \in sf'[x]
        PROVE  On[y] = x
    BY <1>0, <2>1, Apart DEF IInv, Home
  <2> QED
    BY <1>0, <2>1 DEF IInv, Home
<1>8. Ends'
  <2>1. \A x \in Sessions : w'[x].bound = w[x].bound /\ w'[x].detached = w[x].detached
    BY <1>0
  <2> QED
    BY <1>0, <2>1 DEF IInv, Ends
<1>9. FutureOnce'
  <2>1. \A y \in Jobs : Running(y)' <=> Running(y) /\ On[y] # s
    BY <1>0, <1>a, DispatchTypes, Apart DEF Running
  <2>2. \A y \in Jobs : Holds(y)' <=> Holds(y) \/ (On[y] = s /\ Running(y))
    BY <1>0, <1>a, Apart DEF Holds
  <2>3. \A y \in Jobs : /\ Unposted(y)' <=> Unposted(y)
                        /\ Posted(y)' <=> Posted(y)
                        /\ AtTerminate(y)' <=> AtTerminate(y)
                        /\ AtShutdown(y)' <=> AtShutdown(y)
    BY <1>0, <1>a, Typed DEF Unposted, Posted, AtTerminate, AtShutdown,
       SameQueue
  <2>4. \A p, q \in Threads : tf'[p] = tf'[q] /\ tf'[p] # None => p = q
    <3>1. \A y \in Jobs : On[y] = s /\ Running(y) => ~Holds(y)
      <4> SUFFICES ASSUME NEW y \in Jobs, Running(y), Holds(y) PROVE FALSE
        OBVIOUS
      <4>1. completed[y] + One(Unposted(y)) + One(Posted(y)) + One(Running(y)) + One(Holds(y))
                + One(AtTerminate(y)) + One(AtShutdown(y)) = 1
        BY DEF IInv, FutureOnce
      <4>2. completed[y] \in Nat
        BY Typed
      <4> QED
        BY <4>1, <4>2 DEF One
    <3> QED
      BY <1>0, <1>a, <3>1 DEF IInv, FutureOnce, Holds
  <2>5. \A y \in Jobs : completed'[y] = completed[y] /\ completed[y] \in Nat
    BY <1>0, <1>a, Typed DEF One
  <2>6. ASSUME NEW y \in Jobs
        PROVE  completed'[y] + One(Unposted(y)') + One(Posted(y)') + One(Running(y)')
                   + One(Holds(y)') + One(AtTerminate(y)') + One(AtShutdown(y)') = 1
    <3>1. completed[y] + One(Unposted(y)) + One(Posted(y)) + One(Running(y))
              + One(Holds(y)) + One(AtTerminate(y)) + One(AtShutdown(y)) = 1
      BY DEF IInv, FutureOnce
    <3> QED
      BY <2>1, <2>2, <2>3, <2>5, <3>1 DEF One
  <2> QED
    BY <2>4, <2>6 DEF FutureOnce
<1>10. RefsRight'
  <2>1. \A x \in Sessions : /\ Stopping(x)' <=> Stopping(x)
                            /\ Ending(x)' <=> Ending(x)
                            /\ Unqueued(x)' <=> Unqueued(x)
    BY <1>0, <1>a DEF Stopping, Ending, Unqueued
  <2>2. \A x \in Sessions : Calls(x)' = Calls(x)
    BY <1>0, KeepCalls
  <2> QED
    BY <1>0, <2>1, <2>2, KeepRefs
<1> QED
  BY <1>1, <1>2, <1>3, <1>4, <1>5, <1>6, <1>7, <1>8, <1>9, <1>10 DEF IInv

(* A one-shot session keeps the reply. *)
LEMMA Inv_reply_kept ==
  ASSUME IInv, ~panicked, NEW t \in Threads,
         NEW s \in Sessions, s = tw[t], s \in OneShot, reply(t)
  PROVE  IInv'
<1>a. tpc[t] = "reply" /\ w[s].dead
  BY DEF reply, IInv, RunsRight
<1>0. /\ tj'[t] = None /\ \A x \in Threads : x # t => tj'[x] = tj[x]
      /\ tpc'[t] = "serve" /\ \A x \in Threads : x # t => tpc'[x] = tpc[x]
      /\ UNCHANGED <<w, spawned, registered, freed, runq, running, injected,
                     idle, refusals, watching, stalled, mon, word, tw, tf, dpc,
                     xpc, xf, spc, sf, completed, panicked>>
  BY <1>a, Typed DEF reply, sessionVars, poolVars, monVars, callVars
<1>1. TypeOK'
  <2>1. /\ tj' \in [Threads -> Jobs \cup {None}]
        /\ tpc' \in [Threads -> ThreadPCs]
    BY <1>a, ThreadTypes DEF reply, ThreadPCs
  <2> QED
    BY <1>0, <2>1, Typed, <1>a DEF IInv, TypeOK, Session, ThreadPCs,
       DispatchPCs, EndPCs
<1>2. ThreadsRight'
  BY <1>0, <1>a DEF IInv, ThreadsRight, ServedPCs
<1>3. PoolAccounting'
  <2>1. \A x \in Threads : CountedThread(x)' <=> CountedThread(x)
    BY <1>0, <1>a DEF CountedThread
  <2> QED
    BY <1>0, <2>1, CountSame
<1>4. Exclusive'
  BY <1>0, KeepExclusive
<1>5. RunsRight'
  BY <1>0, <1>a, MoveRuns DEF SameQueue, SameFlags
<1>6. QueuesRight' /\ Home' /\ Ends'
  BY <1>0, KeepSessions DEF SameQueue, SameFlags
<1>7. FutureOnce'
  BY <1>0, KeepFuture DEF Unposted
<1>8. RefsRight'
  BY <1>0, KeepCalls, KeepRefs DEF Stopping, Ending, Unqueued
<1> QED
  BY <1>1, <1>2, <1>3, <1>4, <1>5, <1>6, <1>7, <1>8 DEF IInv

(* The reply is delivered. *)
LEMMA Inv_reply_sent ==
  ASSUME IInv, ~panicked, NEW t \in Threads,
         NEW s \in Sessions, s = tw[t], s \notin OneShot, reply(t)
  PROVE  IInv'
<1>a. /\ tpc[t] = "reply"
      /\ completed' \in [Jobs -> Nat]
      /\ \A y \in Jobs : completed'[y] = completed[y] + One(y = tf[t])
      /\ \A y \in Jobs : y = tf[t] => Holds(y)
  BY Completes DEF reply, One, Holds
<1>0. /\ completed' \in [Jobs -> Nat]
      /\ \A y \in Jobs : completed'[y] = completed[y] + One(y = tf[t])
      /\ tj'[t] = None /\ \A x \in Threads : x # t => tj'[x] = tj[x]
      /\ tf'[t] = None /\ \A x \in Threads : x # t => tf'[x] = tf[x]
      /\ tpc'[t] = "serve" /\ \A x \in Threads : x # t => tpc'[x] = tpc[x]
      /\ UNCHANGED <<w, spawned, registered, freed, runq, running, injected,
                     idle, refusals, watching, stalled, mon, word, tw, dpc, xpc,
                     xf, spc, sf, panicked>>
  BY <1>a, Typed DEF reply, sessionVars, poolVars, monVars, callVars
<1>1. TypeOK'
  <2>1. /\ tj' \in [Threads -> Jobs \cup {None}]
        /\ tf' \in [Threads -> Jobs \cup {None}]
        /\ tpc' \in [Threads -> ThreadPCs]
    BY <1>a, ThreadTypes DEF reply, ThreadPCs
  <2> QED
    BY <1>0, <2>1, Typed, <1>a DEF IInv, TypeOK, Session, ThreadPCs,
       DispatchPCs, EndPCs
<1>2. ThreadsRight'
  BY <1>0, <1>a DEF IInv, ThreadsRight, ServedPCs
<1>3. PoolAccounting'
  <2>1. \A x \in Threads : CountedThread(x)' <=> CountedThread(x)
    BY <1>0, <1>a DEF CountedThread
  <2> QED
    BY <1>0, <2>1, CountSame
<1>4. Exclusive'
  BY <1>0, KeepExclusive
<1>5. RunsRight'
  BY <1>0, <1>a, MoveRuns DEF SameQueue, SameFlags
<1>6. QueuesRight' /\ Home' /\ Ends'
  BY <1>0, KeepSessions DEF SameQueue, SameFlags
<1>7. FutureOnce'
  <2>1. \A y \in Jobs : Holds(y)' <=> Holds(y) /\ y # tf[t]
    BY <1>0, <1>a, Apart DEF IInv, FutureOnce, Holds
  <2>2. \A y \in Jobs : /\ Unposted(y)' <=> Unposted(y)
                        /\ Posted(y)' <=> Posted(y)
                        /\ Running(y)' <=> Running(y)
                        /\ AtTerminate(y)' <=> AtTerminate(y)
                        /\ AtShutdown(y)' <=> AtShutdown(y)
    BY <1>0, <1>a, Typed DEF Unposted, Posted, Running, AtTerminate, AtShutdown,
       SameQueue
  <2>3. \A p, q \in Threads : tf'[p] = tf'[q] /\ tf'[p] # None => p = q
    BY <1>0 DEF IInv, FutureOnce
  <2>4. \A y \in Jobs : completed'[y] = completed[y] + One(y = tf[t]) /\ completed[y] \in Nat
    BY <1>0, <1>a, Typed DEF One
  <2>5. ASSUME NEW y \in Jobs
        PROVE  completed'[y] + One(Unposted(y)') + One(Posted(y)') + One(Running(y)')
                   + One(Holds(y)') + One(AtTerminate(y)') + One(AtShutdown(y)') = 1
    <3>1. completed[y] + One(Unposted(y)) + One(Posted(y)) + One(Running(y))
              + One(Holds(y)) + One(AtTerminate(y)) + One(AtShutdown(y)) = 1
      BY DEF IInv, FutureOnce
    <3> QED
      BY <2>1, <2>2, <2>4, <3>1, <1>a DEF One
  <2> QED
    BY <2>3, <2>5 DEF FutureOnce
<1>8. RefsRight'
  BY <1>0, KeepCalls, KeepRefs DEF Stopping, Ending, Unqueued
<1> QED
  BY <1>1, <1>2, <1>3, <1>4, <1>5, <1>6, <1>7, <1>8 DEF IInv

(* The reply of a one-shot session is delivered. *)
LEMMA Inv_deliver ==
  ASSUME IInv, ~panicked, NEW t \in Threads, deliver(t)
  PROVE  IInv'
<1>a. /\ tpc[t] \in {"deliver", "deliver_exit", "deliver_park"}
      /\ completed' \in [Jobs -> Nat]
      /\ \A y \in Jobs : completed'[y] = completed[y] + One(y = tf[t])
      /\ \A y \in Jobs : y = tf[t] => Holds(y)
  BY Completes DEF deliver, One, Holds
<1>s. tpc[t] = "deliver" => tw[t] \in Sessions
  BY Serving DEF ServedPCs
<1>0. /\ completed' \in [Jobs -> Nat]
      /\ \A y \in Jobs : completed'[y] = completed[y] + One(y = tf[t])
      /\ tf'[t] = None /\ \A x \in Threads : x # t => tf'[x] = tf[x]
      /\ tpc[t] = "deliver" => tpc'[t] = "serve"
      /\ tpc[t] = "deliver_exit" => tpc'[t] = "none"
      /\ tpc[t] = "deliver_park" => tpc'[t] = "park"
      /\ \A x \in Threads : x # t => tpc'[x] = tpc[x]
      /\ UNCHANGED <<w, spawned, registered, freed, runq, running, injected,
                     idle, refusals, watching, stalled, mon, word, tw, tj, dpc,
                     xpc, xf, spc, sf, panicked>>
  BY <1>a, Typed DEF deliver, sessionVars, poolVars, monVars, callVars
<1>1. TypeOK'
  <2>1. /\ tf' \in [Threads -> Jobs \cup {None}]
        /\ tpc' \in [Threads -> ThreadPCs]
    BY <1>a, ThreadTypes DEF deliver, ThreadPCs
  <2> QED
    BY <1>0, <2>1, Typed, <1>a DEF IInv, TypeOK, Session, ThreadPCs,
       DispatchPCs, EndPCs
<1>2. ThreadsRight'
  BY <1>0, <1>a DEF IInv, ThreadsRight, ServedPCs
<1>3. PoolAccounting'
  <2>1. \A x \in Threads : CountedThread(x)' <=> CountedThread(x)
    BY <1>0, <1>a DEF CountedThread
  <2> QED
    BY <1>0, <2>1, CountSame
<1>4. Exclusive'
  BY <1>0, KeepExclusive
<1>5. RunsRight'
  BY <1>0, <1>a, MoveRuns, <1>s DEF SameQueue, SameFlags
<1>6. QueuesRight' /\ Home' /\ Ends'
  BY <1>0, KeepSessions DEF SameQueue, SameFlags
<1>7. FutureOnce'
  <2>1. \A y \in Jobs : Holds(y)' <=> Holds(y) /\ y # tf[t]
    BY <1>0, <1>a, Apart DEF IInv, FutureOnce, Holds
  <2>2. \A y \in Jobs : /\ Unposted(y)' <=> Unposted(y)
                        /\ Posted(y)' <=> Posted(y)
                        /\ Running(y)' <=> Running(y)
                        /\ AtTerminate(y)' <=> AtTerminate(y)
                        /\ AtShutdown(y)' <=> AtShutdown(y)
    BY <1>0, <1>a, Typed DEF Unposted, Posted, Running, AtTerminate, AtShutdown,
       SameQueue
  <2>3. \A p, q \in Threads : tf'[p] = tf'[q] /\ tf'[p] # None => p = q
    BY <1>0 DEF IInv, FutureOnce
  <2>4. \A y \in Jobs : completed'[y] = completed[y] + One(y = tf[t]) /\ completed[y] \in Nat
    BY <1>0, <1>a, Typed DEF One
  <2>5. ASSUME NEW y \in Jobs
        PROVE  completed'[y] + One(Unposted(y)') + One(Posted(y)') + One(Running(y)')
                   + One(Holds(y)') + One(AtTerminate(y)') + One(AtShutdown(y)') = 1
    <3>1. completed[y] + One(Unposted(y)) + One(Posted(y)) + One(Running(y))
              + One(Holds(y)) + One(AtTerminate(y)) + One(AtShutdown(y)) = 1
      BY DEF IInv, FutureOnce
    <3> QED
      BY <2>1, <2>2, <2>4, <3>1, <1>a DEF One
  <2> QED
    BY <2>3, <2>5 DEF FutureOnce
<1>8. RefsRight'
  BY <1>0, KeepCalls, KeepRefs DEF Stopping, Ending, Unqueued
<1> QED
  BY <1>1, <1>2, <1>3, <1>4, <1>5, <1>6, <1>7, <1>8 DEF IInv

(* A finishing thread serves the next queued session. *)
LEMMA Inv_thread_next ==
  ASSUME IInv, ~panicked, NEW t \in Threads,
         NEW s \in Sessions, s = Head(runq), thread_next(t)
  PROVE  IInv'
<1>a. /\ tpc[t] = "after" /\ tw[t] = None /\ Distinct(runq) /\ runq # <<>> /\ Queued(s)
      /\ ~Serves(s) /\ ~w[s].busy
  <2>1. tpc[t] = "after" /\ runq # <<>>
    BY DEF thread_next, MayTake
  <2>2. tw[t] = None /\ Distinct(runq)
    BY <2>1 DEF IInv, ThreadsRight, ServedPCs, Exclusive
  <2>3. Queued(s)
    BY <2>1, <2>2, Typed, TailFacts DEF Queued
  <2>4. ~Serves(s)
    BY <2>3 DEF IInv, Exclusive, One
  <2>5. ~w[s].busy
    BY <2>4 DEF IInv, RunsRight, Serves
  <2> QED
    BY <2>1, <2>2, <2>3, <2>4, <2>5
<1>0. /\ tw'[t] = s /\ \A x \in Threads : x # t => tw'[x] = tw[x]
      /\ runq' \in Seq(Sessions) /\ Distinct(runq')
      /\ \A x \in Sessions : Queued(x)' <=> Queued(x) /\ x # s
      /\ stalled' = FALSE
      /\ tpc'[t] = "deliver" /\ \A x \in Threads : x # t => tpc'[x] = tpc[x]
      /\ UNCHANGED <<w, spawned, registered, freed, running, injected, idle,
                     refusals, watching, mon, word, tj, tf, dpc, xpc, xf, spc,
                     sf, completed, panicked>>
  BY <1>a, Typed, TailFacts DEF thread_next, sessionVars, callVars, Queued
<1>1. TypeOK'
  <2>1. /\ tw' \in [Threads -> Sessions \cup {None}]
        /\ tpc' \in [Threads -> ThreadPCs]
    BY <1>a, ThreadTypes DEF thread_next, ThreadPCs
  <2> QED
    BY <1>0, <2>1, Typed, <1>a DEF IInv, TypeOK, Session, ThreadPCs,
       DispatchPCs, EndPCs
<1>2. ThreadsRight'
  BY <1>0, <1>a, Apart DEF IInv, ThreadsRight, ServedPCs
<1>3. PoolAccounting'
  <2>1. \A x \in Threads : CountedThread(x)' <=> CountedThread(x)
    BY <1>0, <1>a DEF CountedThread
  <2> QED
    BY <1>0, <2>1, CountSame
<1>4. Exclusive'
  <2>1. \A x \in Sessions : Serves(x)' <=> Serves(x) \/ x = s
    BY <1>0, <1>a, Apart DEF Serves
  <2>2. \A x \in Sessions : Queued(x)' <=> Queued(x) /\ x # s
    BY <1>0, <1>a DEF Queued
  <2>3. \A x \in Sessions : /\ Binds(x)' <=> Binds(x)
                            /\ Unqueuing(x)' <=> Unqueuing(x)
    BY <1>0, <1>a DEF Binds, Unqueuing
  <2>4. Distinct(runq')
    BY <1>0
  <2>5. \A p, q \in Threads : tw'[p] = tw'[q] /\ tw'[p] # None => p = q
    BY <1>0, <1>a, Apart DEF IInv, Exclusive, Serves
  <2>6. \A p, q \in Jobs :
          dpc'[p] = "bind" /\ dpc'[q] = "bind" /\ On[p] = On[q] => p = q
    BY <1>0, <1>a DEF IInv, Exclusive
  <2>7. \A x \in Sessions : w'[x].bound <=> w[x].bound
    BY <1>0, <1>a
  <2>8. ASSUME NEW x \in Sessions
        PROVE  One(Serves(x)') + One(Binds(x)') + One(Queued(x)') + One(Unqueuing(x)')
                   = One(w'[x].bound)
    <3>1. One(Serves(x)) + One(Binds(x)) + One(Queued(x)) + One(Unqueuing(x)) = One(w[x].bound)
      BY DEF IInv, Exclusive
    <3> QED
      BY <2>1, <2>2, <2>3, <2>7, <3>1, <1>a DEF One
  <2> QED
    BY <2>4, <2>5, <2>6, <2>8 DEF Exclusive
<1>5. RunsRight'
  <2>1. ASSUME NEW x \in Sessions
        PROVE  /\ w'[x].busy <=> \E p \in Threads : tw'[p] = x /\ tpc'[p] \in {"run", "blocked"}
               /\ w'[x].active # None => w'[x].busy
    <3>1. \A p \in Threads : tw'[p] = x /\ tpc'[p] \in {"run", "blocked"}
                            <=> tw[p] = x /\ tpc[p] \in {"run", "blocked"}
      BY <1>0, <1>a
    <3> QED
      BY <1>0, <3>1 DEF IInv, RunsRight
  <2>2. ASSUME NEW p \in Threads
        PROVE  /\ tf'[p] # None =>
                     \/ tpc'[p] \in {"reply", "after", "deliver", "deliver_exit", "deliver_park"}
                     \/ tpc'[p] \in {"serve", "finish"} /\ w'[tw'[p]].dead
               /\ tpc'[p] = "reply" /\ tw'[p] \in OneShot => w'[tw'[p]].dead
    <3>1. tpc[p] \in {"serve", "finish", "reply"} => tw[p] \in Sessions
      BY Serving DEF ServedPCs
    <3> QED
      BY <1>0, <1>a, <3>1 DEF IInv, RunsRight
  <2> QED
    BY <2>1, <2>2 DEF RunsRight
<1>6. QueuesRight' /\ Home' /\ Ends'
  BY <1>0, KeepSessions DEF SameQueue, SameFlags
<1>7. FutureOnce'
  BY <1>0, KeepFuture DEF Unposted
<1>8. RefsRight'
  <2>1. \A x \in Sessions : Serves(x)' <=> Serves(x) \/ x = s
    BY <1>0, <1>a, Apart DEF Serves
  <2>2. \A x \in Sessions : Queued(x)' <=> Queued(x) /\ x # s
    BY <1>0, <1>a DEF Queued
  <2>3. \A x \in Sessions : /\ Stopping(x)' <=> Stopping(x)
                            /\ Ending(x)' <=> Ending(x)
                            /\ Unqueued(x)' <=> Unqueued(x)
    BY <1>0, <1>a DEF Stopping, Ending, Unqueued
  <2>4. \A x \in Sessions : x \in registered' <=> x \in registered
    BY <1>0, <1>a
  <2>5. \A x \in Sessions : Calls(x)' = Calls(x) /\ Calls(x) \in Nat
    BY <1>0, KeepCalls, InCallType
  <2>6. ASSUME NEW x \in Sessions PROVE w'[x].refs = RefSum(x)'
    <3>1. w[x].refs = RefSum(x) /\ w'[x].refs = w[x].refs
      BY <1>0, <1>a DEF IInv, RefsRight
    <3> QED
      BY <2>1, <2>2, <2>3, <2>4, <2>5, <3>1, <1>a DEF RefSum, One
  <2>7. ASSUME NEW x \in Sessions, x \notin spawned' \/ x \in freed' PROVE w'[x].refs = 0
    BY <1>0, <1>a, <2>7 DEF IInv, RefsRight, One
  <2> QED
    BY <2>6, <2>7 DEF RefsRight
<1> QED
  BY <1>1, <1>2, <1>3, <1>4, <1>5, <1>6, <1>7, <1>8 DEF IInv

(* A finishing thread ends. *)
LEMMA Inv_thread_retires_exit ==
  ASSUME IInv, ~panicked, NEW t \in Threads,
         Len(idle) >= IdleMax, thread_retires(t)
  PROVE  IInv'
<1>a. /\ tpc[t] = "after" /\ tw[t] = None /\ t \notin Elems(idle) /\ Distinct(idle)
      /\ word[t] # "PARKED" /\ running # 0
  <2>1. tpc[t] = "after"
    BY DEF thread_retires
  <2>2. tw[t] = None /\ t \notin Elems(idle) /\ Distinct(idle) /\ word[t] # "PARKED"
    BY <2>1 DEF IInv, ThreadsRight, ServedPCs
  <2>3. running # 0
    BY <2>1, CountType DEF CountedThread
  <2> QED
    BY <2>1, <2>2, <2>3
<1>0. /\ running' = running - 1
      /\ injected' \in Nat
      /\ tpc'[t] = "deliver_exit" /\ \A x \in Threads : x # t => tpc'[x] = tpc[x]
      /\ UNCHANGED <<w, spawned, registered, freed, runq, idle, refusals,
                     watching, stalled, mon, word, tw, tj, tf, dpc, xpc, xf,
                     spc, sf, completed, panicked>>
  BY <1>a, Typed DEF thread_retires, sessionVars, monVars, callVars
<1>1. TypeOK'
  <2>1. tpc' \in [Threads -> ThreadPCs]
    BY <1>a, ThreadTypes DEF thread_retires, ThreadPCs
  <2>2. running' \in Nat
    BY <1>0, <1>a, CountType
  <2> QED
    BY <1>0, <2>1, <2>2, Typed, <1>a DEF IInv, TypeOK, Session, ThreadPCs,
       DispatchPCs, EndPCs
<1>2. ThreadsRight'
  BY <1>0, <1>a DEF IInv, ThreadsRight, ServedPCs
<1>3. PoolAccounting'
  <2>1. /\ CountedThread(t) /\ ~CountedThread(t)'
        /\ \A x \in Threads : x # t => (CountedThread(x)' <=> CountedThread(x))
    BY <1>0, <1>a DEF CountedThread
  <2> QED
    BY <1>0, <2>1, CountLess
<1>4. Exclusive'
  BY <1>0, KeepExclusive
<1>5. RunsRight'
  BY <1>0, <1>a, MoveRuns DEF SameQueue, SameFlags
<1>6. QueuesRight' /\ Home' /\ Ends'
  BY <1>0, KeepSessions DEF SameQueue, SameFlags
<1>7. FutureOnce'
  BY <1>0, KeepFuture DEF Unposted
<1>8. RefsRight'
  BY <1>0, KeepCalls, KeepRefs DEF Stopping, Ending, Unqueued
<1> QED
  BY <1>1, <1>2, <1>3, <1>4, <1>5, <1>6, <1>7, <1>8 DEF IInv

(* A finishing thread goes to the idle list. *)
LEMMA Inv_thread_retires_park ==
  ASSUME IInv, ~panicked, NEW t \in Threads,
         ~(Len(idle) >= IdleMax), thread_retires(t)
  PROVE  IInv'
<1>a. /\ tpc[t] = "after" /\ tw[t] = None /\ t \notin Elems(idle) /\ Distinct(idle)
      /\ word[t] # "PARKED" /\ running # 0
  <2>1. tpc[t] = "after"
    BY DEF thread_retires
  <2>2. tw[t] = None /\ t \notin Elems(idle) /\ Distinct(idle) /\ word[t] # "PARKED"
    BY <2>1 DEF IInv, ThreadsRight, ServedPCs
  <2>3. running # 0
    BY <2>1, CountType DEF CountedThread
  <2> QED
    BY <2>1, <2>2, <2>3
<1>i. idle' = <<t>> \o idle
  BY DEF thread_retires
<1>j. idle' \in Seq(Threads) /\ Distinct(idle') /\ Elems(idle') = Elems(idle) \cup {t}
  BY <1>a, <1>i, Typed, PushFacts
<1>0. /\ running' = running - 1
      /\ injected' \in Nat
      /\ tpc'[t] = "deliver_park" /\ \A x \in Threads : x # t => tpc'[x] = tpc[x]
      /\ word'[t] = "IDLE" /\ \A x \in Threads : x # t => word'[x] = word[x]
      /\ idle' \in Seq(Threads) /\ Distinct(idle') /\ Elems(idle') = Elems(idle) \cup {t}
      /\ UNCHANGED <<w, spawned, registered, freed, runq, refusals, watching,
                     stalled, mon, tw, tj, tf, dpc, xpc, xf, spc, sf, completed,
                     panicked>>
  BY <1>a, Typed, <1>j DEF thread_retires, sessionVars, monVars, callVars
<1>1. TypeOK'
  <2>1. /\ tpc' \in [Threads -> ThreadPCs]
        /\ word' \in [Threads -> {"IDLE", "ASSIGNED", "PARKED"}]
    BY <1>a, ThreadTypes DEF thread_retires, ThreadPCs
  <2>2. running' \in Nat
    BY <1>0, <1>a, CountType
  <2> QED
    BY <1>0, <2>1, <2>2, Typed, <1>a DEF IInv, TypeOK, Session, ThreadPCs,
       DispatchPCs, EndPCs
<1>2. ThreadsRight'
  BY <1>0, <1>a DEF IInv, ThreadsRight, ServedPCs
<1>3. PoolAccounting'
  <2>1. /\ CountedThread(t) /\ ~CountedThread(t)'
        /\ \A x \in Threads : x # t => (CountedThread(x)' <=> CountedThread(x))
    BY <1>0, <1>a DEF CountedThread
  <2> QED
    BY <1>0, <2>1, CountLess
<1>4. Exclusive'
  BY <1>0, KeepExclusive
<1>5. RunsRight'
  BY <1>0, <1>a, MoveRuns DEF SameQueue, SameFlags
<1>6. QueuesRight' /\ Home' /\ Ends'
  BY <1>0, KeepSessions DEF SameQueue, SameFlags
<1>7. FutureOnce'
  BY <1>0, KeepFuture DEF Unposted
<1>8. RefsRight'
  BY <1>0, KeepCalls, KeepRefs DEF Stopping, Ending, Unqueued
<1> QED
  BY <1>1, <1>2, <1>3, <1>4, <1>5, <1>6, <1>7, <1>8 DEF IInv

(* An idle thread parks. *)
LEMMA Inv_park_thread_idle ==
  ASSUME IInv, ~panicked, NEW t \in Threads,
         word[t] = "IDLE", park_thread(t)
  PROVE  IInv'
<1>a. tpc[t] = "park" /\ tf[t] = None
  BY DEF park_thread, IInv, RunsRight
<1>0. /\ word'[t] = "PARKED" /\ \A x \in Threads : x # t => word'[x] = word[x]
      /\ tpc'[t] = "parked" /\ \A x \in Threads : x # t => tpc'[x] = tpc[x]
      /\ UNCHANGED <<w, spawned, registered, freed, runq, running, injected,
                     idle, refusals, watching, stalled, mon, tw, tj, tf, dpc,
                     xpc, xf, spc, sf, completed, panicked>>
  BY <1>a, Typed DEF park_thread, sessionVars, poolVars, monVars, callVars
<1>1. TypeOK'
  <2>1. /\ word' \in [Threads -> {"IDLE", "ASSIGNED", "PARKED"}]
        /\ tpc' \in [Threads -> ThreadPCs]
    BY <1>a, ThreadTypes DEF park_thread, ThreadPCs
  <2> QED
    BY <1>0, <2>1, Typed, <1>a DEF IInv, TypeOK, Session, ThreadPCs,
       DispatchPCs, EndPCs
<1>2. ThreadsRight'
  BY <1>0, <1>a DEF IInv, ThreadsRight, ServedPCs
<1>3. PoolAccounting'
  <2>1. \A x \in Threads : CountedThread(x)' <=> CountedThread(x)
    BY <1>0, <1>a DEF CountedThread
  <2> QED
    BY <1>0, <2>1, CountSame
<1>4. Exclusive'
  BY <1>0, KeepExclusive
<1>5. RunsRight'
  BY <1>0, <1>a, MoveRuns DEF SameQueue, SameFlags
<1>6. QueuesRight' /\ Home' /\ Ends'
  BY <1>0, KeepSessions DEF SameQueue, SameFlags
<1>7. FutureOnce'
  BY <1>0, KeepFuture DEF Unposted
<1>8. RefsRight'
  BY <1>0, KeepCalls, KeepRefs DEF Stopping, Ending, Unqueued
<1> QED
  BY <1>1, <1>2, <1>3, <1>4, <1>5, <1>6, <1>7, <1>8 DEF IInv

(* An idle thread was assigned before it parked. *)
LEMMA Inv_park_thread_assigned ==
  ASSUME IInv, ~panicked, NEW t \in Threads,
         word[t] # "IDLE", park_thread(t)
  PROVE  IInv'
<1>a. tpc[t] = "park" /\ tf[t] = None /\ word[t] = "ASSIGNED" /\ tw[t] \in Sessions
  <2>1. tpc[t] = "park" /\ tf[t] = None
    BY DEF park_thread, IInv, RunsRight
  <2>2. word[t] = "ASSIGNED"
    BY <2>1, ThreadTypes DEF IInv, ThreadsRight
  <2>3. tw[t] \in Sessions
    BY <2>1, <2>2, ThreadTypes DEF IInv, ThreadsRight
  <2> QED
    BY <2>1, <2>2, <2>3
<1>0. /\ tpc'[t] = "serve" /\ \A x \in Threads : x # t => tpc'[x] = tpc[x]
      /\ UNCHANGED <<w, spawned, registered, freed, runq, running, injected,
                     idle, refusals, watching, stalled, mon, word, tw, tj, tf,
                     dpc, xpc, xf, spc, sf, completed, panicked>>
  BY <1>a, Typed DEF park_thread, sessionVars, poolVars, monVars, callVars
<1>1. TypeOK'
  <2>1. tpc' \in [Threads -> ThreadPCs]
    BY <1>a, ThreadTypes DEF park_thread, ThreadPCs
  <2> QED
    BY <1>0, <2>1, Typed, <1>a DEF IInv, TypeOK, Session, ThreadPCs,
       DispatchPCs, EndPCs
<1>2. ThreadsRight'
  BY <1>0, <1>a DEF IInv, ThreadsRight, ServedPCs
<1>3. PoolAccounting'
  <2>1. \A x \in Threads : CountedThread(x)' <=> CountedThread(x)
    BY <1>0, <1>a DEF CountedThread
  <2> QED
    BY <1>0, <2>1, CountSame
<1>4. Exclusive'
  BY <1>0, KeepExclusive
<1>5. RunsRight'
  BY <1>0, <1>a, MoveRuns DEF SameQueue, SameFlags
<1>6. QueuesRight' /\ Home' /\ Ends'
  BY <1>0, KeepSessions DEF SameQueue, SameFlags
<1>7. FutureOnce'
  BY <1>0, KeepFuture DEF Unposted
<1>8. RefsRight'
  BY <1>0, KeepCalls, KeepRefs DEF Stopping, Ending, Unqueued
<1> QED
  BY <1>1, <1>2, <1>3, <1>4, <1>5, <1>6, <1>7, <1>8 DEF IInv

(* enqueue accepts a job. *)
LEMMA Inv_enqueue_accepted ==
  ASSUME IInv, ~panicked, NEW j \in Jobs,
         NEW s \in Sessions, s = On[j], ~Refused(s), enqueue(j)
  PROVE  IInv'
<1>a. /\ dpc[j] = "enqueue" /\ Unposted(j) /\ ~Posted(j) /\ ~w[s].dead
      /\ w[s].queue \in Seq(Jobs) /\ Distinct(w[s].queue)
      /\ s \in OneShot => w[s].queue = <<>> /\ ~w[s].busy
      /\ ~w[s].bound => ~Binds(s)
      /\ xpc[s] \in {"new", "stop"} /\ spc[s] \in {"new", "stop"}
  <2>1. dpc[j] = "enqueue" /\ Unposted(j)
    BY DEF enqueue, Unposted
  <2>2. ~Posted(j)
    <3>1. completed[j] + One(Unposted(j)) + One(Posted(j)) + One(Running(j)) + One(Holds(j))
              + One(AtTerminate(j)) + One(AtShutdown(j)) = 1
      BY DEF IInv, FutureOnce
    <3>2. completed[j] \in Nat
      BY Typed
    <3> QED
      BY <2>1, <3>1, <3>2 DEF One
  <2>3. ~w[s].dead /\ (s \in OneShot => ~w[s].bound)
    BY DEF Refused
  <2>4. w[s].queue \in Seq(Jobs) /\ Distinct(w[s].queue)
    BY WType DEF Session, IInv, QueuesRight
  <2>5. ~w[s].bound => ~Binds(s) /\ ~Serves(s)
    BY DEF IInv, Exclusive, One
  <2>6. ~w[s].bound => w[s].queue = <<>> /\ ~w[s].busy
    BY <2>5 DEF IInv, QueuesRight, RunsRight, Serves
  <2>7. xpc[s] \in {"new", "stop"} /\ spc[s] \in {"new", "stop"}
    BY <2>3 DEF IInv, QueuesRight
  <2> QED
    BY <2>1, <2>2, <2>3, <2>4, <2>5, <2>6, <2>7
<1>b. Unposted(j) /\ ~Posted(j)
  BY <1>a
<1>q. /\ Append(w[s].queue, j) \in Seq(Jobs) /\ Append(w[s].queue, j) # <<>>
      /\ Len(Append(w[s].queue, j)) = Len(w[s].queue) + 1
      /\ Elems(Append(w[s].queue, j)) = Elems(w[s].queue) \cup {j}
      /\ Distinct(Append(w[s].queue, j))
  BY <1>a, AppendFacts DEF Posted
<1>o. s \in OneShot => Len(Append(w[s].queue, j)) <= 1
  BY <1>a, <1>q
<1>p. tpc' \in [Threads -> ThreadPCs] /\ Woken
  <2>1. tpc' = Signalled(s) \/ tpc' = tpc
    BY DEF enqueue
  <2> QED
    BY <2>1, Signals, ThreadTypes DEF Woken
<1>0. /\ w' \in [Sessions -> Session]
      /\ \A x \in Sessions : x # s => w'[x] = w[x]
      /\ w'[s].refs = w[s].refs /\ w'[s].queue = Append(w[s].queue, j)
      /\ w'[s].active = w[s].active /\ w'[s].bound /\ SameFlags(s)
      /\ dpc'[j] = (IF w[s].bound THEN "release" ELSE "bind")
      /\ \A x \in Jobs : x # j => dpc'[x] = dpc[x]
      /\ tpc' \in [Threads -> ThreadPCs] /\ Woken
      /\ UNCHANGED <<spawned, registered, freed, runq, running, injected, idle,
                     refusals, watching, stalled, mon, word, tw, tj, tf, xpc,
                     xf, spc, sf, completed, panicked>>
  <2>1. /\ w' \in [Sessions -> Session]
        /\ \A x \in Sessions : x # s => w'[x] = w[x]
        /\ w'[s].refs = w[s].refs /\ w'[s].queue = Append(w[s].queue, j)
        /\ w'[s].active = w[s].active /\ w'[s].bound /\ SameFlags(s)
    <3>1. w' \in [Sessions -> Session]
      <4>1. w[s] \in Session
        BY WType
      <4>2. w'[s] \in Session
        <5>1. Append(w[s].queue, j) \in Seq(Jobs)
          BY <1>q
        <5>2. w'[s] = [w[s] EXCEPT !.queue = Append(w[s].queue, j), !.bound = TRUE,
                                   !.parked = FALSE]
          BY WType DEF enqueue
        <5> QED
          BY <4>1, <5>1, <5>2 DEF Session
      <4>3. \A x \in Sessions : w'[x] \in Session
        BY <4>2, WType DEF enqueue
      <4>4. w' = [x \in Sessions |-> w'[x]]
        BY WType DEF enqueue
      <4> QED
        BY <4>3, <4>4
    <3>2. \A x \in Sessions : x # s => w'[x] = w[x]
      BY WType DEF enqueue
    <3>3. /\ w'[s].refs = w[s].refs /\ w'[s].queue = Append(w[s].queue, j)
          /\ w'[s].active = w[s].active /\ w'[s].bound /\ SameFlags(s)
      BY WType DEF enqueue, Session, SameFlags
    <3> QED
      BY <3>1, <3>2, <3>3
  <2>2. /\ dpc'[j] = (IF w[s].bound THEN "release" ELSE "bind")
        /\ \A x \in Jobs : x # j => dpc'[x] = dpc[x]
        /\ tpc' \in [Threads -> ThreadPCs] /\ Woken
        /\ UNCHANGED <<spawned, registered, freed, runq, running, injected, idle,
                       refusals, watching, stalled, mon, word, tw, tj, tf, xpc,
                       xf, spc, sf, completed, panicked>>
    BY <1>a, Typed, <1>p DEF enqueue, poolVars, monVars
  <2> QED
    BY <2>1, <2>2
<1>1. TypeOK'
  <2>1. /\ dpc' \in [Jobs -> DispatchPCs]
        /\ tpc' \in [Threads -> ThreadPCs]
    BY <1>a, DispatchTypes, ThreadTypes, <1>p DEF enqueue, DispatchPCs,
       ThreadPCs
  <2> QED
    BY <1>0, <2>1, Typed, <1>a, <1>p DEF IInv, TypeOK, Session, ThreadPCs,
       DispatchPCs, EndPCs
<1>2. ThreadsRight'
  BY <1>0, WokenThreads
<1>3. PoolAccounting'
  BY <1>0, WokenThreads
<1>4. Exclusive'
  <2>1. \A x \in Sessions : Binds(x)' <=> Binds(x) \/ (x = s /\ ~w[s].bound)
    BY <1>0, <1>a DEF Binds
  <2>2. \A x \in Sessions : /\ Serves(x)' <=> Serves(x)
                            /\ Queued(x)' <=> Queued(x)
                            /\ Unqueuing(x)' <=> Unqueuing(x)
    BY <1>0, <1>a DEF Serves, Queued, Unqueuing
  <2>3. Distinct(runq')
    BY <1>0, <1>a DEF IInv, Exclusive
  <2>4. \A p, q \in Threads : tw'[p] = tw'[q] /\ tw'[p] # None => p = q
    BY <1>0, <1>a DEF IInv, Exclusive
  <2>5. \A p, q \in Jobs :
          dpc'[p] = "bind" /\ dpc'[q] = "bind" /\ On[p] = On[q] => p = q
    BY <1>0, <1>a DEF IInv, Exclusive, Binds
  <2>6. \A x \in Sessions : w'[x].bound <=> w[x].bound \/ x = s
    BY <1>0, <1>a
  <2>7. ASSUME NEW x \in Sessions
        PROVE  One(Serves(x)') + One(Binds(x)') + One(Queued(x)') + One(Unqueuing(x)')
                   = One(w'[x].bound)
    <3>1. One(Serves(x)) + One(Binds(x)) + One(Queued(x)) + One(Unqueuing(x)) = One(w[x].bound)
      BY DEF IInv, Exclusive
    <3> QED
      BY <2>1, <2>2, <2>6, <3>1 DEF One
  <2> QED
    BY <2>3, <2>4, <2>5, <2>7 DEF Exclusive
<1>5. RunsRight'
  BY <1>0, WokenRuns DEF SameFlags
<1>6. QueuesRight'
  <2>1. ASSUME NEW x \in Sessions, x # s
        PROVE  /\ Distinct(w'[x].queue)
               /\ w'[x].queue # <<>> => w'[x].bound /\ ~w'[x].dead
               /\ x \in OneShot => Len(w'[x].queue) <= 1 /\ (w'[x].busy => w'[x].queue = <<>>)
               /\ xpc'[x] \notin {"new", "stop"} \/ spc'[x] \notin {"new", "stop"} => w'[x].dead
    BY <1>0, <2>1 DEF IInv, QueuesRight
  <2>2. /\ Distinct(w'[s].queue) /\ w'[s].bound /\ ~w'[s].dead
        /\ s \in OneShot => Len(w'[s].queue) <= 1 /\ ~w'[s].busy
    BY <1>0, <1>a, <1>q, <1>o DEF SameFlags
  <2>3. xpc'[s] \in {"new", "stop"} /\ spc'[s] \in {"new", "stop"}
    BY <1>0, <1>a
  <2> QED
    BY <2>1, <2>2, <2>3 DEF QueuesRight
<1>7. Home'
  <2>1. ASSUME NEW x \in Sessions, NEW y \in Jobs,
               y \in Elems(w'[x].queue) \/ w'[x].active = y \/ y \in xf'[x] \/ y \in sf'[x]
        PROVE  On[y] = x
    <3>1. CASE x # s
      BY <1>0, <2>1, <3>1 DEF IInv, Home
    <3>2. CASE x = s
      <4>1. y = j \/ y \in Elems(w[s].queue) \/ w[s].active = y \/ y \in xf[s] \/ y \in sf[s]
        BY <1>0, <1>q, <2>1, <3>2
      <4> QED
        BY <3>2, <4>1 DEF IInv, Home
    <3> QED
      BY <3>1, <3>2
  <2> QED
    BY <1>0, <2>1 DEF IInv, Home
<1>8. Ends'
  BY <1>0, <1>a DEF IInv, Ends, SameFlags
<1>9. FutureOnce'
  <2>1. \A y \in Jobs : Unposted(y)' <=> Unposted(y) /\ y # j
    BY <1>0, <1>a DEF Unposted
  <2>2. \A y \in Jobs : Posted(y)' <=> Posted(y) \/ y = j
    <3> SUFFICES ASSUME NEW y \in Jobs PROVE Posted(y)' <=> Posted(y) \/ y = j
      OBVIOUS
    <3>1. On[y] \in Sessions
      BY DispatchTypes
    <3>2. CASE On[y] = s
      BY <1>0, <1>q, <3>2 DEF Posted
    <3>3. CASE On[y] # s
      BY <1>0, <3>1, <3>3 DEF Posted
    <3> QED
      BY <3>2, <3>3
  <2>3. \A y \in Jobs : /\ Running(y)' <=> Running(y)
                        /\ Holds(y)' <=> Holds(y)
                        /\ AtTerminate(y)' <=> AtTerminate(y)
                        /\ AtShutdown(y)' <=> AtShutdown(y)
    BY <1>0, <1>a, Typed DEF Running, Holds, AtTerminate, AtShutdown, SameQueue
  <2>4. \A p, q \in Threads : tf'[p] = tf'[q] /\ tf'[p] # None => p = q
    BY <1>0, <1>a DEF IInv, FutureOnce
  <2>5. \A y \in Jobs : completed'[y] = completed[y] /\ completed[y] \in Nat
    BY <1>0, <1>a, Typed DEF One
  <2>6. ASSUME NEW y \in Jobs
        PROVE  completed'[y] + One(Unposted(y)') + One(Posted(y)') + One(Running(y)')
                   + One(Holds(y)') + One(AtTerminate(y)') + One(AtShutdown(y)') = 1
    <3>1. completed[y] + One(Unposted(y)) + One(Posted(y)) + One(Running(y))
              + One(Holds(y)) + One(AtTerminate(y)) + One(AtShutdown(y)) = 1
      BY DEF IInv, FutureOnce
    <3> QED
      BY <2>1, <2>2, <2>3, <2>5, <3>1, <1>b DEF One
  <2> QED
    BY <2>4, <2>6 DEF FutureOnce
<1>10. RefsRight'
  <2>1. \A x \in Sessions : /\ Stopping(x)' <=> Stopping(x)
                            /\ Ending(x)' <=> Ending(x)
                            /\ Unqueued(x)' <=> Unqueued(x)
    BY <1>0, <1>a DEF Stopping, Ending, Unqueued
  <2>2. \A x \in Sessions : Calls(x)' = Calls(x)
    BY <1>0, <1>a, InCallMoves DEF InCall
  <2> QED
    BY <1>0, <2>1, <2>2, KeepRefs
<1> QED
  BY <1>1, <1>2, <1>3, <1>4, <1>5, <1>6, <1>7, <1>8, <1>9, <1>10 DEF IInv

-----------------------------------------------------------------------------
(* Starting a queued session: pool_blocking and the monitor.               *)

QueueStarts(u, P) ==
    /\ runq # <<>> /\ Started(u, Head(runq), P)
    /\ runq' = Tail(runq)
    /\ SameStructs /\ Elsewhere /\ MonitorTypes'

QueueStays(P) ==
    /\ tpc' = P
    /\ SameStructs /\ Elsewhere /\ MonitorTypes'
    /\ UNCHANGED <<runq, idle, word, tw>>

(* The head of the run queue gets a thread. *)
LEMMA Inv_QueueStarts ==
  ASSUME IInv, ~panicked, NEW P, Moved(P),
         NEW u \in Threads, NEW s \in Sessions, s = Head(runq), PoolAccounting',
         QueueStarts(u, P)
  PROVE  IInv'
<1>a. /\ Queued(s) /\ ~Serves(s) /\ Started(u, s, P)
  BY QueueHead DEF QueueStarts
<1>v. /\ \A x \in Sessions : Serves(x)' <=> Serves(x) \/ x = s
      /\ \A p, q \in Threads : tw'[p] = tw'[q] /\ tw'[p] # None => p = q
  BY <1>a, StartedServes
<1>q. /\ runq' \in Seq(Sessions) /\ Distinct(runq')
      /\ \A x \in Sessions : Queued(x)' <=> Queued(x) /\ x # s
  BY QueueHead DEF QueueStarts, Queued
<1>0. /\ w' \in [Sessions -> Session]
      /\ \A x \in Sessions : /\ w'[x].refs = w[x].refs
                             /\ SameQueue(x) /\ SameFlags(x)
                             /\ w'[x].bound <=> w[x].bound
      /\ tpc' \in [Threads -> ThreadPCs]
      /\ tw' \in [Threads -> Sessions \cup {None}]
      /\ word' \in [Threads -> {"IDLE", "ASSIGNED", "PARKED"}]
      /\ idle' \in Seq(Threads)
      /\ runq' \in Seq(Sessions) /\ Distinct(runq')
      /\ \A x \in Sessions : Queued(x)' <=> Queued(x) /\ x # s
      /\ MonitorTypes'
      /\ UNCHANGED <<spawned, registered, freed, tj, tf, dpc, xpc, xf, spc, sf,
                     completed, panicked>>
  <2>1. /\ w' \in [Sessions -> Session]
        /\ \A x \in Sessions : /\ w'[x].refs = w[x].refs
                               /\ SameQueue(x) /\ SameFlags(x)
                               /\ w'[x].bound <=> w[x].bound
    BY DEF QueueStarts, SameStructs
  <2>2. /\ tpc' \in [Threads -> ThreadPCs]
        /\ tw' \in [Threads -> Sessions \cup {None}]
        /\ word' \in [Threads -> {"IDLE", "ASSIGNED", "PARKED"}]
        /\ idle' \in Seq(Threads)
        /\ runq' \in Seq(Sessions) /\ Distinct(runq')
        /\ \A x \in Sessions : Queued(x)' <=> Queued(x) /\ x # s
        /\ MonitorTypes'
        /\ UNCHANGED <<spawned, registered, freed, tj, tf, dpc, xpc, xf, spc, sf,
                       completed, panicked>>
    BY <1>a, Typed, <1>q DEF QueueStarts, Elsewhere, callVars, Started
  <2> QED
    BY <2>1, <2>2
<1>1. TypeOK'
  BY <1>0, Typed DEF IInv, TypeOK, Session, ThreadPCs, DispatchPCs, EndPCs, MonitorTypes
<1>2. ThreadsRight'
  BY <1>a, StartedThreads
<1>3. PoolAccounting'
  OBVIOUS
<1>4. Exclusive'
  <2>1. \A x \in Sessions : Serves(x)' <=> Serves(x) \/ x = s
    BY <1>v
  <2>2. \A x \in Sessions : Queued(x)' <=> Queued(x) /\ x # s
    BY <1>0
  <2>3. \A x \in Sessions : /\ Binds(x)' <=> Binds(x)
                            /\ Unqueuing(x)' <=> Unqueuing(x)
    BY <1>0, <1>a DEF Binds, Unqueuing
  <2>4. Distinct(runq')
    BY <1>0
  <2>5. \A p, q \in Threads : tw'[p] = tw'[q] /\ tw'[p] # None => p = q
    BY <1>v
  <2>6. \A p, q \in Jobs :
          dpc'[p] = "bind" /\ dpc'[q] = "bind" /\ On[p] = On[q] => p = q
    BY <1>0, <1>a DEF IInv, Exclusive
  <2>7. \A x \in Sessions : w'[x].bound <=> w[x].bound
    BY <1>0, <1>a
  <2>8. ASSUME NEW x \in Sessions
        PROVE  One(Serves(x)') + One(Binds(x)') + One(Queued(x)') + One(Unqueuing(x)')
                   = One(w'[x].bound)
    <3>1. One(Serves(x)) + One(Binds(x)) + One(Queued(x)) + One(Unqueuing(x)) = One(w[x].bound)
      BY DEF IInv, Exclusive
    <3> QED
      BY <2>1, <2>2, <2>3, <2>7, <3>1, <1>a DEF One
  <2> QED
    BY <2>4, <2>5, <2>6, <2>8 DEF Exclusive
<1>5. RunsRight'
  BY <1>0, <1>a, StartedRuns
<1>6. QueuesRight' /\ Home' /\ Ends'
  BY <1>0, KeepSessions DEF SameQueue, SameFlags
<1>7. FutureOnce'
  BY <1>0, <1>a, KeepFuture DEF SameQueue, SameFlags, Unposted
<1>8. RefsRight'
  <2>1. \A x \in Sessions : Serves(x)' <=> Serves(x) \/ x = s
    BY <1>v
  <2>2. \A x \in Sessions : Queued(x)' <=> Queued(x) /\ x # s
    BY <1>0
  <2>3. \A x \in Sessions : /\ Stopping(x)' <=> Stopping(x)
                            /\ Ending(x)' <=> Ending(x)
                            /\ Unqueued(x)' <=> Unqueued(x)
    BY <1>0, <1>a DEF Stopping, Ending, Unqueued
  <2>4. \A x \in Sessions : x \in registered' <=> x \in registered
    BY <1>0, <1>a
  <2>5. \A x \in Sessions : Calls(x)' = Calls(x) /\ Calls(x) \in Nat
    BY <1>0, KeepCalls, InCallType
  <2>6. ASSUME NEW x \in Sessions PROVE w'[x].refs = RefSum(x)'
    <3>1. w[x].refs = RefSum(x) /\ w'[x].refs = w[x].refs
      BY <1>0, <1>a DEF IInv, RefsRight
    <3> QED
      BY <2>1, <2>2, <2>3, <2>4, <2>5, <3>1, <1>a DEF RefSum, One
  <2>7. ASSUME NEW x \in Sessions, x \notin spawned' \/ x \in freed' PROVE w'[x].refs = 0
    BY <1>0, <1>a, <2>7 DEF IInv, RefsRight, One
  <2> QED
    BY <2>6, <2>7 DEF RefsRight
<1> QED
  BY <1>1, <1>2, <1>3, <1>4, <1>5, <1>6, <1>7, <1>8 DEF IInv

(* No thread is started. *)
LEMMA Inv_QueueStays ==
  ASSUME IInv, ~panicked, NEW P, Moved(P),
         PoolAccounting', QueueStays(P)
  PROVE  IInv'
<1>0. /\ w' \in [Sessions -> Session]
      /\ \A x \in Sessions : /\ w'[x].refs = w[x].refs
                             /\ SameQueue(x) /\ SameFlags(x)
                             /\ w'[x].bound <=> w[x].bound
      /\ tpc' = P
      /\ MonitorTypes'
      /\ UNCHANGED <<spawned, registered, freed, runq, idle, word, tw, tj, tf,
                     dpc, xpc, xf, spc, sf, completed, panicked>>
  <2>1. /\ w' \in [Sessions -> Session]
        /\ \A x \in Sessions : /\ w'[x].refs = w[x].refs
                               /\ SameQueue(x) /\ SameFlags(x)
                               /\ w'[x].bound <=> w[x].bound
    BY DEF QueueStays, SameStructs
  <2>2. /\ tpc' = P
        /\ MonitorTypes'
        /\ UNCHANGED <<spawned, registered, freed, runq, idle, word, tw, tj, tf,
                       dpc, xpc, xf, spc, sf, completed, panicked>>
    BY Typed DEF QueueStays, Elsewhere, callVars
  <2> QED
    BY <2>1, <2>2
<1>1. TypeOK'
  BY <1>0, Typed, MovedTypes DEF IInv, TypeOK, Session, ThreadPCs, DispatchPCs, EndPCs, MonitorTypes
<1>2. ThreadsRight'
  BY <1>0, MovedThreads
<1>3. PoolAccounting'
  OBVIOUS
<1>4. Exclusive'
  BY <1>0, KeepExclusive
<1>5. RunsRight'
  BY <1>0, MovedThreads
<1>6. QueuesRight' /\ Home' /\ Ends'
  BY <1>0, KeepSessions DEF SameQueue, SameFlags
<1>7. FutureOnce'
  BY <1>0, KeepFuture DEF SameQueue, SameFlags, Unposted
<1>8. RefsRight'
  <2>1. \A x \in Sessions : /\ Stopping(x)' <=> Stopping(x)
                            /\ Ending(x)' <=> Ending(x)
                            /\ Unqueued(x)' <=> Unqueued(x)
    BY <1>0 DEF Stopping, Ending, Unqueued
  <2>2. \A x \in Sessions : Calls(x)' = Calls(x)
    BY <1>0, KeepCalls
  <2> QED
    BY <1>0, <2>1, <2>2, KeepRefs
<1> QED
  BY <1>1, <1>2, <1>3, <1>4, <1>5, <1>6, <1>7, <1>8 DEF IInv

-----------------------------------------------------------------------------
(* bind_thread: the session is queued, gets a thread, or the process ends. *)

BindQueued(j) ==
    /\ dpc[j] = "bind"
    /\ w' = [w EXCEPT ![On[j]].refs = @ + 1]
    /\ runq' = Append(runq, On[j])
    /\ MonitorTypes' /\ running' = running /\ injected' = injected
    /\ dpc' = [dpc EXCEPT ![j] = "release"]
    /\ UNCHANGED <<spawned, registered, freed, idle, threadVars, xpc, xf, spc, sf, completed,
                   panicked>>

BindStarted(j, u) ==
    /\ dpc[j] = "bind"
    /\ w' = [w EXCEPT ![On[j]].refs = @ + 1]
    /\ Started(u, On[j], tpc) /\ running' = running + 1
    /\ dpc' = [dpc EXCEPT ![j] = "release"]
    /\ UNCHANGED <<spawned, registered, freed, runq, injected, monVars, tj, tf, xpc, xf, spc, sf,
                   completed, panicked>>

BindPanics(j) ==
    /\ dpc[j] = "bind"
    /\ w' = [w EXCEPT ![On[j]].refs = @ + 1]
    /\ panicked' = TRUE /\ registered' = registered \ {On[j]}
    /\ refusals' \in 0..MaxRefusals
    /\ UNCHANGED <<spawned, freed, runq, running, injected, idle, monVars, threadVars, callVars,
                   completed>>

(* The session waits in the run queue. *)
LEMMA Inv_BindQueued ==
  ASSUME IInv, ~panicked, NEW j \in Jobs,
         NEW s \in Sessions, s = On[j], BindQueued(j)
  PROVE  IInv'
<1>a. /\ dpc[j] = "bind" /\ Binds(s) /\ ~Serves(s) /\ ~Queued(s) /\ s \in spawned /\ s \notin freed
  <2>1. dpc[j] = "bind" /\ Binds(s)
    BY DEF BindQueued, Binds
  <2>2. ~Serves(s) /\ ~Queued(s)
    BY <2>1 DEF IInv, Exclusive, One
  <2>3. s \in spawned /\ s \notin freed
    BY <2>1, Referred DEF InCall
  <2> QED
    BY <2>1, <2>2, <2>3
<1>q. /\ runq' \in Seq(Sessions) /\ Distinct(runq')
      /\ \A x \in Sessions : Queued(x)' <=> Queued(x) \/ x = s
  <2>1. runq \in Seq(Sessions) /\ Distinct(runq)
    BY Typed DEF IInv, Exclusive
  <2>2. runq' = Append(runq, s)
    BY DEF BindQueued
  <2> QED
    BY <1>a, <2>1, <2>2, AppendFacts DEF Queued
<1>0. /\ w' \in [Sessions -> Session]
      /\ \A x \in Sessions : /\ w'[x].refs = w[x].refs + One(x = s)
                             /\ SameQueue(x) /\ SameFlags(x)
                             /\ w'[x].bound <=> w[x].bound
      /\ dpc'[j] = "release" /\ \A x \in Jobs : x # j => dpc'[x] = dpc[x]
      /\ runq' \in Seq(Sessions) /\ Distinct(runq')
      /\ \A x \in Sessions : Queued(x)' <=> Queued(x) \/ x = s
      /\ MonitorTypes'
      /\ UNCHANGED <<spawned, registered, freed, running, injected, idle, tpc,
                     word, tw, tj, tf, xpc, xf, spc, sf, completed, panicked>>
  <2>1. /\ w' \in [Sessions -> Session]
        /\ \A x \in Sessions : /\ w'[x].refs = w[x].refs + One(x = s)
                               /\ SameQueue(x) /\ SameFlags(x)
                               /\ w'[x].bound <=> w[x].bound
    BY TakeRef DEF BindQueued
  <2>2. /\ dpc'[j] = "release" /\ \A x \in Jobs : x # j => dpc'[x] = dpc[x]
        /\ runq' \in Seq(Sessions) /\ Distinct(runq')
        /\ \A x \in Sessions : Queued(x)' <=> Queued(x) \/ x = s
        /\ MonitorTypes'
        /\ UNCHANGED <<spawned, registered, freed, running, injected, idle, tpc,
                       word, tw, tj, tf, xpc, xf, spc, sf, completed, panicked>>
    BY <1>a, Typed, <1>q DEF BindQueued, threadVars
  <2> QED
    BY <2>1, <2>2
<1>1. TypeOK'
  <2>1. dpc' \in [Jobs -> DispatchPCs]
    BY DispatchTypes DEF BindQueued, DispatchPCs
  <2> QED
    BY <1>0, <2>1, Typed DEF IInv, TypeOK, Session, ThreadPCs, DispatchPCs, EndPCs, MonitorTypes
<1>2. ThreadsRight'
  BY <1>0, KeepThreads
<1>3. PoolAccounting'
  BY <1>0, KeepCount
<1>4. Exclusive'
  <2>1. \A x \in Sessions : Binds(x)' <=> Binds(x) /\ x # s
    BY <1>0, <1>a DEF IInv, Exclusive, Binds
  <2>2. \A x \in Sessions : Queued(x)' <=> Queued(x) \/ x = s
    BY <1>0
  <2>3. \A x \in Sessions : /\ Serves(x)' <=> Serves(x)
                            /\ Unqueuing(x)' <=> Unqueuing(x)
    BY <1>0, <1>a DEF Serves, Unqueuing
  <2>4. Distinct(runq')
    BY <1>0
  <2>5. \A p, q \in Threads : tw'[p] = tw'[q] /\ tw'[p] # None => p = q
    BY <1>0, <1>a DEF IInv, Exclusive
  <2>6. \A p, q \in Jobs :
          dpc'[p] = "bind" /\ dpc'[q] = "bind" /\ On[p] = On[q] => p = q
    BY <1>0, <1>a DEF IInv, Exclusive
  <2>7. \A x \in Sessions : w'[x].bound <=> w[x].bound
    BY <1>0, <1>a
  <2>8. ASSUME NEW x \in Sessions
        PROVE  One(Serves(x)') + One(Binds(x)') + One(Queued(x)') + One(Unqueuing(x)')
                   = One(w'[x].bound)
    <3>1. One(Serves(x)) + One(Binds(x)) + One(Queued(x)) + One(Unqueuing(x)) = One(w[x].bound)
      BY DEF IInv, Exclusive
    <3> QED
      BY <2>1, <2>2, <2>3, <2>7, <3>1, <1>a DEF One
  <2> QED
    BY <2>4, <2>5, <2>6, <2>8 DEF Exclusive
<1>5. RunsRight'
  BY <1>0, <1>a, KeepRuns DEF SameQueue, SameFlags
<1>6. QueuesRight' /\ Home' /\ Ends'
  BY <1>0, KeepSessions DEF SameQueue, SameFlags
<1>7. FutureOnce'
  BY <1>0, <1>a, KeepFuture DEF SameQueue, SameFlags, Unposted
<1>8. RefsRight'
  <2>1. \A x \in Sessions : Queued(x)' <=> Queued(x) \/ x = s
    BY <1>0
  <2>2. \A x \in Sessions : /\ Stopping(x)' <=> Stopping(x)
                            /\ Ending(x)' <=> Ending(x)
                            /\ Serves(x)' <=> Serves(x)
                            /\ Unqueued(x)' <=> Unqueued(x)
    BY <1>0, <1>a DEF Stopping, Ending, Serves, Unqueued
  <2>3. \A x \in Sessions : x \in registered' <=> x \in registered
    BY <1>0, <1>a
  <2>4. \A x \in Sessions : Calls(x)' = Calls(x) /\ Calls(x) \in Nat
    BY <1>0, <1>a, InCallType, InCallMoves DEF InCall, One
  <2>5. ASSUME NEW x \in Sessions PROVE w'[x].refs = RefSum(x)'
    <3>1. w[x].refs = RefSum(x) /\ w'[x].refs = w[x].refs + One(x = s)
      BY <1>0, <1>a DEF IInv, RefsRight
    <3> QED
      BY <2>1, <2>2, <2>3, <2>4, <3>1, <1>a DEF RefSum, One
  <2>6. ASSUME NEW x \in Sessions, x \notin spawned' \/ x \in freed' PROVE w'[x].refs = 0
    BY <1>0, <1>a, <2>6 DEF IInv, RefsRight, One
  <2> QED
    BY <2>5, <2>6 DEF RefsRight
<1> QED
  BY <1>1, <1>2, <1>3, <1>4, <1>5, <1>6, <1>7, <1>8 DEF IInv

(* The session gets a thread. *)
LEMMA Inv_BindStarted ==
  ASSUME IInv, ~panicked, NEW j \in Jobs,
         NEW s \in Sessions, s = On[j], NEW u \in Threads, BindStarted(j, u)
  PROVE  IInv'
<1>a. /\ dpc[j] = "bind" /\ Binds(s) /\ ~Serves(s) /\ ~Queued(s) /\ s \in spawned /\ s \notin freed
  <2>1. dpc[j] = "bind" /\ Binds(s)
    BY DEF BindStarted, Binds
  <2>2. ~Serves(s) /\ ~Queued(s)
    BY <2>1 DEF IInv, Exclusive, One
  <2>3. s \in spawned /\ s \notin freed
    BY <2>1, Referred DEF InCall
  <2> QED
    BY <2>1, <2>2, <2>3
<1>b. Started(u, s, tpc)
  BY DEF BindStarted
<1>v. /\ \A x \in Sessions : Serves(x)' <=> Serves(x) \/ x = s
      /\ \A p, q \in Threads : tw'[p] = tw'[q] /\ tw'[p] # None => p = q
  BY <1>a, <1>b, StartedServes
<1>0. /\ w' \in [Sessions -> Session]
      /\ \A x \in Sessions : /\ w'[x].refs = w[x].refs + One(x = s)
                             /\ SameQueue(x) /\ SameFlags(x)
                             /\ w'[x].bound <=> w[x].bound
      /\ dpc'[j] = "release" /\ \A x \in Jobs : x # j => dpc'[x] = dpc[x]
      /\ running' = running + 1
      /\ refusals' = refusals
      /\ tpc' \in [Threads -> ThreadPCs]
      /\ tw' \in [Threads -> Sessions \cup {None}]
      /\ word' \in [Threads -> {"IDLE", "ASSIGNED", "PARKED"}]
      /\ idle' \in Seq(Threads)
      /\ UNCHANGED <<spawned, registered, freed, runq, injected, watching,
                     stalled, mon, tj, tf, xpc, xf, spc, sf, completed, panicked>>
  <2>1. /\ w' \in [Sessions -> Session]
        /\ \A x \in Sessions : /\ w'[x].refs = w[x].refs + One(x = s)
                               /\ SameQueue(x) /\ SameFlags(x)
                               /\ w'[x].bound <=> w[x].bound
    BY TakeRef DEF BindStarted
  <2>2. /\ dpc'[j] = "release" /\ \A x \in Jobs : x # j => dpc'[x] = dpc[x]
        /\ running' = running + 1
        /\ refusals' = refusals
        /\ tpc' \in [Threads -> ThreadPCs]
        /\ tw' \in [Threads -> Sessions \cup {None}]
        /\ word' \in [Threads -> {"IDLE", "ASSIGNED", "PARKED"}]
        /\ idle' \in Seq(Threads)
        /\ UNCHANGED <<spawned, registered, freed, runq, injected, watching,
                       stalled, mon, tj, tf, xpc, xf, spc, sf, completed, panicked>>
    BY <1>a, Typed DEF BindStarted, monVars, Started
  <2> QED
    BY <2>1, <2>2
<1>1. TypeOK'
  <2>1. dpc' \in [Jobs -> DispatchPCs]
    BY DispatchTypes DEF BindStarted, DispatchPCs
  <2>2. running' \in Nat
    BY <1>0, CountType
  <2> QED
    BY <1>0, <2>1, <2>2, Typed DEF IInv, TypeOK, Session, ThreadPCs, DispatchPCs, EndPCs
<1>2. ThreadsRight'
  BY <1>b, MovedSame, StartedThreads
<1>3. PoolAccounting'
  <2>1. /\ ~CountedThread(u) /\ CountedThread(u)'
        /\ \A x \in Threads : x # u => (CountedThread(x)' <=> CountedThread(x))
    BY <1>b DEF Started, CountedThread
  <2> QED
    BY <1>0, <2>1, CountMore
<1>4. Exclusive'
  <2>1. \A x \in Sessions : Serves(x)' <=> Serves(x) \/ x = s
    BY <1>v
  <2>2. \A x \in Sessions : Binds(x)' <=> Binds(x) /\ x # s
    BY <1>0, <1>a DEF IInv, Exclusive, Binds
  <2>3. \A x \in Sessions : /\ Queued(x)' <=> Queued(x)
                            /\ Unqueuing(x)' <=> Unqueuing(x)
    BY <1>0, <1>a DEF Queued, Unqueuing
  <2>4. Distinct(runq')
    BY <1>0, <1>a DEF IInv, Exclusive
  <2>5. \A p, q \in Threads : tw'[p] = tw'[q] /\ tw'[p] # None => p = q
    BY <1>v
  <2>6. \A p, q \in Jobs :
          dpc'[p] = "bind" /\ dpc'[q] = "bind" /\ On[p] = On[q] => p = q
    BY <1>0, <1>a DEF IInv, Exclusive
  <2>7. \A x \in Sessions : w'[x].bound <=> w[x].bound
    BY <1>0, <1>a
  <2>8. ASSUME NEW x \in Sessions
        PROVE  One(Serves(x)') + One(Binds(x)') + One(Queued(x)') + One(Unqueuing(x)')
                   = One(w'[x].bound)
    <3>1. One(Serves(x)) + One(Binds(x)) + One(Queued(x)) + One(Unqueuing(x)) = One(w[x].bound)
      BY DEF IInv, Exclusive
    <3> QED
      BY <2>1, <2>2, <2>3, <2>7, <3>1, <1>a DEF One
  <2> QED
    BY <2>4, <2>5, <2>6, <2>8 DEF Exclusive
<1>5. RunsRight'
  BY <1>0, <1>a, <1>b, MovedSame, StartedRuns
<1>6. QueuesRight' /\ Home' /\ Ends'
  BY <1>0, KeepSessions DEF SameQueue, SameFlags
<1>7. FutureOnce'
  BY <1>0, <1>a, KeepFuture DEF SameQueue, SameFlags, Unposted
<1>8. RefsRight'
  <2>1. \A x \in Sessions : Serves(x)' <=> Serves(x) \/ x = s
    BY <1>v
  <2>2. \A x \in Sessions : /\ Stopping(x)' <=> Stopping(x)
                            /\ Ending(x)' <=> Ending(x)
                            /\ Queued(x)' <=> Queued(x)
                            /\ Unqueued(x)' <=> Unqueued(x)
    BY <1>0, <1>a DEF Stopping, Ending, Queued, Unqueued
  <2>3. \A x \in Sessions : x \in registered' <=> x \in registered
    BY <1>0, <1>a
  <2>4. \A x \in Sessions : Calls(x)' = Calls(x) /\ Calls(x) \in Nat
    BY <1>0, <1>a, InCallType, InCallMoves DEF InCall, One
  <2>5. ASSUME NEW x \in Sessions PROVE w'[x].refs = RefSum(x)'
    <3>1. w[x].refs = RefSum(x) /\ w'[x].refs = w[x].refs + One(x = s)
      BY <1>0, <1>a DEF IInv, RefsRight
    <3> QED
      BY <2>1, <2>2, <2>3, <2>4, <3>1, <1>a DEF RefSum, One
  <2>6. ASSUME NEW x \in Sessions, x \notin spawned' \/ x \in freed' PROVE w'[x].refs = 0
    BY <1>0, <1>a, <2>6 DEF IInv, RefsRight, One
  <2> QED
    BY <2>5, <2>6 DEF RefsRight
<1> QED
  BY <1>1, <1>2, <1>3, <1>4, <1>5, <1>6, <1>7, <1>8 DEF IInv

(* The process ends. *)
LEMMA Inv_BindPanics ==
  ASSUME IInv, ~panicked, NEW j \in Jobs,
         NEW s \in Sessions, s = On[j], BindPanics(j)
  PROVE  IInv'
<1>a. /\ dpc[j] = "bind" /\ Binds(s) /\ ~Serves(s) /\ ~Queued(s) /\ s \in spawned /\ s \notin freed
  <2>1. dpc[j] = "bind" /\ Binds(s)
    BY DEF BindPanics, Binds
  <2>2. ~Serves(s) /\ ~Queued(s)
    BY <2>1 DEF IInv, Exclusive, One
  <2>3. s \in spawned /\ s \notin freed
    BY <2>1, Referred DEF InCall
  <2> QED
    BY <2>1, <2>2, <2>3
<1>0. /\ w' \in [Sessions -> Session]
      /\ \A x \in Sessions : /\ w'[x].refs = w[x].refs + One(x = s)
                             /\ SameQueue(x) /\ SameFlags(x)
                             /\ w'[x].bound <=> w[x].bound
      /\ registered' = registered \ {s}
      /\ refusals' \in 0..MaxRefusals
      /\ panicked' = TRUE
      /\ UNCHANGED <<spawned, freed, runq, running, injected, idle, watching,
                     stalled, mon, tpc, word, tw, tj, tf, dpc, xpc, xf, spc, sf,
                     completed>>
  <2>1. /\ w' \in [Sessions -> Session]
        /\ \A x \in Sessions : /\ w'[x].refs = w[x].refs + One(x = s)
                               /\ SameQueue(x) /\ SameFlags(x)
                               /\ w'[x].bound <=> w[x].bound
    BY TakeRef DEF BindPanics
  <2>2. /\ registered' = registered \ {s}
        /\ refusals' \in 0..MaxRefusals
        /\ panicked' = TRUE
        /\ UNCHANGED <<spawned, freed, runq, running, injected, idle, watching,
                       stalled, mon, tpc, word, tw, tj, tf, dpc, xpc, xf, spc, sf,
                       completed>>
    BY <1>a, Typed DEF BindPanics, monVars, threadVars, callVars
  <2> QED
    BY <2>1, <2>2
<1>1. TypeOK'
  BY <1>0, Typed, <1>a DEF IInv, TypeOK, Session, ThreadPCs, DispatchPCs, EndPCs
<1>2. ThreadsRight'
  BY <1>0, KeepThreads
<1>3. PoolAccounting'
  BY <1>0, KeepCount
<1>4. Exclusive'
  BY <1>0, <1>a, KeepExclusive
<1>5. RunsRight'
  BY <1>0, <1>a, KeepRuns DEF SameQueue, SameFlags
<1>6. QueuesRight' /\ Home' /\ Ends'
  BY <1>0, KeepSessions DEF SameQueue, SameFlags
<1>7. FutureOnce'
  BY <1>0, <1>a, KeepFuture DEF SameQueue, SameFlags, Unposted
<1>8. RefsRight'
  BY <1>0, <1>a DEF IInv, RefsRight, One
<1> QED
  BY <1>1, <1>2, <1>3, <1>4, <1>5, <1>6, <1>7, <1>8 DEF IInv

LEMMA MonitorTyped ==
  ASSUME IInv
  PROVE  MonitorTypes
BY DEF IInv, TypeOK, MonitorTypes

LEMMA Refusal ==
  ASSUME IInv, refusals < MaxRefusals
  PROVE  refusals + 1 \in 0..MaxRefusals
BY LimitAssumption, Typed

LEMMA Inv_bind_thread ==
  ASSUME IInv, ~panicked, NEW j \in Jobs, bind_thread(j)
  PROVE  IInv'
<1> DEFINE s == On[j]
<1>1. /\ s \in Sessions /\ dpc[j] = "bind" /\ w' = [w EXCEPT ![s].refs = @ + 1]
      /\ UNCHANGED <<spawned, freed, injected, tj, tf, xpc, xf, spc, sf, completed>>
      /\ dpc' = [dpc EXCEPT ![j] = IF panicked' THEN @ ELSE "release"]
  BY DispatchTypes DEF bind_thread
<1>2. panicked' = panicked => dpc' = [dpc EXCEPT ![j] = "release"]
  BY <1>1
<1>3. CASE /\ running >= pool_capacity
           /\ runq' = Append(runq, s)
           /\ monitor_watch
           /\ UNCHANGED <<registered, running, idle, word, tw, tpc, panicked>>
  <2>1. MonitorTypes'
    BY <1>1, <1>3, MonitorTyped, Refusal DEF MonitorTypes, monitor_watch, monVars
  <2>2. BindQueued(j)
    BY <1>1, <1>2, <1>3, <2>1 DEF BindQueued, threadVars
  <2> QED
    BY <1>1, <2>2, Inv_BindQueued
<1>4. CASE /\ running < pool_capacity
           /\ running' = running + 1
           /\ start_thread(s, tpc)
           /\ UNCHANGED <<registered, runq, monVars, panicked>>
  <2>1. PICK u \in Threads : Started(u, s, tpc)
    BY <1>1, <1>4, MovedSame, StartThread
  <2>2. BindStarted(j, u)
    BY <1>1, <1>2, <1>4, <2>1 DEF BindStarted
  <2> QED
    BY <1>1, <2>2, Inv_BindStarted
<1>5. CASE /\ running < pool_capacity /\ running > 0
           /\ start_fails
           /\ runq' = Append(runq, s)
           /\ UNCHANGED <<registered, running, tpc, monVars, panicked>>
  <2>1. MonitorTypes'
    BY <1>1, <1>5, MonitorTyped, Refusal DEF MonitorTypes, start_fails, MayFail, monVars
  <2>2. UNCHANGED <<idle, word, tw>>
    BY <1>5 DEF start_fails
  <2>3. BindQueued(j)
    BY <1>1, <1>2, <1>5, <2>1, <2>2 DEF BindQueued, threadVars
  <2> QED
    BY <1>1, <2>3, Inv_BindQueued
<1>6. CASE /\ running = 0
           /\ start_fails
           /\ panicked' = TRUE
           /\ registered' = registered \ {s}
           /\ UNCHANGED <<runq, running, tpc, monVars>>
  <2>1. dpc' = dpc
    BY <1>1, <1>6, DispatchTypes
  <2>2. refusals' \in 0..MaxRefusals /\ UNCHANGED <<idle, word, tw>>
    BY <1>6, Refusal DEF start_fails, MayFail
  <2>3. BindPanics(j)
    BY <1>1, <1>6, <2>1, <2>2 DEF BindPanics, threadVars, callVars
  <2> QED
    BY <1>1, <2>3, Inv_BindPanics
<1> QED
  BY <1>3, <1>4, <1>5, <1>6 DEF bind_thread

-----------------------------------------------------------------------------
(* Blocking threads and the monitor.                                       *)

LEMMA Inv_pool_blocking ==
  ASSUME IInv, ~panicked, NEW P, Moved(P), NEW t \in Threads, tpc[t] \in {"serve", "run"},
         P[t] \in {"cond", "blocked"}, \A x \in Threads : x # t => P[x] = tpc[x],
         pool_blocking(P), SameStructs, Elsewhere, UNCHANGED <<injected, watching, mon>>
  PROVE  IInv'
<1>1. running \in Nat /\ running # 0 /\ running - 1 \in Nat /\ CountedThread(t)
  BY CountType DEF CountedThread
<1>2. ASSUME runq # <<>>, start_thread(Head(runq), P), runq' = Tail(runq),
             running' = running - 1 + 1, stalled' = FALSE
      PROVE  IInv'
  <2>1. PICK u \in Threads : Started(u, Head(runq), P)
    BY <1>2, QueueHead, StartThread
  <2>2. running' = running
    BY <1>1, <1>2
  <2>3. MonitorTypes'
    BY <1>1, <1>2, <2>1, <2>2, MonitorTyped DEF MonitorTypes, Started
  <2>4. QueueStarts(u, P)
    BY <1>2, <2>1, <2>3 DEF QueueStarts
  <2>5. u # t /\ ~CountedThread(u) /\ CountedThread(u)'
    BY <2>1 DEF Started, CountedThread
  <2>6. ~CountedThread(t)'
    BY <2>1, <2>5 DEF Started, CountedThread
  <2>7. \A x \in Threads : x # t /\ x # u => (CountedThread(x)' <=> CountedThread(x))
    BY <2>1 DEF Started, CountedThread
  <2>8. PoolAccounting'
    BY <1>1, <2>2, <2>5, <2>6, <2>7, CountSwap
  <2> QED
    BY <1>2, <2>4, <2>8, QueueHead, Inv_QueueStarts
<1>3. ASSUME running' = running - 1, tpc' = P, refusals' \in 0..MaxRefusals,
             UNCHANGED <<runq, stalled, idle, word, tw>>
      PROVE  IInv'
  <2>1. MonitorTypes'
    BY <1>1, <1>3, MonitorTyped DEF MonitorTypes
  <2>2. QueueStays(P)
    BY <1>3, <2>1 DEF QueueStays
  <2>3. ~CountedThread(t)' /\ \A x \in Threads : x # t => (CountedThread(x)' <=> CountedThread(x))
    BY <1>3 DEF CountedThread
  <2>4. PoolAccounting'
    BY <1>1, <1>3, <2>3, CountLess
  <2> QED
    BY <2>2, <2>4, Inv_QueueStays
<1>4. CASE runq # <<>> /\ running - 1 < pool_capacity
  <2>1. start_queued(running - 1, P)
    BY <1>4 DEF pool_blocking
  <2>2. ASSUME start_fails, running' = running - 1, tpc' = P, UNCHANGED <<runq, stalled>>
        PROVE  IInv'
    <3>1. refusals' \in 0..MaxRefusals /\ UNCHANGED <<idle, word, tw>>
      BY <2>2, Refusal DEF start_fails, MayFail
    <3> QED
      BY <1>3, <2>2, <3>1
  <2> QED
    BY <1>2, <1>4, <2>1, <2>2 DEF start_queued
<1>5. CASE ~(runq # <<>> /\ running - 1 < pool_capacity)
  <2>1. /\ running' = running - 1 /\ tpc' = P
        /\ UNCHANGED <<runq, idle, refusals, word, tw, stalled>>
    BY <1>5 DEF pool_blocking
  <2>2. refusals' \in 0..MaxRefusals
    BY <2>1, Typed
  <2> QED
    BY <1>3, <2>1, <2>2
<1> QED
  BY <1>4, <1>5

(* A session that keeps a native callback parks with its thread. *)
LEMMA Inv_park_session ==
  ASSUME IInv, ~panicked, NEW t \in Threads, park_session(t)
  PROVE  IInv'
<1> DEFINE s == tw[t]
           P == [tpc EXCEPT ![t] = "cond"]
<1>1. /\ tpc[t] = "serve" /\ ~w[s].dead /\ w' = [w EXCEPT ![s].parked = TRUE]
      /\ pool_blocking(P) /\ Elsewhere /\ UNCHANGED <<injected, watching, mon>>
  BY DEF park_session, Elsewhere
<1>2. s \in Sessions /\ tf[t] = None
  BY <1>1, Serving DEF ServedPCs, IInv, RunsRight
<1>3. Moved(P) /\ P[t] = "cond" /\ \A x \in Threads : x # t => P[x] = tpc[x]
  BY <1>1, <1>2, ThreadTypes DEF Moved, ThreadPCs
<1>4. SameStructs
  <2>1. w' \in [Sessions -> Session]
    BY <1>1, <1>2, WType DEF Session
  <2>2. \A x \in Sessions : x # s => w'[x] = w[x]
    BY <1>1, WType
  <2>3. /\ w'[s].refs = w[s].refs /\ w'[s].queue = w[s].queue
        /\ w'[s].active = w[s].active /\ w'[s].busy = w[s].busy /\ w'[s].dead = w[s].dead
        /\ w'[s].bound = w[s].bound /\ w'[s].detached = w[s].detached
    BY <1>1, <1>2, WType DEF Session
  <2> QED
    BY <2>1, <2>2, <2>3 DEF SameStructs, SameQueue, SameFlags
<1> HIDE DEF P, s
<1> QED
  BY <1>1, <1>3, <1>4, Inv_pool_blocking

(* A job blocks in an instrumented wait. *)
LEMMA Inv_job_blocks ==
  ASSUME IInv, ~panicked, NEW t \in Threads, job_blocks(t)
  PROVE  IInv'
<1> DEFINE P == [tpc EXCEPT ![t] = "blocked"]
<1>1. /\ tpc[t] = "run" /\ w' = w
      /\ pool_blocking(P) /\ Elsewhere /\ UNCHANGED <<injected, watching, mon>>
  BY DEF job_blocks, Elsewhere, sessionVars
<1>2. Moved(P) /\ P[t] = "blocked" /\ \A x \in Threads : x # t => P[x] = tpc[x]
  BY <1>1, ThreadTypes DEF Moved, ThreadPCs
<1>3. SameStructs
  BY <1>1, WType DEF SameStructs, SameQueue, SameFlags
<1> HIDE DEF P
<1> QED
  BY <1>1, <1>2, <1>3, Inv_pool_blocking

(* The monitor admits one more thread, or does nothing. *)
LEMMA Inv_Monitor ==
  ASSUME IInv, ~panicked, Monitor
  PROVE  IInv'
<1>1. SameStructs /\ Elsewhere
  <2>1. w' = w /\ Elsewhere
    BY DEF Monitor, monitor_check, monitor_timeout, Elsewhere, sessionVars, threadVars
  <2> QED
    BY <2>1, WType DEF SameStructs, SameQueue, SameFlags
<1>2. ASSUME MonitorTypes', UNCHANGED <<runq, running, idle, tpc, word, tw>>
      PROVE  IInv'
  <2>1. QueueStays(tpc)
    BY <1>1, <1>2 DEF QueueStays
  <2>2. PoolAccounting'
    BY <1>2, KeepCount
  <2> QED
    BY <2>1, <2>2, MovedSame, Inv_QueueStays
<1>3. ASSUME monitor_check PROVE IInv'
  <2>1. /\ UNCHANGED <<runq, running, injected, idle, refusals, tpc, word, tw>>
        /\ watching' \in BOOLEAN /\ mon' \in {"timed", "sleep"}
        /\ stalled' = TRUE \/ stalled' = stalled
    BY <1>3 DEF monitor_check, poolVars, threadVars
  <2>2. MonitorTypes'
    BY <2>1, MonitorTyped DEF MonitorTypes
  <2> QED
    BY <1>2, <2>1, <2>2
<1>4. ASSUME monitor_timeout PROVE IInv'
  <2>1. mon' = "check" /\ watching' = watching
    BY <1>4 DEF monitor_timeout
  <2>2. ASSUME UNCHANGED <<injected, runq, running, idle, refusals, tpc, word, tw, stalled>>
        PROVE  IInv'
    <3>1. MonitorTypes'
      BY <2>1, <2>2, MonitorTyped DEF MonitorTypes
    <3> QED
      BY <1>2, <2>2, <3>1
  <2>3. ASSUME injected' = injected + 1, start_fails, running' = running, tpc' = tpc,
               UNCHANGED <<runq, stalled>>
        PROVE  IInv'
    <3>1. UNCHANGED <<idle, word, tw>> /\ refusals' \in 0..MaxRefusals
      BY <2>3, Refusal DEF start_fails, MayFail
    <3>2. MonitorTypes'
      BY <2>1, <2>3, <3>1, MonitorTyped DEF MonitorTypes
    <3> QED
      BY <1>2, <2>3, <3>1, <3>2
  <2>4. ASSUME runq # <<>>, injected' = injected + 1, start_thread(Head(runq), tpc),
               runq' = Tail(runq), running' = running + 1, stalled' = FALSE
        PROVE  IInv'
    <3>1. PICK u \in Threads : Started(u, Head(runq), tpc)
      BY <2>4, QueueHead, MovedSame, StartThread
    <3>2. refusals' = refusals
      BY <3>1 DEF Started
    <3>3. MonitorTypes'
      <4>1. running' \in Nat /\ injected' \in Nat
        BY <2>4, MonitorTyped DEF MonitorTypes
      <4> QED
        BY <2>1, <2>4, <3>2, <4>1, MonitorTyped DEF MonitorTypes
    <3>4. QueueStarts(u, tpc)
      BY <1>1, <2>4, <3>1, <3>3 DEF QueueStarts
    <3>5. /\ ~CountedThread(u) /\ CountedThread(u)'
          /\ \A x \in Threads : x # u => (CountedThread(x)' <=> CountedThread(x))
      BY <3>1 DEF Started, CountedThread
    <3>6. PoolAccounting'
      BY <2>4, <3>5, CountMore
    <3> QED
      BY <2>4, <3>4, <3>6, QueueHead, MovedSame, Inv_QueueStarts
  <2> QED
    BY <1>4, <2>2, <2>3, <2>4 DEF monitor_timeout, start_queued, MonitorNeeded
<1> QED
  BY <1>3, <1>4 DEF Monitor

-----------------------------------------------------------------------------
(* The inductive invariant.                                                *)

LEMMA InitIInv == Init => IInv
<1> SUFFICES ASSUME Init PROVE IInv
  OBVIOUS
<1>w. \A s \in Sessions : /\ w[s].refs = 0 /\ w[s].queue = <<>> /\ w[s].active = None
                          /\ ~w[s].busy /\ ~w[s].dead /\ ~w[s].bound /\ ~w[s].detached
  BY DEF Init, FreshSession
<1>1. TypeOK
  <2>1. FreshSession \in [refs : Nat, queue : Seq(Jobs), active : Jobs \cup {None},
                         busy : BOOLEAN, dead : BOOLEAN, bound : BOOLEAN, parked : BOOLEAN,
                         detached : BOOLEAN]
    BY DEF FreshSession
  <2>2. refusals \in 0..MaxRefusals
    BY LimitAssumption DEF Init
  <2>3. w \in [Sessions -> [refs : Nat, queue : Seq(Jobs), active : Jobs \cup {None},
                           busy : BOOLEAN, dead : BOOLEAN, bound : BOOLEAN, parked : BOOLEAN,
                           detached : BOOLEAN]]
    BY <2>1 DEF Init
  <2>4. runq \in Seq(Sessions) /\ idle \in Seq(Threads)
    BY DEF Init
  <2>5. watching \in BOOLEAN /\ stalled \in BOOLEAN /\ panicked \in BOOLEAN
    BY DEF Init
  <2>6. /\ tpc \in [Threads -> ThreadPCs] /\ dpc \in [Jobs -> DispatchPCs]
        /\ xpc \in [Sessions -> EndPCs]
        /\ spc \in [Sessions -> {"new", "stop", "complete", "release", "done"}]
        /\ word \in [Threads -> {"IDLE", "ASSIGNED", "PARKED"}]
    BY DEF Init, ThreadPCs, DispatchPCs, EndPCs
  <2>7. /\ tw \in [Threads -> Sessions \cup {None}] /\ tj \in [Threads -> Jobs \cup {None}]
        /\ tf \in [Threads -> Jobs \cup {None}]
        /\ xf \in [Sessions -> SUBSET Jobs] /\ sf \in [Sessions -> SUBSET Jobs]
        /\ completed \in [Jobs -> Nat]
    BY DEF Init
  <2>8. /\ registered \subseteq spawned /\ freed \subseteq spawned /\ spawned \subseteq Sessions
        /\ running \in Nat /\ injected \in Nat /\ mon \in {"none", "check", "timed", "sleep"}
    BY DEF Init
  <2> QED
    BY <2>2, <2>3, <2>4, <2>5, <2>6, <2>7, <2>8 DEF TypeOK, ThreadPCs, DispatchPCs, EndPCs
<1>2. ThreadsRight
  BY EmptyFacts DEF Init, ThreadsRight, ServedPCs
<1>3. PoolAccounting
  <2>1. {t \in Threads : CountedThread(t)} = {}
    BY DEF Init, CountedThread
  <2> QED
    BY <2>1, FS_EmptySet DEF Init, PoolAccounting
<1>4. Exclusive
  <2>1. \A s \in Sessions : ~Serves(s) /\ ~Binds(s) /\ ~Queued(s) /\ ~Unqueuing(s)
    BY EmptyFacts, Apart DEF Init, Serves, Binds, Queued, Unqueuing
  <2>2. \A s \in Sessions :
           One(Serves(s)) + One(Binds(s)) + One(Queued(s)) + One(Unqueuing(s)) = One(w[s].bound)
    BY <1>w, <2>1 DEF One
  <2> QED
    BY <2>2, EmptyFacts DEF Init, Exclusive
<1>5. RunsRight
  BY <1>w DEF Init, RunsRight
<1>6. QueuesRight
  BY <1>w, EmptyFacts DEF Init, QueuesRight
<1>7. Home
  BY <1>w, EmptyFacts, Apart DEF Init, Home
<1>8. FutureOnce
  <2>1. \A t, u \in Threads : tf[t] = tf[u] /\ tf[t] # None => t = u
    BY DEF Init
  <2>2. ASSUME NEW j \in Jobs
        PROVE  completed[j] + One(Unposted(j)) + One(Posted(j)) + One(Running(j))
                   + One(Holds(j)) + One(AtTerminate(j)) + One(AtShutdown(j)) = 1
    <3>1. On[j] \in Sessions /\ j # None
      BY TargetAssumption, Apart
    <3>2. ~Posted(j) /\ ~Running(j)
      BY <1>w, <3>1, EmptyFacts DEF Posted, Running
    <3>3. Unposted(j) /\ ~Holds(j) /\ ~AtTerminate(j) /\ ~AtShutdown(j) /\ completed[j] = 0
      BY <3>1 DEF Init, Unposted, Holds, AtTerminate, AtShutdown
    <3> QED
      BY <3>2, <3>3 DEF One
  <2> QED
    BY <2>1, <2>2 DEF FutureOnce
<1>9. RefsRight
  <2>1. ASSUME NEW s \in Sessions PROVE RefSum(s) = 0
    <3>1. Dispatching(s) = {}
      BY DEF Init, Dispatching
    <3>2. Calls(s) = 0
      BY <3>1, FS_EmptySet DEF Calls
    <3>3. /\ s \notin registered /\ ~Stopping(s) /\ ~Ending(s)
          /\ ~Serves(s) /\ ~Queued(s) /\ ~Unqueued(s)
      BY EmptyFacts, Apart DEF Init, Stopping, Ending, Serves, Queued, Unqueued
    <3> QED
      BY <3>2, <3>3 DEF RefSum, One
  <2> QED
    BY <1>w, <2>1 DEF RefsRight
<1>10. Ends
  BY <1>w DEF Init, Ends
<1> QED
  BY <1>1, <1>2, <1>3, <1>4, <1>5, <1>6, <1>7, <1>8, <1>9, <1>10 DEF IInv

LEMMA StutterIInv == IInv /\ UNCHANGED vars => IInv'
<1> SUFFICES ASSUME IInv, UNCHANGED vars PROVE IInv'
  OBVIOUS
<1>0. /\ w' = w /\ spawned' = spawned /\ registered' = registered /\ freed' = freed
      /\ runq' = runq /\ running' = running /\ injected' = injected /\ idle' = idle
      /\ refusals' = refusals /\ watching' = watching /\ stalled' = stalled /\ mon' = mon
      /\ tpc' = tpc /\ word' = word /\ tw' = tw /\ tj' = tj /\ tf' = tf
      /\ dpc' = dpc /\ xpc' = xpc /\ xf' = xf /\ spc' = spc /\ sf' = sf
      /\ completed' = completed /\ panicked' = panicked
  BY DEF vars, sessionVars, poolVars, monVars, threadVars, callVars
<1>1. TypeOK' /\ ThreadsRight' /\ PoolAccounting' /\ RunsRight'
  BY <1>0 DEF IInv, TypeOK, ThreadsRight, PoolAccounting, CountedThread, RunsRight
<1>2. Exclusive'
  BY <1>0, KeepExclusive
<1>3. QueuesRight' /\ Home' /\ Ends'
  BY <1>0, KeepSessions DEF SameQueue, SameFlags
<1>4. FutureOnce'
  BY <1>0, KeepFuture DEF Unposted
<1>5. RefsRight'
  <2>1. \A x \in Sessions : RefSum(x)' = RefSum(x)
    BY <1>0 DEF RefSum, Calls, Dispatching, Stopping, Ending, Serves, Queued, Unqueued
  <2> QED
    BY <1>0, <2>1 DEF IInv, RefsRight
<1> QED
  BY <1>1, <1>2, <1>3, <1>4, <1>5 DEF IInv

LEMMA DispatchIInv ==
  ASSUME IInv, ~panicked, NEW j \in Jobs, Dispatch(j)
  PROVE  IInv'
<1> DEFINE s == On[j]
<1>s. s \in Sessions
  BY DispatchTypes
<1>1. CASE dispatch_acquire(j)
  BY <1>s, <1>1, Inv_dispatch_acquire, Inv_dispatch_gone
<1>2. CASE enqueue(j)
  BY <1>s, <1>2, Inv_enqueue_refused, Inv_enqueue_accepted
<1>3. CASE bind_thread(j)
  BY <1>3, Inv_bind_thread
<1>4. CASE dispatch_refused(j)
  BY <1>4, Inv_dispatch_refused
<1>5. CASE dispatch_release(j)
  BY <1>s, <1>5, Inv_dispatch_release
<1> QED
  BY <1>1, <1>2, <1>3, <1>4, <1>5 DEF Dispatch

LEMMA ThreadIInv ==
  ASSUME IInv, ~panicked, NEW t \in Threads, Thread(t)
  PROVE  IInv'
<1> DEFINE s == tw[t]
<1>s. tpc[t] \in ServedPCs => s \in Sessions
  BY Serving
<1>1. CASE take_job(t)
  <2>1. s \in Sessions
    BY <1>s, <1>1 DEF take_job, ServedPCs
  <2>2. w[s].queue \in Seq(Jobs) /\ w[s].queue # <<>>
    BY <1>1, <2>1, WType DEF take_job, Session
  <2>3. Head(w[s].queue) \in Jobs
    BY <2>2
  <2> QED
    BY <1>1, <2>1, <2>3, Inv_take_job
<1>2. CASE park_session(t)
  BY <1>2, Inv_park_session
<1>3. CASE unpark_session(t)
  BY <1>s, <1>3, Inv_unpark_session DEF unpark_session, ServedPCs
<1>4. CASE leave_session(t)
  BY <1>s, <1>4, Inv_leave_session DEF leave_session, ServedPCs
<1>5. CASE unbind(t)
  BY <1>s, <1>5, Inv_unbind_served, Inv_unbind_left DEF unbind, ServedPCs
<1>6. CASE job_blocks(t)
  BY <1>6, Inv_job_blocks
<1>7. CASE job_unblocks(t)
  BY <1>s, <1>7, Inv_job_unblocks DEF job_unblocks, ServedPCs
<1>8. CASE job_ends(t)
  BY <1>s, <1>8, Inv_job_ends DEF job_ends, ServedPCs
<1>9. CASE reply(t)
  BY <1>s, <1>9, Inv_reply_kept, Inv_reply_sent DEF reply, ServedPCs
<1>10. CASE thread_next(t)
  BY <1>10, QueueHead, Inv_thread_next DEF thread_next, MayTake
<1>11. CASE thread_retires(t)
  BY <1>11, Inv_thread_retires_exit, Inv_thread_retires_park
<1>12. CASE deliver(t)
  BY <1>12, Inv_deliver
<1>13. CASE park_thread(t)
  BY <1>13, Inv_park_thread_idle, Inv_park_thread_assigned
<1> QED
  BY <1>1, <1>2, <1>3, <1>4, <1>5, <1>6, <1>7, <1>8, <1>9, <1>10, <1>11, <1>12, <1>13
     DEF Thread

LEMMA CallIInv ==
  ASSUME IInv, ~panicked, NEW s \in Sessions, workerSpawn(s) \/ Shutdown(s) \/ Terminate(s)
  PROVE  IInv'
<1>1. CASE workerSpawn(s)
  BY <1>1, Inv_workerSpawn
<1>2. CASE Shutdown(s)
  BY <1>2, Inv_shutdown_acquire, Inv_shutdown_stop, Inv_shutdown_completes, Inv_shutdown_release
     DEF Shutdown
<1>3. CASE Terminate(s)
  BY <1>3, Inv_terminate_take, Inv_terminate_stop, Inv_terminate_completes, Inv_unqueue_worker,
     Inv_terminate_unbind, Inv_terminate_unref, Inv_terminate_look, Inv_terminate_release
     DEF Terminate
<1> QED
  BY <1>1, <1>2, <1>3

(* Every action keeps the invariant, and so it holds in every behaviour. *)
THEOREM Inductive == Spec => []IInv
<1>1. Init => IInv
  BY InitIInv
<1>2. IInv /\ [Next]_vars => IInv'
  <2> SUFFICES ASSUME IInv, [Next]_vars PROVE IInv'
    OBVIOUS
  <2>1. CASE ~panicked /\ \E s \in Sessions : workerSpawn(s) \/ Shutdown(s) \/ Terminate(s)
    BY <2>1, CallIInv
  <2>2. CASE ~panicked /\ \E j \in Jobs : Dispatch(j)
    BY <2>2, DispatchIInv
  <2>3. CASE ~panicked /\ \E t \in Threads : Thread(t)
    BY <2>3, ThreadIInv
  <2>4. CASE ~panicked /\ Monitor
    BY <2>4, Inv_Monitor
  <2>5. CASE Quiet \/ UNCHANGED vars
    BY <2>5, StutterIInv DEF Quiet
  <2> QED
    BY <2>1, <2>2, <2>3, <2>4, <2>5 DEF Next
<1> QED
  BY <1>1, <1>2, PTL DEF Spec

-----------------------------------------------------------------------------
(* What the invariant says of the program.                                 *)

(* The type invariant of worker.c's state. *)
THEOREM TypeCorrect == Spec => []TypeOK
<1>1. IInv => TypeOK
  BY DEF IInv
<1> QED
  BY <1>1, Inductive, PTL

LEMMA ServersOne ==
  ASSUME IInv, NEW s \in Sessions
  PROVE  Cardinality(Servers(s)) = One(Serves(s))
<1>1. \A x, y \in Servers(s) : x = y
  BY Apart DEF Servers, IInv, Exclusive
<1>2. Servers(s) # {} <=> Serves(s)
  BY DEF Servers, Serves
<1>3. Cardinality(Servers(s)) = One(Servers(s) # {})
  BY <1>1, CardOne
<1> QED
  BY <1>2, <1>3 DEF One

LEMMA BindingOne ==
  ASSUME IInv, NEW s \in Sessions
  PROVE  Cardinality(Binding(s)) = One(Binds(s))
<1>1. \A x, y \in Binding(s) : x = y
  BY DEF Binding, IInv, Exclusive
<1>2. Binding(s) # {} <=> Binds(s)
  BY DEF Binding, Binds
<1>3. Cardinality(Binding(s)) = One(Binding(s) # {})
  BY <1>1, CardOne
<1> QED
  BY <1>2, <1>3 DEF One

(* bound (enqueue, run_worker, unqueue_worker) stands for exactly one      *)
(* thread, run queue entry, binding dispatch or unqueuing terminate.       *)
THEOREM BoundOnceHolds == Spec => []BoundOnce
<1>1. ASSUME IInv PROVE BoundOnce
  <2> SUFFICES ASSUME NEW s \in Sessions
               PROVE  Cardinality(Servers(s)) + Cardinality(Binding(s)) + One(s \in Elems(runq))
                          + One(xpc[s] = "unbind") = One(w[s].bound)
    BY DEF BoundOnce
  <2>1. One(Serves(s)) + One(Binds(s)) + One(Queued(s)) + One(Unqueuing(s)) = One(w[s].bound)
    BY <1>1 DEF IInv, Exclusive
  <2> QED
    BY <1>1, <2>1, ServersOne, BindingOne DEF Queued, Unqueuing
<1> QED
  BY <1>1, Inductive, PTL

(* Until the process ends, a session's reference count is exact and a      *)
(* freed session is out of everyone's reach (release_worker,               *)
(* destroy_worker).                                                        *)
THEOREM SessionRefsHold == Spec => [](~panicked => SessionRefs)
<1>1. ASSUME IInv, ~panicked PROVE SessionRefs
  <2>1. ASSUME NEW s \in Sessions
        PROVE  w[s].refs = One(s \in registered) + Cardinality(Dispatching(s))
                    + One(spc[s] \in {"stop", "complete", "release"})
                    + One(xpc[s] \notin {"new", "done"})
                    + Cardinality(Servers(s)) + One(s \in Elems(runq))
                    + One(xpc[s] \in {"unbind", "unref"})
    <3>1. w[s].refs = RefSum(s)
      BY <1>1 DEF IInv, RefsRight
    <3>2. Cardinality(Servers(s)) = One(Serves(s))
      BY <1>1, ServersOne
    <3> QED
      BY <3>1, <3>2 DEF RefSum, Calls, Stopping, Ending, Queued, Unqueued
  <2>2. ASSUME NEW s \in freed
        PROVE  /\ s \notin registered /\ s \notin Elems(runq)
               /\ Servers(s) = {} /\ Dispatching(s) = {}
               /\ xpc[s] \in {"new", "done"} /\ spc[s] \in {"new", "done"}
    <3>1. s \in Sessions /\ xpc[s] \in EndPCs
          /\ spc[s] \in {"new", "stop", "complete", "release", "done"}
      BY <1>1, Typed
    <3>2. /\ s \notin registered /\ ~Serves(s) /\ ~Queued(s) /\ ~Stopping(s) /\ ~Ending(s)
          /\ ~\E j \in Jobs : On[j] = s /\ dpc[j] \in InCall
      BY <1>1, <3>1, Referred
    <3> QED
      BY <3>1, <3>2 DEF Serves, Servers, Queued, Dispatching, InCall, Stopping, Ending
  <2> QED
    BY <2>1, <2>2 DEF SessionRefs, RefAccounting, NoUseAfterFree
<1> QED
  BY <1>1, Inductive, PTL

(* Each dispatched future is in one place until it is completed, once.     *)
THEOREM FutureConservedHolds == Spec => []FutureConserved
<1>1. ASSUME IInv PROVE FutureConserved
  <2> SUFFICES ASSUME NEW j \in Jobs
               PROVE  completed[j] + One(dpc[j] \in {"new", "enqueue", "refused"})
                          + One(j \in Elems(w[On[j]].queue)) + One(w[On[j]].active = j)
                          + Cardinality({t \in Threads : tf[t] = j})
                          + One(j \in xf[On[j]]) + One(j \in sf[On[j]]) = 1
    BY DEF FutureConserved
  <2> DEFINE H == {t \in Threads : tf[t] = j}
  <2>1. \A x, y \in H : x = y
    BY <1>1, Apart DEF IInv, FutureOnce
  <2>2. H # {} <=> Holds(j)
    BY DEF Holds
  <2>3. Cardinality(H) = One(H # {})
    BY <2>1, CardOne
  <2>4. Cardinality(H) = One(Holds(j))
    BY <2>2, <2>3 DEF One
  <2>5. completed[j] + One(Unposted(j)) + One(Posted(j)) + One(Running(j)) + One(Holds(j))
            + One(AtTerminate(j)) + One(AtShutdown(j)) = 1
    BY <1>1 DEF IInv, FutureOnce
  <2> HIDE DEF H
  <2>6. completed[j] + One(Unposted(j)) + One(Posted(j)) + One(Running(j)) + Cardinality(H)
            + One(AtTerminate(j)) + One(AtShutdown(j)) = 1
    BY <2>4, <2>5
  <2> QED
    BY <2>6 DEF Unposted, Posted, Running, AtTerminate, AtShutdown, H
<1> QED
  BY <1>1, Inductive, PTL

(* workerTerminate returns when no thread serves the session, unless it    *)
(* stopped the session in a job, and waits only while it is bound.         *)
THEOREM TerminatedIsUnservedHolds == Spec => []TerminatedIsUnserved
<1>1. ASSUME IInv PROVE TerminatedIsUnserved
  <2> SUFFICES ASSUME NEW s \in Sessions
               PROVE  /\ xpc[s] \in {"release", "done"} /\ ~w[s].detached => Servers(s) = {}
                      /\ xpc[s] = "wait" => w[s].bound
    BY DEF TerminatedIsUnserved
  <2>1. ~w[s].bound => Servers(s) = {}
    BY <1>1, ServedBy DEF Servers
  <2> QED
    BY <1>1, <2>1 DEF IInv, Ends
<1> QED
  BY <1>1, Inductive, PTL

(* pool_running counts exactly the threads that hold a pool slot.          *)
THEOREM PoolAccountingHolds == Spec => []PoolAccounting
<1>1. IInv => PoolAccounting
  BY DEF IInv
<1> QED
  BY <1>1, Inductive, PTL

(* WorkConserving, and a monitor that sleeps is not said to watch.         *)
WorkInv == WorkConserving /\ (mon = "sleep" => ~watching)

LEMMA WorkStep ==
  ASSUME MaxRefusals = 0, IInv, WorkInv, [Next]_vars
  PROVE  WorkInv'
<1>t. /\ running \in Nat /\ injected \in Nat /\ Limit \in Nat /\ refusals = 0
      /\ runq \in Seq(Sessions) /\ Distinct(runq)
  BY Typed, LimitAssumption DEF IInv, Exclusive
<1>r. ~start_fails /\ ~(refusals < MaxRefusals)
  BY <1>t DEF start_fails, MayFail
<1>1. ASSUME UNCHANGED <<runq, running, injected, monVars>> PROVE WorkInv'
  BY <1>1 DEF WorkInv, WorkConserving, pool_capacity, monVars
<1>2. CASE \E s \in Sessions : workerSpawn(s) \/ Shutdown(s)
  BY <1>1, <1>2 DEF workerSpawn, Shutdown, shutdown_acquire, shutdown_stop, shutdown_completes,
     shutdown_release, poolVars
<1>3. CASE \E s \in Sessions : Terminate(s)
  <2>1. PICK s \in Sessions : Terminate(s)
    BY <1>3
  <2>2. CASE unqueue_worker(s)
    <3>1. runq' = Without(runq, s) /\ UNCHANGED <<running, injected, watching, mon>>
      BY <2>2 DEF unqueue_worker, monVars
    <3>2. runq = <<>> => Without(runq, s) = <<>>
      BY EmptyFacts DEF Without
    <3> QED
      BY <3>1, <3>2 DEF WorkInv, WorkConserving, pool_capacity
  <2>3. CASE ~unqueue_worker(s)
    BY <1>1, <2>1, <2>3 DEF Terminate, terminate_take, terminate_stop, terminate_completes,
       terminate_unbind, terminate_unref, terminate_look, terminate_release, poolVars
  <2> QED
    BY <2>2, <2>3
<1>4. CASE \E j \in Jobs : Dispatch(j)
  <2>1. PICK j \in Jobs : Dispatch(j)
    BY <1>4
  <2>2. CASE bind_thread(j)
    <3>1. \/ /\ running >= pool_capacity /\ monitor_watch /\ UNCHANGED <<running, injected>>
          \/ /\ running < pool_capacity /\ UNCHANGED <<runq, injected, monVars>>
      BY <1>r, <2>2 DEF bind_thread
    <3>2. CASE running < pool_capacity /\ UNCHANGED <<runq, injected, monVars>>
      <4>1. runq = <<>>
        BY <1>t, <3>2 DEF WorkInv, WorkConserving, pool_capacity
      <4> QED
        BY <3>2, <4>1 DEF WorkInv, WorkConserving, monVars
    <3>3. CASE running >= pool_capacity /\ monitor_watch /\ UNCHANGED <<running, injected>>
      <4>1. /\ mon' = IF mon = "none" \/ (~watching /\ mon = "sleep") THEN "check" ELSE mon
            /\ watching' = TRUE
        BY <1>r, <3>3 DEF monitor_watch
      <4>2. mon' \in {"check", "timed"}
        BY <4>1, MonitorTyped DEF MonitorTypes, WorkInv
      <4> QED
        BY <3>3, <4>2 DEF WorkInv, WorkConserving, pool_capacity
    <3> QED
      BY <3>1, <3>2, <3>3
  <2>3. CASE ~bind_thread(j)
    BY <1>1, <2>1, <2>3 DEF Dispatch, dispatch_acquire, enqueue, dispatch_refused,
       dispatch_release, poolVars
  <2> QED
    BY <2>2, <2>3
<1>5. CASE \E t \in Threads : Thread(t)
  <2>1. PICK t \in Threads : Thread(t)
    BY <1>5
  <2>2. ASSUME NEW P, pool_blocking(P), UNCHANGED <<injected, watching, mon>> PROVE WorkInv'
    <3>1. CASE runq # <<>> /\ running - 1 < pool_capacity
      <4>1. running' = running - 1 + 1
        BY <1>r, <2>2, <3>1 DEF pool_blocking, start_queued
      <4>2. running' = running
        BY <1>t, <4>1
      <4> QED
        BY <2>2, <3>1, <4>2 DEF WorkInv, WorkConserving, pool_capacity
    <3>2. CASE ~(runq # <<>> /\ running - 1 < pool_capacity)
      <4>1. running' = running - 1 /\ runq' = runq
        BY <2>2, <3>2 DEF pool_blocking
      <4> QED
        BY <1>t, <2>2, <3>2, <4>1 DEF WorkInv, WorkConserving, pool_capacity
    <3> QED
      BY <3>1, <3>2
  <2>3. CASE park_session(t)
    BY <2>2, <2>3 DEF park_session
  <2>4. CASE job_blocks(t)
    BY <2>2, <2>4 DEF job_blocks
  <2>5. CASE unpark_session(t) \/ job_unblocks(t)
    <3>1. running' = running + 1 /\ UNCHANGED <<runq, injected, watching, mon>>
      BY <2>5 DEF unpark_session, job_unblocks, monVars
    <3> QED
      BY <1>t, <3>1 DEF WorkInv, WorkConserving, pool_capacity
  <2>6. CASE thread_next(t)
    <3>1. runq # <<>> /\ UNCHANGED <<running, injected, watching, mon>>
      BY <2>6 DEF thread_next, MayTake
    <3> QED
      BY <3>1 DEF WorkInv, WorkConserving, pool_capacity
  <2>7. CASE thread_retires(t)
    <3>1. /\ runq = <<>> \/ ~(running <= pool_capacity)
          /\ running' = running - 1 /\ injected' = (IF runq = <<>> THEN 0 ELSE injected)
          /\ UNCHANGED <<runq, watching, mon>>
      BY <2>7 DEF thread_retires, MayTake, monVars
    <3> QED
      BY <1>t, <3>1 DEF WorkInv, WorkConserving, pool_capacity
  <2>8. CASE take_job(t) \/ leave_session(t) \/ unbind(t) \/ job_ends(t)
    BY <1>1, <2>8 DEF take_job, leave_session, unbind, job_ends, poolVars
  <2>9. CASE reply(t) \/ deliver(t) \/ park_thread(t)
    BY <1>1, <2>9 DEF reply, deliver, park_thread, poolVars
  <2> QED
    BY <2>1, <2>3, <2>4, <2>5, <2>6, <2>7, <2>8, <2>9 DEF Thread
<1>6. CASE Monitor
  <2>1. CASE monitor_check
    <3>1. /\ UNCHANGED <<runq, running, injected>>
          /\ \/ MonitorNeeded /\ mon' = "timed"
             \/ ~MonitorNeeded /\ mon' = "sleep" /\ watching' = FALSE
      BY <2>1 DEF monitor_check, poolVars
    <3> QED
      BY <3>1 DEF WorkInv, WorkConserving, pool_capacity, MonitorNeeded
  <2>2. CASE monitor_timeout
    <3>1. /\ mon' = "check"
          /\ \/ UNCHANGED <<injected, runq, running>>
             \/ injected' = injected + 1 /\ running' = running + 1 /\ runq # <<>>
      BY <1>r, <2>2 DEF monitor_timeout, start_queued, MonitorNeeded
    <3> QED
      BY <1>t, <3>1 DEF WorkInv, WorkConserving, pool_capacity
  <2> QED
    BY <1>6, <2>1, <2>2 DEF Monitor
<1>7. CASE Quiet \/ UNCHANGED vars
  BY <1>1, <1>7 DEF Quiet, vars, poolVars
<1> QED
  BY <1>2, <1>3, <1>4, <1>5, <1>6, <1>7 DEF Next

(* While the system grants threads, a session waits in the run queue only  *)
(* when the pool is saturated and the monitor is awake (assign_thread,     *)
(* pool_blocking, worker_main, pool_monitor).                              *)
THEOREM WorkConservingHolds == MaxRefusals = 0 => (Spec => []WorkConserving)
<1> SUFFICES ASSUME MaxRefusals = 0 PROVE Spec => []WorkConserving
  OBVIOUS
<1>1. Init => WorkInv
  BY DEF Init, WorkInv, WorkConserving
<1>2. IInv /\ WorkInv /\ [Next]_vars => WorkInv'
  BY WorkStep
<1>3. WorkInv => WorkConserving
  BY DEF WorkInv
<1> QED
  BY <1>1, <1>2, <1>3, Inductive, PTL DEF Spec
-----------------------------------------------------------------------------
(* What is freed stays untouched.                                          *)

(* Who may touch the struct of a session: its creator, and whoever holds a *)
(* reference or found it in the id table.                                  *)
Reached(s) ==
    \/ s \notin spawned \/ s \in registered
    \/ Serves(s) \/ Stopping(s) \/ Ending(s)
    \/ \E j \in Jobs : On[j] = s /\ dpc[j] \in InCall

(* A freed struct is not written and not freed again, and no job is lost   *)
(* with a struct that is freed.                                            *)
FreesRight ==
    /\ \A s \in freed : w'[s] = w[s] /\ s \in freed'
    /\ \A s \in freed' \ freed : w[s].queue = <<>>

LEMMA ReachedIsAlive ==
  ASSUME IInv, ~panicked, NEW s \in Sessions, Reached(s)
  PROVE  s \notin freed
<1>1. CASE s \notin spawned
  BY <1>1, Typed
<1>2. CASE s \in spawned
  BY <1>2, Referred DEF Reached
<1> QED
  BY <1>1, <1>2

LEMMA TouchesReached ==
  ASSUME IInv, ~panicked, NEW s \in Sessions, Reached(s), freed' = freed,
         \A x \in Sessions : x # s => w'[x] = w[x]
  PROVE  FreesRight
BY ReachedIsAlive, Typed DEF FreesRight

LEMMA DropsReached ==
  ASSUME IInv, ~panicked, NEW s \in Sessions, Reached(s), NEW v, drop_ref(s, v, {}),
         v.refs = 1 => w[s].queue = <<>>
  PROVE  FreesRight
<1>1. \A x \in Sessions : x # s => w'[x] = w[x]
  BY WType DEF drop_ref
<1>2. freed' = freed \/ (v.refs = 1 /\ freed' = freed \cup {s})
  BY DEF drop_ref
<1> QED
  BY <1>1, <1>2, ReachedIsAlive, Typed DEF FreesRight

LEMMA DispatchFrees ==
  ASSUME IInv, ~panicked, NEW j \in Jobs, Dispatch(j)
  PROVE  FreesRight
<1> DEFINE s == On[j]
<1>0. s \in Sessions /\ (dpc[j] \in InCall => Reached(s))
  BY Typed DEF Reached
<1>1. CASE dispatch_acquire(j)
  <2>1. CASE s \in registered
    <3>1. freed' = freed /\ \A x \in Sessions : x # s => w'[x] = w[x]
      BY <1>1, <2>1, WType DEF dispatch_acquire
    <3> QED
      BY <1>0, <2>1, <3>1, TouchesReached DEF Reached
  <2>2. CASE s \notin registered
    BY <1>1, <2>2, Typed DEF dispatch_acquire, FreesRight
  <2> QED
    BY <2>1, <2>2
<1>2. CASE enqueue(j) \/ bind_thread(j)
  <2>1. freed' = freed /\ \A x \in Sessions : x # s => w'[x] = w[x]
    BY <1>0, <1>2, WType DEF enqueue, bind_thread
  <2>2. dpc[j] \in InCall
    BY <1>2 DEF enqueue, bind_thread, InCall
  <2> QED
    BY <1>0, <2>1, <2>2, TouchesReached
<1>3. CASE dispatch_refused(j)
  BY <1>3, Typed DEF dispatch_refused, sessionVars, FreesRight
<1>4. CASE dispatch_release(j)
  <2>1. dpc[j] = "release" /\ drop_ref(s, w[s], {})
    BY <1>4 DEF dispatch_release
  <2>2. w[s].refs = 1 => w[s].queue = <<>>
    BY <1>0, <2>1, QueueHeld
  <2>3. Reached(s)
    BY <1>0, <2>1 DEF InCall
  <2> QED
    BY <1>0, <2>1, <2>2, <2>3, DropsReached
<1> QED
  BY <1>1, <1>2, <1>3, <1>4 DEF Dispatch

LEMMA ThreadFrees ==
  ASSUME IInv, ~panicked, NEW t \in Threads, Thread(t)
  PROVE  FreesRight
<1> DEFINE s == tw[t]
<1>0. tpc[t] \in ServedPCs => s \in Sessions /\ Reached(s)
  BY Serving DEF Reached, Serves
<1>1. CASE take_job(t) \/ park_session(t) \/ unpark_session(t) \/ job_ends(t)
  <2>1. tpc[t] \in ServedPCs /\ freed' = freed
    BY <1>1 DEF take_job, park_session, unpark_session, job_ends, ServedPCs
  <2>2. \A x \in Sessions : x # s => w'[x] = w[x]
    BY <1>0, <1>1, <2>1, WType DEF take_job, park_session, unpark_session, job_ends
  <2> QED
    BY <1>0, <2>1, <2>2, TouchesReached
<1>2. CASE unbind(t)
  <2>1. CASE w[s].queue # <<>> /\ ~w[s].dead
    BY <1>2, <2>1, Typed DEF unbind, FreesRight
  <2>2. CASE ~(w[s].queue # <<>> /\ ~w[s].dead)
    <3>1. tpc[t] \in ServedPCs /\ drop_ref(s, [w[s] EXCEPT !.bound = FALSE], {})
      BY <1>2, <2>2 DEF unbind, ServedPCs
    <3>2. w[s].queue = <<>>
      BY <1>0, <2>2, <3>1 DEF IInv, QueuesRight
    <3> QED
      BY <1>0, <3>1, <3>2, DropsReached
  <2> QED
    BY <2>1, <2>2
<1>3. CASE UNCHANGED sessionVars
  BY <1>3, Typed DEF sessionVars, FreesRight
<1> QED
  BY <1>1, <1>2, <1>3
     DEF Thread, leave_session, job_blocks, job_unblocks, reply, thread_next, thread_retires,
         deliver, park_thread

LEMMA CallFrees ==
  ASSUME IInv, ~panicked, NEW s \in Sessions, workerSpawn(s) \/ Shutdown(s) \/ Terminate(s)
  PROVE  FreesRight
<1>1. CASE workerSpawn(s) \/ shutdown_acquire(s) \/ shutdown_stop(s) \/ terminate_stop(s)
           \/ terminate_unbind(s)
  <2>1. Reached(s) /\ freed' = freed
    BY <1>1 DEF workerSpawn, shutdown_acquire, shutdown_stop, terminate_stop, terminate_unbind,
                Reached, Stopping, Ending
  <2>2. \A x \in Sessions : x # s => w'[x] = w[x]
    BY <1>1, WType DEF workerSpawn, shutdown_acquire, shutdown_stop, terminate_stop,
                       terminate_unbind
  <2> QED
    BY <2>1, <2>2, TouchesReached
<1>2. CASE shutdown_release(s) \/ terminate_unref(s) \/ terminate_release(s)
  <2>1. drop_ref(s, w[s], {}) /\ (Stopping(s) \/ Ending(s))
    BY <1>2 DEF shutdown_release, terminate_unref, terminate_release, Stopping, Ending
  <2>2. w[s].refs = 1 => w[s].queue = <<>>
    BY <2>1, QueueHeld
  <2>3. Reached(s)
    BY <2>1 DEF Reached
  <2> QED
    BY <2>1, <2>2, <2>3, DropsReached
<1>3. CASE w' = w /\ freed' = freed
  BY <1>3, Typed DEF FreesRight
<1> QED
  BY <1>1, <1>2, <1>3
     DEF Shutdown, Terminate, shutdown_completes, terminate_take, terminate_completes,
         unqueue_worker, terminate_look, sessionVars

(* release_worker: the reference that is dropped last is nobody's who goes *)
(* on to use the session; the struct is destroyed once, with no job in its *)
(* queue, so that destroy_worker has no future left to cancel.             *)
THEOREM FreedOnce == Spec => [][FreesRight]_vars
<1>1. IInv /\ [Next]_vars => [FreesRight]_vars
  <2> SUFFICES ASSUME IInv, Next PROVE FreesRight \/ UNCHANGED vars
    OBVIOUS
  <2>1. CASE ~panicked /\ \E s \in Sessions : workerSpawn(s) \/ Shutdown(s) \/ Terminate(s)
    BY <2>1, CallFrees
  <2>2. CASE ~panicked /\ \E j \in Jobs : Dispatch(j)
    BY <2>2, DispatchFrees
  <2>3. CASE ~panicked /\ \E t \in Threads : Thread(t)
    BY <2>3, ThreadFrees
  <2>4. CASE ~panicked /\ Monitor
    BY <2>4 DEF Monitor, monitor_check, monitor_timeout, sessionVars, FreesRight
  <2>5. CASE Quiet
    BY <2>5 DEF Quiet
  <2> QED
    BY <2>1, <2>2, <2>3, <2>4, <2>5 DEF Next
<1> QED
  BY <1>1, Inductive, PTL DEF Spec
=============================================================================
