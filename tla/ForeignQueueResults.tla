------------------------ MODULE ForeignQueueResults ------------------------
(***************************************************************************)
(* Proofs about the results of host futures in ForeignQueue: they settle   *)
(* once, and whoever resumes finds what the settling promised, for any     *)
(* number of frames and of host threads that complete them.                *)
(***************************************************************************)
EXTENDS ForeignQueueProofs

(* A result exists when the frame is completed, or while the thread that   *)
(* wrote it has not published it.  That thread is the only one with the    *)
(* frame, so nobody else completes it under its hands.                     *)
Results ==
    /\ \A c \in Completers :
         /\ cpc[c] \in {"write", "publish"} => status[cf[c]] # 1
         /\ cpc[c] = "publish" => result[cf[c]]
    /\ \A f \in Frames : status[f] = 1 => result[f]
    /\ \A f \in Frames : result[f] =>
         status[f] = 1 \/ \E c \in Completers : cf[c] = f /\ cpc[c] = "publish"

(* A task is ready because it is new or because its future completed, and  *)
(* the waker that queued it has been used up.                              *)
Resumed(f) == task[f] = "waiting" /\ status[f] = 1 /\ ~waker[f]

ReadyTasks ==
    /\ \A i \in 1..Len(rq) : task[rq[i]] = "new" \/ Resumed(rq[i])
    /\ \A i, j \in 1..Len(rq) : rq[i] = rq[j] => i = j

CurrentTask ==
    /\ cur # NoFrame => \A i \in 1..Len(rq) : rq[i] # cur
    /\ cur # NoFrame /\ task[cur] = "waiting" => Resumed(cur)
    /\ \A f \in Frames : waker[f] => task[f] = "waiting"

RInv == Results /\ ReadyTasks /\ CurrentTask

-----------------------------------------------------------------------------
(* The ready queue after dream_enqueue and after the unlinking of a task.  *)
LEMMA EnqueueReady ==
  ASSUME TypeOK, ReadyTasks, NEW f \in Frames, NEW s, s = dream_enqueue(f)
  PROVE  /\ \A i \in 1..Len(s) : s[i] = f \/ \E j \in 1..Len(rq) : rq[j] = s[i]
         /\ \A i, j \in 1..Len(s) : s[i] = s[j] => i = j
<1>1. CASE s = rq
  BY <1>1 DEF ReadyTasks
<1>2. CASE s # rq
  <2>1. s = Append(rq, f) /\ ~\E i \in 1..Len(rq) : rq[i] = f
    BY <1>2 DEF dream_enqueue
  <2>2. /\ rq \in Seq(Frames) /\ Len(rq) \in Nat
        /\ Len(s) = Len(rq) + 1 /\ s[Len(rq) + 1] = f
        /\ \A i \in 1..Len(rq) : s[i] = rq[i]
    BY <2>1, AppendFacts, SeqFacts DEF TypeOK
  <2> QED
    BY <2>1, <2>2 DEF ReadyTasks
<1> QED
  BY <1>1, <1>2

LEMMA ConcatFacts ==
  ASSUME NEW a \in Seq(Frames), NEW b \in Seq(Frames)
  PROVE  /\ Len(a \o b) = Len(a) + Len(b)
         /\ \A i \in 1..Len(a \o b) :
              (a \o b)[i] = IF i <= Len(a) THEN a[i] ELSE b[i - Len(a)]
OBVIOUS

LEMMA UnlinkReady ==
  ASSUME TypeOK, ReadyTasks, NEW f \in Frames, NEW s, s = Unlink(f)
  PROVE  /\ \A i \in 1..Len(s) : s[i] # f /\ \E j \in 1..Len(rq) : rq[j] = s[i]
         /\ \A i, j \in 1..Len(s) : s[i] = s[j] => i = j
<1>0. rq \in Seq(Frames) /\ Len(rq) \in Nat
  BY SeqFacts DEF TypeOK
<1>1. CASE \E i \in 1..Len(rq) : rq[i] = f
  <2> DEFINE k == CHOOSE i \in 1..Len(rq) : rq[i] = f
             a == SubSeq(rq, 1, k - 1)
             b == SubSeq(rq, k + 1, Len(rq))
  <2>1. k \in 1..Len(rq) /\ rq[k] = f
    BY <1>1
  <2>2. s = a \o b
    BY <1>1 DEF Unlink
  <2> HIDE DEF k
  <2>3. /\ a \in Seq(Frames) /\ b \in Seq(Frames)
        /\ Len(a) = k - 1 /\ Len(b) = Len(rq) - k
        /\ \A i \in 1..(k - 1) : a[i] = rq[i]
        /\ \A i \in 1..(Len(rq) - k) : b[i] = rq[k + i]
    BY <1>0, <2>1
  <2> HIDE DEF a, b
  <2>4. /\ Len(s) = Len(rq) - 1
        /\ \A i \in 1..(k - 1) : s[i] = rq[i]
        /\ \A i \in k..(Len(rq) - 1) : s[i] = rq[i + 1]
    <3>1. Len(s) = Len(a) + Len(b)
      BY <2>2, <2>3, ConcatFacts
    <3>2. \A i \in 1..Len(s) : s[i] = IF i <= Len(a) THEN a[i] ELSE b[i - Len(a)]
      BY <2>2, <2>3, ConcatFacts
    <3>3. ASSUME NEW i \in k..(Len(rq) - 1) PROVE s[i] = rq[i + 1]
      <4>1. i \in 1..Len(s) /\ ~(i <= Len(a)) /\ i - Len(a) \in 1..(Len(rq) - k)
        BY <1>0, <2>1, <2>3, <3>1
      <4>2. s[i] = b[i - Len(a)] /\ k + (i - Len(a)) = i + 1
        BY <1>0, <2>1, <2>3, <3>2, <4>1
      <4> QED
        BY <2>3, <4>1, <4>2
    <3>4. ASSUME NEW i \in 1..(k - 1) PROVE s[i] = rq[i]
      <4>1. i \in 1..Len(s) /\ i <= Len(a)
        BY <1>0, <2>1, <2>3, <3>1
      <4> QED
        BY <2>3, <3>2, <4>1
    <3> QED
      BY <1>0, <2>1, <2>3, <3>1, <3>3, <3>4
  <2> QED
    BY <1>0, <2>1, <2>4 DEF ReadyTasks
<1>2. CASE ~\E i \in 1..Len(rq) : rq[i] = f
  BY <1>2 DEF Unlink, ReadyTasks
<1> QED
  BY <1>1, <1>2

(* A completion queues the task of its frame, if that waits. *)
LEMMA WakeReady ==
  ASSUME IInv, ReadyTasks, CurrentTask, NEW f \in Frames, WakeAndDrop(f),
         UNCHANGED <<task, cur>>,
         waker[f] => status'[f] = 1,
         \A g \in Frames : status[g] = 1 => status'[g] = 1
  PROVE  ReadyTasks' /\ CurrentTask'
<1>1. /\ waker' = [waker EXCEPT ![f] = FALSE] /\ waker \in [Frames -> BOOLEAN]
      /\ rq \in Seq(Frames) /\ \A i \in 1..Len(rq) : rq[i] \in Frames
      /\ cur \in Frames \cup {NoFrame}
  BY SeqFacts DEF WakeAndDrop, IInv, TypeOK
<1>2. \A g \in Frames : Resumed(g) => Resumed(g)'
  BY <1>1 DEF Resumed
<1>3. CASE ~waker[f]
  <2>1. rq' = rq
    BY <1>3 DEF WakeAndDrop
  <2> QED
    BY <1>1, <1>2, <2>1 DEF ReadyTasks, CurrentTask
<1>4. CASE waker[f]
  <2>1. rq' = dream_enqueue(f)
    BY <1>4 DEF WakeAndDrop
  <2>2. task[f] = "waiting" /\ cur # f /\ Resumed(f)'
    BY <1>1, <1>4, NoFrameFresh DEF CurrentTask, Resumed
  <2>3. /\ \A i \in 1..Len(rq') : rq'[i] = f \/ \E j \in 1..Len(rq) : rq[j] = rq'[i]
        /\ \A i, j \in 1..Len(rq') : rq'[i] = rq'[j] => i = j
    BY <2>1, EnqueueReady DEF IInv
  <2>4. ReadyTasks'
    BY <1>1, <1>2, <2>2, <2>3 DEF ReadyTasks
  <2>5. CurrentTask'
    BY <1>1, <1>2, <2>2, <2>3 DEF CurrentTask
  <2> QED
    BY <2>4, <2>5
<1> QED
  BY <1>3, <1>4

(* Steps that touch none of the variables involved. *)
LEMMA FrameR ==
  ASSUME IInv, RInv,
         UNCHANGED <<status, result, waker, rq, cur, task, cpc, cf>>
  PROVE  RInv'
BY DEF RInv, Results, ReadyTasks, CurrentTask, Resumed

-----------------------------------------------------------------------------
(* The task being polled creates its future: it is on no queue. *)
LEMMA R_begin ==
  ASSUME IInv, RInv, NEW f \in Frames,
         pc = "poll" /\ cur = f /\ task[f] = "new",
         task' = [task EXCEPT ![f] = "holding"],
         UNCHANGED <<status, result, waker, rq, cur, cpc, cf>>
  PROVE  RInv'
<1>1. task \in [Frames -> {"new", "holding", "waiting", "ended", "cancelled"}]
      /\ \A i \in 1..Len(rq) : rq[i] \in Frames
  BY SeqFacts DEF IInv, TypeOK
<1>2. Results'
  BY DEF RInv, Results
<1>3. ReadyTasks'
  BY <1>1, NoFrameFresh DEF RInv, ReadyTasks, CurrentTask, Resumed
<1>4. CurrentTask'
  BY <1>1 DEF RInv, CurrentTask, Resumed
<1> QED
  BY <1>2, <1>3, <1>4 DEF RInv

LEMMA R_dream_await ==
  ASSUME IInv, RInv, NEW f \in Frames, dream_await(f)
  PROVE  RInv'
<1>1. /\ task \in [Frames -> {"new", "holding", "waiting", "ended", "cancelled"}]
      /\ waker \in [Frames -> BOOLEAN] /\ status \in [Frames -> 0..2]
      /\ \A i \in 1..Len(rq) : rq[i] \in Frames
  BY SeqFacts DEF IInv, TypeOK
<1>2. /\ cur = f /\ cur # NoFrame /\ task[f] = "holding" /\ cur' = NoFrame
      /\ task' = [task EXCEPT ![f] = "waiting"]
      /\ UNCHANGED <<status, result, cpc, cf>>
  BY NoFrameFresh DEF dream_await, hostVars
<1>3. ~waker[f] /\ \A i \in 1..Len(rq) : rq[i] # f
  BY <1>1, <1>2 DEF RInv, CurrentTask
<1>4. Results'
  BY <1>2 DEF RInv, Results
<1>5. CASE status[f] = 1
  <2>1. rq' = dream_enqueue(f) /\ waker' = waker
    BY <1>5 DEF dream_await
  <2>2. /\ \A i \in 1..Len(rq') : rq'[i] = f \/ \E j \in 1..Len(rq) : rq[j] = rq'[i]
        /\ \A i, j \in 1..Len(rq') : rq'[i] = rq'[j] => i = j
    BY <2>1, EnqueueReady DEF IInv, RInv
  <2>3. ReadyTasks'
    BY <1>1, <1>2, <1>3, <1>5, <2>1, <2>2 DEF RInv, ReadyTasks, Resumed
  <2>4. CurrentTask'
    BY <1>1, <1>2, <2>1 DEF RInv, CurrentTask
  <2> QED
    BY <1>4, <2>3, <2>4 DEF RInv
<1>6. CASE status[f] # 1
  <2>1. rq' = rq /\ waker' = [waker EXCEPT ![f] = TRUE]
    BY <1>6 DEF dream_await
  <2>2. ReadyTasks'
    BY <1>1, <1>2, <1>3, <2>1 DEF RInv, ReadyTasks, Resumed
  <2>3. CurrentTask'
    BY <1>1, <1>2, <2>1 DEF RInv, CurrentTask
  <2> QED
    BY <1>4, <2>2, <2>3 DEF RInv
<1> QED
  BY <1>5, <1>6

LEMMA R_ReleaseSlot ==
  ASSUME IInv, RInv, NEW f \in Frames, ReleaseSlot(f)
  PROVE  RInv'
<1>1. /\ task \in [Frames -> {"new", "holding", "waiting", "ended", "cancelled"}]
      /\ waker \in [Frames -> BOOLEAN]
      /\ \A i \in 1..Len(rq) : rq[i] \in Frames
  BY SeqFacts DEF IInv, TypeOK
<1>2. /\ cur = f /\ cur # NoFrame /\ task[f] \in {"holding", "waiting"}
      /\ cur' = NoFrame /\ task' = [task EXCEPT ![f] = "ended"]
      /\ UNCHANGED <<status, result, waker, rq, cpc, cf>>
  BY NoFrameFresh DEF ReleaseSlot, hostVars
<1>3. ~waker[f] /\ \A i \in 1..Len(rq) : rq[i] # f
  BY <1>1, <1>2 DEF RInv, CurrentTask, Resumed
<1>4. Results'
  BY <1>2 DEF RInv, Results
<1>5. ReadyTasks'
  BY <1>1, <1>2, <1>3 DEF RInv, ReadyTasks, Resumed
<1>6. CurrentTask'
  BY <1>1, <1>2, <1>3 DEF RInv, CurrentTask
<1> QED
  BY <1>4, <1>5, <1>6 DEF RInv

(* dream_async_complete of a frame no host thread has. *)
LEMMA R_dream_async_complete ==
  ASSUME IInv, RInv, NEW f \in Frames, dream_async_complete(f),
         scheduler[f] # "claimed", UNCHANGED <<task, cur, cpc, cf>>
  PROVE  RInv'
<1>1. CASE status[f] # 0
  <2>1. UNCHANGED <<status, result, waker, rq>>
    BY <1>1 DEF dream_async_complete
  <2> QED
    BY <2>1, FrameR
<1>2. CASE status[f] = 0
  <2>1. /\ result' = [result EXCEPT ![f] = TRUE]
        /\ status' = [status EXCEPT ![f] = 1] /\ WakeAndDrop(f)
    BY <1>2 DEF dream_async_complete
  <2>2. status \in [Frames -> 0..2] /\ result \in [Frames -> BOOLEAN]
        /\ cf \in [Completers -> Frames \cup {NoFrame}]
    BY DEF IInv, TypeOK
  <2>3. \A c \in Completers : cf[c] # f
    BY NoFrameFresh DEF IInv, ClaimHolders
  <2>4. \A c \in Completers : cpc[c] # "idle" => cf[c] \in Frames
    BY <2>2 DEF IInv, ClaimHolders
  <2>5. Results'
    BY <2>1, <2>2, <2>3, <2>4 DEF RInv, Results
  <2>6. ReadyTasks' /\ CurrentTask'
    BY <2>1, <2>2, WakeReady DEF RInv
  <2> QED
    BY <2>5, <2>6 DEF RInv
<1> QED
  BY <1>1, <1>2

LEMMA R_dream_event_complete ==
  ASSUME IInv, RInv, NEW f \in Frames, dream_event_complete(f)
  PROVE  RInv'
<1>1. UNCHANGED <<task, cur, cpc, cf>>
  BY DEF dream_event_complete, hostVars
<1>2. CASE scheduler[f] = "owner" /\ status[f] # 2
  BY <1>1, <1>2, R_dream_async_complete DEF dream_event_complete
<1>3. CASE ~(scheduler[f] = "owner" /\ status[f] # 2)
  <2>1. UNCHANGED <<status, result, waker, rq>>
    BY <1>3 DEF dream_event_complete, frameVars
  <2> QED
    BY <1>1, <2>1, FrameR
<1> QED
  BY <1>2, <1>3

LEMMA R_fire_timer ==
  ASSUME IInv, RInv, NEW f \in Frames, fire_timer(f)
  PROVE  RInv'
<1>1. scheduler[f] # "claimed"
  BY DEF fire_timer, IInv, Retains
<1> QED
  BY <1>1, R_dream_async_complete DEF fire_timer, progVars, hostVars

(* A node names a frame that is settled, and not cancelled if it has a waker. *)
LEMMA R_foreign_drain_node ==
  ASSUME IInv, RInv, foreign_drain_node
  PROVE  RInv'
<1>1. Head(batch) \in Frames /\ Head(batch) = batch[1] /\ Len(batch) >= 1 /\ Len(batch) \in Nat
  BY TailFacts, SeqFacts DEF IInv, TypeOK, foreign_drain_node
<1>2. /\ WakeAndDrop(Head(batch)) /\ cancelling = NoFrame
      /\ UNCHANGED <<status, result, task, cur, cpc, cf>>
  BY DEF foreign_drain_node, progVars, hostVars, IInv, OwnerPlace
<1>3. waker[Head(batch)] => status[Head(batch)] = 1
  <2>1. status[Head(batch)] \in 0..2 /\ status[Head(batch)] # 0
    <3>1. 1 \in 1..Len(batch) /\ status \in [Frames -> 0..2]
      BY <1>1 DEF IInv, TypeOK
    <3>2. status[batch[1]] # 0
      BY <3>1 DEF IInv, QueueNodes
    <3> QED
      BY <1>1, <3>1, <3>2
  <2>2. waker[Head(batch)] => status[Head(batch)] # 2
    BY <1>1, <1>2, NoFrameFresh DEF IInv, Retains
  <2> QED
    BY <2>1, <2>2
<1>4. Results'
  BY <1>2 DEF RInv, Results
<1>5. ReadyTasks' /\ CurrentTask'
  BY <1>1, <1>2, <1>3, WakeReady DEF RInv
<1> QED
  BY <1>4, <1>5 DEF RInv

(* A cancellation takes a frame whose status was 0. *)
LEMMA CancelResults ==
  ASSUME IInv, Results, NEW f \in Frames, status[f] = 0,
         status' = [status EXCEPT ![f] = 2], UNCHANGED <<result, cpc, cf>>
  PROVE  Results'
<1>1. status \in [Frames -> 0..2] /\ cf \in [Completers -> Frames \cup {NoFrame}]
  BY DEF IInv, TypeOK
<1>2. \A c \in Completers : cpc[c] # "idle" => cf[c] \in Frames
  BY <1>1 DEF IInv, ClaimHolders
<1> QED
  BY <1>1, <1>2 DEF Results

LEMMA R_dream_cancel ==
  ASSUME IInv, RInv, NEW f \in Frames, dream_cancel(f)
  PROVE  RInv'
<1>1. /\ status[f] = 0 /\ status' = [status EXCEPT ![f] = 2]
      /\ UNCHANGED <<result, waker, rq, cur, task, cpc, cf>>
  BY DEF dream_cancel, progVars, hostVars
<1>2. Results'
  BY <1>1, CancelResults DEF RInv
<1>3. /\ status \in [Frames -> 0..2] /\ \A i \in 1..Len(rq) : rq[i] \in Frames
      /\ cur \in Frames \cup {NoFrame}
  BY SeqFacts DEF IInv, TypeOK
<1>4. ReadyTasks' /\ CurrentTask'
  BY <1>1, <1>3 DEF RInv, ReadyTasks, CurrentTask, Resumed
<1> QED
  BY <1>2, <1>4 DEF RInv

LEMMA R_dream_cancel_rest ==
  ASSUME IInv, RInv, dream_cancel_rest
  PROVE  RInv'
<1>1. cancelling \in Frames
  BY DEF IInv, TypeOK, OwnerPlace, dream_cancel_rest
<1>2. /\ waker' = [waker EXCEPT ![cancelling] = FALSE]
      /\ UNCHANGED <<status, result, rq, cur, task, cpc, cf>>
  BY DEF dream_cancel_rest, progVars, hostVars
<1>3. /\ waker \in [Frames -> BOOLEAN] /\ \A i \in 1..Len(rq) : rq[i] \in Frames
      /\ cur \in Frames \cup {NoFrame}
  BY SeqFacts DEF IInv, TypeOK
<1>4. Results'
  BY <1>2 DEF RInv, Results
<1>5. ReadyTasks' /\ CurrentTask'
  BY <1>1, <1>2, <1>3 DEF RInv, ReadyTasks, CurrentTask, Resumed
<1> QED
  BY <1>4, <1>5 DEF RInv

(* The cancelled task leaves the ready queue. *)
LEMMA R_dream_cancel_task ==
  ASSUME IInv, RInv, NEW f \in Frames, NEW dies \in BOOLEAN, dream_cancel_task(f, dies)
  PROVE  RInv'
<1>1. /\ cur # f /\ rq' = Unlink(f)
      /\ waker' = [waker EXCEPT ![f] = FALSE]
      /\ task' = [task EXCEPT ![f] = "cancelled"]
      /\ UNCHANGED <<result, cur, cpc, cf>>
  BY DEF dream_cancel_task, hostVars
<1>2. /\ status \in [Frames -> 0..2] /\ waker \in [Frames -> BOOLEAN]
      /\ task \in [Frames -> {"new", "holding", "waiting", "ended", "cancelled"}]
      /\ \A i \in 1..Len(rq) : rq[i] \in Frames
      /\ cur \in Frames \cup {NoFrame}
  BY SeqFacts DEF IInv, TypeOK
<1>3. status' = status \/ (status[f] = 0 /\ status' = [status EXCEPT ![f] = 2])
  BY DEF dream_cancel_task, awaited_child_unshared
<1>4. Results'
  <2>1. CASE status' = status
    BY <1>1, <2>1 DEF RInv, Results
  <2>2. CASE status[f] = 0 /\ status' = [status EXCEPT ![f] = 2]
    BY <1>1, <2>2, CancelResults DEF RInv
  <2> QED
    BY <1>3, <2>1, <2>2
<1>5. \A g \in Frames \ {f} : status'[g] = status[g] /\ task'[g] = task[g] /\ waker'[g] = waker[g]
  BY <1>1, <1>2, <1>3
<1>6. /\ \A i \in 1..Len(rq') : rq'[i] # f /\ \E j \in 1..Len(rq) : rq[j] = rq'[i]
      /\ \A i, j \in 1..Len(rq') : rq'[i] = rq'[j] => i = j
  BY <1>1, UnlinkReady DEF IInv, RInv
<1>7. ReadyTasks'
  BY <1>2, <1>5, <1>6 DEF RInv, ReadyTasks, Resumed
<1>8. CurrentTask'
  BY <1>1, <1>2, <1>5, <1>6 DEF RInv, CurrentTask, Resumed
<1> QED
  BY <1>4, <1>7, <1>8 DEF RInv

(* run_ready pops a task that is nowhere else on the queue. *)
LEMMA R_run_ready ==
  ASSUME IInv, RInv, run_ready
  PROVE  RInv'
<1>1. UNCHANGED <<status, result, waker, task, cpc, cf>>
  BY DEF run_ready, frameVars, progVars, hostVars
<1>2. Results'
  BY <1>1 DEF RInv, Results
<1>3. CASE rq = <<>>
  BY <1>1, <1>3, FrameR DEF run_ready
<1>4. CASE rq # <<>>
  <2>1. /\ rq' = Tail(rq) /\ cur = NoFrame
        /\ cur' \in {NoFrame, Head(rq)}
    BY <1>4 DEF run_ready, IInv, OwnerPlace
  <2>2. /\ Head(rq) = rq[1] /\ Len(rq) \in Nat /\ Len(rq) >= 1 /\ Len(rq') = Len(rq) - 1
        /\ \A i \in 1..Len(rq') : rq'[i] = rq[i + 1]
    BY <1>4, <2>1, TailFacts, SeqFacts DEF IInv, TypeOK
  <2>3. \A i \in 1..Len(rq') : i + 1 \in 1..Len(rq) /\ i + 1 # 1
    BY <2>2
  <2>4. ReadyTasks'
    BY <1>1, <2>2, <2>3 DEF RInv, ReadyTasks, Resumed
  <2>5. (\A i \in 1..Len(rq') : rq'[i] # Head(rq)) /\ (task[Head(rq)] = "waiting" => Resumed(Head(rq)))
    BY <2>2, <2>3 DEF RInv, ReadyTasks
  <2>6. CurrentTask'
    BY <1>1, <2>1, <2>5 DEF RInv, CurrentTask, Resumed
  <2> QED
    BY <1>2, <2>4, <2>6 DEF RInv
<1> QED
  BY <1>3, <1>4

-----------------------------------------------------------------------------
(* complete_foreign. *)
LEMMA HostTypes ==
  ASSUME IInv
  PROVE  /\ cpc \in [Completers -> {"idle", "claimed", "write", "publish", "queue"}]
         /\ cf \in [Completers -> Frames \cup {NoFrame}]
         /\ status \in [Frames -> 0..2] /\ result \in [Frames -> BOOLEAN]
         /\ \A c \in Completers : cpc[c] # "idle" => cf[c] \in Frames
         /\ \A c \in Completers : cpc[c] = "idle" => cf[c] = NoFrame
         /\ \A c, d \in Completers : cf[c] = cf[d] /\ cf[c] # NoFrame => c = d
BY DEF IInv, TypeOK, ClaimHolders

LEMMA R_complete_foreign_claim ==
  ASSUME IInv, RInv, NEW c \in Completers, NEW f \in Frames, complete_foreign_claim(c, f)
  PROVE  RInv'
<1>1. UNCHANGED <<status, result, waker, rq, cur, task>>
  BY DEF complete_foreign_claim, ownerVars
<1>2. ReadyTasks' /\ CurrentTask'
  BY <1>1 DEF RInv, ReadyTasks, CurrentTask, Resumed
<1>3. Results'
  BY <1>1, HostTypes, NoFrameFresh DEF RInv, Results, complete_foreign_claim
<1> QED
  BY <1>2, <1>3 DEF RInv

LEMMA R_complete_foreign_check ==
  ASSUME IInv, RInv, NEW c \in Completers, complete_foreign_check(c)
  PROVE  RInv'
<1>1. UNCHANGED <<status, result, waker, rq, cur, task, cf>>
  BY DEF complete_foreign_check, frameVars, ownerVars, progVars
<1>2. ReadyTasks' /\ CurrentTask'
  BY <1>1 DEF RInv, ReadyTasks, CurrentTask, Resumed
<1>3. Results'
  BY <1>1, HostTypes, NoFrameFresh DEF RInv, Results, complete_foreign_check
<1> QED
  BY <1>2, <1>3 DEF RInv

LEMMA R_complete_foreign_write ==
  ASSUME IInv, RInv, NEW c \in Completers, complete_foreign_write(c)
  PROVE  RInv'
<1>1. /\ cpc[c] = "write" /\ result' = [result EXCEPT ![cf[c]] = TRUE]
      /\ cpc' = [cpc EXCEPT ![c] = "publish"]
      /\ UNCHANGED <<status, waker, rq, cur, task, cf>>
  BY DEF complete_foreign_write, ownerVars, progVars
<1>2. ReadyTasks' /\ CurrentTask'
  BY <1>1 DEF RInv, ReadyTasks, CurrentTask, Resumed
<1>3. cf[c] \in Frames
  BY <1>1, HostTypes
<1>4. Results'
  BY <1>1, <1>3, HostTypes DEF RInv, Results
<1> QED
  BY <1>2, <1>4 DEF RInv

LEMMA R_complete_foreign_publish ==
  ASSUME IInv, RInv, NEW c \in Completers, complete_foreign_publish(c)
  PROVE  RInv'
<1>1. /\ cpc[c] = "publish" /\ cpc' = [cpc EXCEPT ![c] = "queue"]
      /\ UNCHANGED <<waker, rq, cur, task, cf>>
  BY DEF complete_foreign_publish, ownerVars, progVars
<1>2. cf[c] \in Frames /\ \A d \in Completers : d # c => cf[d] # cf[c]
  BY <1>1, HostTypes, NoFrameFresh
<1>3. CASE status[cf[c]] = 0
  <2>1. status' = [status EXCEPT ![cf[c]] = 1] /\ result' = result
    BY <1>3 DEF complete_foreign_publish
  <2>2. Results'
    BY <1>1, <1>2, <2>1, HostTypes DEF RInv, Results
  <2>3. \A g \in Frames : status[g] = 1 => status'[g] = 1
    BY <2>1, HostTypes
  <2>4. ReadyTasks' /\ CurrentTask'
    <3>1. cur \in Frames \cup {NoFrame} /\ \A i \in 1..Len(rq) : rq[i] \in Frames
      BY SeqFacts DEF IInv, TypeOK
    <3> QED
      BY <1>1, <2>3, <3>1 DEF RInv, ReadyTasks, CurrentTask, Resumed
  <2> QED
    BY <2>2, <2>4 DEF RInv
<1>4. CASE status[cf[c]] # 0
  <2>1. result' = [result EXCEPT ![cf[c]] = FALSE] /\ status' = status
    BY <1>4 DEF complete_foreign_publish
  <2>2. Results'
    BY <1>1, <1>2, <2>1, HostTypes DEF RInv, Results
  <2>3. ReadyTasks' /\ CurrentTask'
    BY <1>1, <2>1 DEF RInv, ReadyTasks, CurrentTask, Resumed
  <2> QED
    BY <2>2, <2>3 DEF RInv
<1> QED
  BY <1>3, <1>4

LEMMA R_complete_foreign_queue ==
  ASSUME IInv, RInv, NEW c \in Completers, complete_foreign_queue(c)
  PROVE  RInv'
<1>1. /\ cpc[c] = "queue" /\ cpc' = [cpc EXCEPT ![c] = "idle"]
      /\ cf' = [cf EXCEPT ![c] = NoFrame]
      /\ UNCHANGED <<status, result, waker, rq, cur, task>>
  BY DEF complete_foreign_queue, frameVars, ownerVars, progVars
<1>2. ReadyTasks' /\ CurrentTask'
  BY <1>1 DEF RInv, ReadyTasks, CurrentTask, Resumed
<1>3. Results'
  BY <1>1, HostTypes DEF RInv, Results
<1> QED
  BY <1>2, <1>3 DEF RInv

-----------------------------------------------------------------------------
LEMMA InitR ==
  ASSUME Init
  PROVE  RInv
<1>1. Cardinality(Frames) \in Nat
  BY FramesFinite, FS_CardinalityType
<1>2. /\ rq \in [1..Cardinality(Frames) -> Frames]
      /\ \A i, j \in 1..Cardinality(Frames) : rq[i] = rq[j] => i = j
  BY DEF Init
<1>3. /\ Len(rq) = Cardinality(Frames)
      /\ \A i \in 1..Len(rq) : rq[i] \in Frames
  BY <1>1, <1>2
<1>4. Results
  BY DEF Init, Results
<1>5. ReadyTasks
  BY <1>2, <1>3 DEF Init, ReadyTasks
<1>6. CurrentTask
  BY DEF Init, CurrentTask
<1> QED
  BY <1>4, <1>5, <1>6 DEF RInv

LEMMA NextR ==
  ASSUME IInv, RInv, [Next]_vars
  PROVE  RInv'
<1>1. CASE PollStep
  <2> PICK f \in Frames :
        \/ \E pinned \in BOOLEAN : dream_foreign_work_begin(f, pinned)
        \/ delayMsAsync(f) \/ dream_await(f) \/ ReleaseSlot(f)
    BY <1>1 DEF PollStep
  <2>1. CASE \E pinned \in BOOLEAN : dream_foreign_work_begin(f, pinned)
    BY <2>1, R_begin DEF dream_foreign_work_begin, ownerVars, hostVars
  <2>2. CASE delayMsAsync(f)
    BY <2>2, R_begin DEF delayMsAsync, hostVars
  <2> QED
    BY <2>1, <2>2, R_dream_await, R_ReleaseSlot
<1>2. CASE Program
  <2> PICK f \in Frames :
        \/ dream_event_complete(f) \/ dream_cancel(f)
        \/ \E dies \in BOOLEAN : dream_cancel_task(f, dies)
        \/ FreeCancelledTask(f) \/ Unpin(f)
    BY <1>2 DEF Program
  <2>1. CASE FreeCancelledTask(f) \/ Unpin(f)
    BY <2>1, FrameR DEF FreeCancelledTask, Unpin, ownerVars, hostVars
  <2> QED
    BY <2>1, R_dream_event_complete, R_dream_cancel, R_dream_cancel_task
<1>3. CASE RunLoop
  <2>1. CASE foreign_drain_take \/ run_loop_check \/ scheduler_park \/ skip_park
             \/ Wake \/ timers_done
    BY <2>1, FrameR DEF foreign_drain_take, run_loop_check, scheduler_park, skip_park,
       Wake, timers_done, frameVars, progVars, hostVars
  <2> QED
    BY <1>3, <2>1, R_foreign_drain_node, R_run_ready, R_dream_cancel_rest DEF RunLoop
<1>4. CASE (\E h \in BOOLEAN : dream_sched_set_park(h)) \/ SpuriousWake \/ callback_wake
  BY <1>4, FrameR DEF dream_sched_set_park, SpuriousWake, callback_wake, frameVars,
     ownerVars, progVars, hostVars
<1>5. CASE \E f \in Frames : fire_timer(f)
  BY <1>5, R_fire_timer
<1>6. CASE \E c \in Completers, f \in Frames : complete_foreign_claim(c, f)
  BY <1>6, R_complete_foreign_claim
<1>7. CASE \E c \in Completers : CompleteStep(c)
  BY <1>7, R_complete_foreign_check, R_complete_foreign_write,
     R_complete_foreign_publish, R_complete_foreign_queue DEF CompleteStep
<1>8. CASE Terminated \/ UNCHANGED vars
  BY <1>8, FrameR DEF Terminated, vars, frameVars, ownerVars, progVars, hostVars
<1> QED
  BY <1>1, <1>2, <1>3, <1>4, <1>5, <1>6, <1>7, <1>8 DEF Next

(* Where results are and why tasks are ready is an invariant, given who owns *)
(* each frame (IInv).                                                        *)
THEOREM ResultsInductive == Spec => []RInv
<1>1. Init => RInv
  BY InitR
<1>2. IInv /\ RInv /\ [Next]_vars => RInv'
  BY NextR
<1> QED
  BY <1>1, <1>2, Inductive, PTL DEF Spec

(* A task that dream_run_loop resumes finds its child completed and its      *)
(* result written, and a future that dream_cancel settled first never keeps  *)
(* the result a host thread wrote into it.                                   *)
THEOREM ResultsRight == Spec => []ResultMatchesStatus
<1>1. IInv /\ RInv => ResultMatchesStatus
  <2> SUFFICES ASSUME IInv, RInv PROVE ResumeSeesResult /\ CancelledHasNoResult
    BY DEF ResultMatchesStatus
  <2>1. ResumeSeesResult
    <3>1. cur \in Frames \cup {NoFrame}
      BY DEF IInv, TypeOK
    <3> QED
      BY <3>1 DEF RInv, CurrentTask, Results, Resumed, ResumeSeesResult
  <2>2. CancelledHasNoResult
    BY DEF RInv, Results, CancelledHasNoResult
  <2> QED
    BY <2>1, <2>2
<1> QED
  BY <1>1, Inductive, ResultsInductive, PTL

-----------------------------------------------------------------------------
(* What settling once means for one step and one frame. *)
Kept(f) ==
    status[f] # 0 => /\ status'[f] = status[f]
                     /\ status[f] = 1 => result'[f] = result[f]

LEMMA KeptByOwner ==
  ASSUME IInv, NEW g \in Frames, NEW f \in Frames,
         \/ UNCHANGED <<status, result>>
         \/ dream_async_complete(g)
         \/ status[g] = 0 /\ status' = [status EXCEPT ![g] = 2] /\ UNCHANGED result
  PROVE  Kept(f)
<1>1. status \in [Frames -> 0..2] /\ result \in [Frames -> BOOLEAN]
  BY DEF IInv, TypeOK
<1>2. CASE dream_async_complete(g)
  BY <1>1, <1>2 DEF dream_async_complete, Kept
<1> QED
  BY <1>1, <1>2 DEF Kept

LEMMA KeptByHost ==
  ASSUME IInv, RInv, NEW c \in Completers, CompleteStep(c), NEW f \in Frames
  PROVE  Kept(f)
<1>1. CASE complete_foreign_check(c) \/ complete_foreign_queue(c)
  BY <1>1 DEF complete_foreign_check, complete_foreign_queue, frameVars, Kept
<1>2. CASE complete_foreign_write(c)
  <2>1. cpc[c] = "write" /\ status[cf[c]] # 1 /\ UNCHANGED status
        /\ result' = [result EXCEPT ![cf[c]] = TRUE]
    BY <1>2 DEF complete_foreign_write, RInv, Results
  <2> QED
    BY <2>1, HostTypes DEF Kept
<1>3. CASE complete_foreign_publish(c)
  <2>1. cpc[c] = "publish" /\ status[cf[c]] # 1
    BY <1>3 DEF complete_foreign_publish, RInv, Results
  <2> QED
    BY <1>3, <2>1, HostTypes DEF complete_foreign_publish, Kept
<1> QED
  BY <1>1, <1>2, <1>3 DEF CompleteStep

LEMMA KeptByNext ==
  ASSUME IInv, RInv, [Next]_vars, NEW f \in Frames
  PROVE  Kept(f)
<1>1. CASE PollStep
  <2>1. UNCHANGED <<status, result>>
    BY <1>1 DEF PollStep, dream_foreign_work_begin, delayMsAsync, dream_await, ReleaseSlot
  <2> QED
    BY <2>1 DEF Kept
<1>2. CASE Program
  <2> PICK g \in Frames :
        \/ dream_event_complete(g) \/ dream_cancel(g)
        \/ \E dies \in BOOLEAN : dream_cancel_task(g, dies)
        \/ FreeCancelledTask(g) \/ Unpin(g)
    BY <1>2 DEF Program
  <2>1. \/ UNCHANGED <<status, result>> \/ dream_async_complete(g)
        \/ status[g] = 0 /\ status' = [status EXCEPT ![g] = 2] /\ UNCHANGED result
    BY DEF dream_event_complete, dream_cancel, dream_cancel_task, FreeCancelledTask,
       Unpin, frameVars, awaited_child_unshared
  <2> QED
    BY <2>1, KeptByOwner
<1>3. CASE RunLoop
  <2>1. UNCHANGED <<status, result>>
    BY <1>3 DEF RunLoop, foreign_drain_take, foreign_drain_node, run_ready, run_loop_check,
       scheduler_park, skip_park, Wake, timers_done, dream_cancel_rest, frameVars
  <2> QED
    BY <2>1 DEF Kept
<1>4. CASE (\E h \in BOOLEAN : dream_sched_set_park(h)) \/ SpuriousWake \/ callback_wake
           \/ Terminated \/ UNCHANGED vars
           \/ \E c \in Completers, g \in Frames : complete_foreign_claim(c, g)
  <2>1. UNCHANGED <<status, result>>
    BY <1>4 DEF dream_sched_set_park, SpuriousWake, callback_wake, Terminated, vars,
       frameVars, complete_foreign_claim
  <2> QED
    BY <2>1 DEF Kept
<1>5. CASE \E g \in Frames : fire_timer(g)
  BY <1>5, KeptByOwner DEF fire_timer
<1>6. CASE \E c \in Completers : CompleteStep(c)
  BY <1>6, KeptByHost
<1> QED
  BY <1>1, <1>2, <1>3, <1>4, <1>5, <1>6 DEF Next

(* dream_cancel, complete_foreign and dream_async_complete settle a future   *)
(* once: no later step of the owner or of any host thread changes its status *)
(* or the result of a completed one.                                         *)
THEOREM SettledForGood == Spec => SettlesOnce
<1>1. IInv /\ RInv /\ [Next]_vars
        => [\A f \in Frames : status[f] # 0 =>
              /\ status'[f] = status[f]
              /\ status[f] = 1 => result'[f] = result[f]]_vars
  BY KeptByNext DEF Kept
<1> QED
  BY <1>1, Inductive, ResultsInductive, PTL DEF Spec, SettlesOnce
=============================================================================
