------------------------- MODULE ForeignQueueProofs -------------------------
(***************************************************************************)
(* Proofs about ForeignQueue, for any number of frames and host threads.   *)
(***************************************************************************)
EXTENDS ForeignQueue, FiniteSetTheorems, TLAPS

OnQueue(f) == \/ \E i \in 1..Len(fq) : fq[i] = f
              \/ \E i \in 1..Len(batch) : batch[i] = f

(* A frame that its task has not created yet is untouched. *)
NewFrames ==
    \A f \in Frames : task[f] = "new" =>
        /\ started[f] = 0 /\ status[f] = 0 /\ scheduler[f] = "null"
        /\ ~slot[f] /\ ~pin[f] /\ ~waker[f] /\ calls[f] = 0 /\ f \notin timers

(* The start retain and the place that will give it back. *)
Retains ==
    \A f \in Frames :
        /\ started[f] = 0 => ~slot[f] /\ ~pin[f]
        /\ started[f] = 2 => status[f] # 0 /\ scheduler[f] = "null"
        /\ started[f] = 1 => scheduler[f] # "null" \/ f \in timers
        /\ scheduler[f] # "null" => started[f] = 1 /\ f \notin timers
        /\ f \in timers => started[f] = 1 /\ (status[f] = 0 \/ cancelling = f)
        /\ scheduler[f] = "owner" => status[f] # 1
        /\ waker[f] => started[f] = 1 /\ (status[f] # 2 \/ cancelling = f)
        /\ calls[f] > 0 => pin[f] \/ scheduler[f] = "owner"
        /\ ~pin[f] => calls[f] <= 1
        /\ task[f] \in {"holding", "waiting"} => slot[f]
        /\ task[f] = "ended" => ~slot[f]

(* A host thread inside complete_foreign is the only one with its frame. *)
ClaimHolders ==
    /\ \A c \in Completers :
         /\ cpc[c] = "idle" <=> cf[c] = NoFrame
         /\ cf[c] # NoFrame => scheduler[cf[c]] = "claimed" /\ ~OnQueue(cf[c])
         /\ cpc[c] = "queue" => status[cf[c]] # 0
    /\ \A c, d \in Completers : cf[c] = cf[d] /\ cf[c] # NoFrame => c = d

(* A queued node names a claimed, settled frame and no other node does. *)
QueueNodes ==
    /\ \A i \in 1..Len(fq) : scheduler[fq[i]] = "claimed" /\ status[fq[i]] # 0
    /\ \A i \in 1..Len(batch) :
         scheduler[batch[i]] = "claimed" /\ status[batch[i]] # 0
    /\ \A i, j \in 1..Len(fq) : fq[i] = fq[j] => i = j
    /\ \A i, j \in 1..Len(batch) : batch[i] = batch[j] => i = j
    /\ \A i \in 1..Len(fq), j \in 1..Len(batch) : fq[i] # batch[j]

(* A claimed frame is with a host thread or on the way back. *)
ClaimsPlaced ==
    \A f \in Frames : scheduler[f] = "claimed" =>
        OnQueue(f) \/ \E c \in Completers : cf[c] = f

(* Where the owner is, and what that says about its lists. *)
OwnerPlace ==
    /\ pc = "cancel" <=> cancelling # NoFrame
    /\ cancelling # NoFrame => status[cancelling] = 2 /\ started[cancelling] = 1
    /\ pc \notin {"drain", "drain2"} => batch = <<>>
    /\ pc \in {"check", "park", "wait", "done"} => rq = <<>>
    /\ pc \in {"poll", "cancel"} <=> cur # NoFrame
    /\ pc = "done" => timers = {} /\ fq = <<>> /\ pending = 0

IInv ==
    /\ TypeOK
    /\ RetainAccounting
    /\ PendingCredits
    /\ NewFrames
    /\ Retains
    /\ ClaimHolders
    /\ QueueNodes
    /\ ClaimsPlaced
    /\ OwnerPlace
    /\ NoLostWake

(* Typing of the sequences the owner works on. *)
LEMMA SeqFacts ==
  ASSUME NEW s \in Seq(Frames)
  PROVE  /\ Len(s) \in Nat
         /\ \A i \in 1..Len(s) : s[i] \in Frames
         /\ s = <<>> <=> Len(s) = 0
OBVIOUS

LEMMA TailFacts ==
  ASSUME NEW s \in Seq(Frames), s # <<>>
  PROVE  /\ Head(s) = s[1] /\ Head(s) \in Frames
         /\ Tail(s) \in Seq(Frames)
         /\ Len(s) >= 1 /\ Len(Tail(s)) = Len(s) - 1
         /\ \A i \in 1..Len(Tail(s)) : Tail(s)[i] = s[i + 1]
OBVIOUS

LEMMA AppendFacts ==
  ASSUME NEW s \in Seq(Frames), NEW f \in Frames
  PROVE  /\ Append(s, f) \in Seq(Frames)
         /\ Len(Append(s, f)) = Len(s) + 1
         /\ \A i \in 1..Len(s) : Append(s, f)[i] = s[i]
         /\ Append(s, f)[Len(s) + 1] = f
OBVIOUS

(* dream_enqueue and the unlinking of a task keep the ready queue a sequence. *)
LEMMA EnqueueType ==
  ASSUME TypeOK, NEW t \in Frames
  PROVE  dream_enqueue(t) \in Seq(Frames)
BY AppendFacts DEF TypeOK, dream_enqueue

LEMMA UnlinkType ==
  ASSUME TypeOK, NEW t \in Frames
  PROVE  Unlink(t) \in Seq(Frames)
<1>1. CASE \E i \in 1..Len(rq) : rq[i] = t
  <2> DEFINE i == CHOOSE k \in 1..Len(rq) : rq[k] = t
  <2>1. i \in 1..Len(rq)
    BY <1>1
  <2> HIDE DEF i
  <2>2. rq \in Seq(Frames) /\ Len(rq) \in Nat /\ \A k \in 1..Len(rq) : rq[k] \in Frames
    BY SeqFacts DEF TypeOK
  <2>3. SubSeq(rq, 1, i - 1) \in Seq(Frames)
    BY <2>1, <2>2
  <2>4. SubSeq(rq, i + 1, Len(rq)) \in Seq(Frames)
    BY <2>1, <2>2
  <2>5. Unlink(t) = SubSeq(rq, 1, i - 1) \o SubSeq(rq, i + 1, Len(rq))
    BY <1>1 DEF Unlink, i
  <2> QED
    BY <2>3, <2>4, <2>5
<1>2. CASE ~\E i \in 1..Len(rq) : rq[i] = t
  BY <1>2 DEF Unlink, TypeOK
<1> QED
  BY <1>1, <1>2

(* The sets behind the pending credits are finite, so their size is a number. *)
LEMMA CreditSets ==
  /\ IsFiniteSet(Unclaimed) /\ IsFiniteSet(Claiming)
  /\ Cardinality(Unclaimed) \in Nat /\ Cardinality(Claiming) \in Nat
<1>1. Unclaimed \in SUBSET Frames /\ Claiming \in SUBSET Completers
  BY DEF Unclaimed, Claiming
<1>2. IsFiniteSet(Unclaimed) /\ IsFiniteSet(Claiming)
  BY <1>1, FS_Subset, FramesFinite, CompletersFinite
<1> QED
  BY <1>2, FS_CardinalityType

(* Whoever holds an unreturned credit finds the counter positive. *)
LEMMA CreditHeld ==
  ASSUME PendingCredits, Unclaimed # {} \/ Claiming # {}
  PROVE  pending \in Nat /\ pending >= 1
<1>1. Cardinality(Unclaimed) > 0 \/ Cardinality(Claiming) > 0
  BY CreditSets, FS_EmptySet
<1> QED
  BY <1>1, CreditSets DEF PendingCredits

(* A frame with an owner has a positive count. *)
LEMMA RcPositive ==
  ASSUME TypeOK, RetainAccounting, NEW f \in Frames,
         slot[f] \/ pin[f] \/ started[f] = 1
  PROVE  rc[f] \in Nat /\ rc[f] >= 1
BY DEF TypeOK, RetainAccounting, Count

(* Giving up the start retain keeps the accounting. *)
LEMMA DropStart ==
  ASSUME TypeOK, RetainAccounting, NEW f \in Frames, started[f] = 1,
         started' = [started EXCEPT ![f] = 2],
         rc' = [rc EXCEPT ![f] = @ - 1], UNCHANGED <<slot, pin>>
  PROVE  /\ RetainAccounting'
         /\ rc' \in [Frames -> Nat] /\ started' \in [Frames -> 0..2]
<1>1. rc[f] \in Nat /\ rc[f] >= 1
  BY RcPositive
<1>2. rc' \in [Frames -> Nat] /\ started' \in [Frames -> 0..2]
  BY <1>1 DEF TypeOK
<1>3. ASSUME NEW g \in Frames
      PROVE  rc'[g] = Count(slot'[g]) + Count(pin'[g]) + Count(started'[g] = 1)
  <2>1. CASE g = f
    BY <2>1, <1>1 DEF TypeOK, RetainAccounting, Count
  <2>2. CASE g # f
    BY <2>2 DEF TypeOK, RetainAccounting
  <2> QED
    BY <2>1, <2>2
<1> QED
  BY <1>2, <1>3 DEF RetainAccounting, Count

(* So does giving up the slot. *)
LEMMA DropSlot ==
  ASSUME TypeOK, RetainAccounting, NEW f \in Frames, slot[f],
         slot' = [slot EXCEPT ![f] = FALSE],
         rc' = [rc EXCEPT ![f] = @ - 1], UNCHANGED <<started, pin>>
  PROVE  /\ RetainAccounting'
         /\ rc' \in [Frames -> Nat] /\ slot' \in [Frames -> BOOLEAN]
<1>1. rc[f] \in Nat /\ rc[f] >= 1
  BY RcPositive
<1>2. rc' \in [Frames -> Nat] /\ slot' \in [Frames -> BOOLEAN]
  BY <1>1 DEF TypeOK
<1>3. ASSUME NEW g \in Frames
      PROVE  rc'[g] = Count(slot'[g]) + Count(pin'[g]) + Count(started'[g] = 1)
  <2>1. CASE g = f
    BY <2>1, <1>1 DEF TypeOK, RetainAccounting, Count
  <2>2. CASE g # f
    BY <2>2 DEF TypeOK, RetainAccounting
  <2> QED
    BY <2>1, <2>2
<1> QED
  BY <1>2, <1>3 DEF RetainAccounting, Count

(* A new frame takes a credit and a start retain. *)
LEMMA Inv_dream_foreign_work_begin ==
  ASSUME IInv, NEW f \in Frames, NEW pinned \in BOOLEAN, dream_foreign_work_begin(f, pinned)
  PROVE  IInv'
<1>1. TypeOK'
  BY NoFrameFresh DEF IInv, dream_foreign_work_begin, ownerVars, hostVars,
        TypeOK, RetainAccounting, Count, NewFrames, Retains
<1>2. RetainAccounting'
  BY NoFrameFresh DEF IInv, dream_foreign_work_begin, ownerVars, hostVars,
        TypeOK, RetainAccounting, Count, NewFrames, Retains
<1>3. PendingCredits'
  <2>1. f \notin Unclaimed /\ Unclaimed' = Unclaimed \cup {f}
    BY DEF IInv, TypeOK, NewFrames, dream_foreign_work_begin, Unclaimed
  <2>2. Claiming' = Claiming
    BY DEF dream_foreign_work_begin, hostVars, Claiming
  <2>3. pending' = pending + 1
    BY DEF dream_foreign_work_begin
  <2>4. Cardinality(Unclaimed \cup {f}) = Cardinality(Unclaimed) + 1
    BY <2>1, CreditSets, FS_AddElement
  <2> QED
    BY <2>1, <2>2, <2>3, <2>4, CreditSets DEF IInv, PendingCredits
<1>4. NewFrames'
  BY NoFrameFresh DEF IInv, dream_foreign_work_begin, ownerVars, hostVars,
        TypeOK, NewFrames, Retains, OwnerPlace
<1>5. Retains'
  BY NoFrameFresh DEF IInv, dream_foreign_work_begin, ownerVars, hostVars,
        TypeOK, NewFrames, Retains, OwnerPlace
<1>6. ClaimHolders'
  BY NoFrameFresh DEF IInv, dream_foreign_work_begin, ownerVars, hostVars,
        TypeOK, ClaimHolders, OnQueue, NewFrames, Retains
<1>7. QueueNodes'
  BY NoFrameFresh DEF IInv, dream_foreign_work_begin, ownerVars, hostVars,
        TypeOK, QueueNodes, NewFrames, Retains
<1>8. ClaimsPlaced'
  BY DEF IInv, TypeOK, ClaimsPlaced, OnQueue, dream_foreign_work_begin,
        ownerVars, hostVars
<1>9. OwnerPlace'
  BY NoFrameFresh DEF IInv, dream_foreign_work_begin, ownerVars, hostVars,
        TypeOK, OwnerPlace, NewFrames, Retains
<1>10. NoLostWake'
  BY DEF IInv, dream_foreign_work_begin, ownerVars, hostVars, NoLostWake
<1> QED
  BY <1>1, <1>2, <1>3, <1>4, <1>5, <1>6, <1>7, <1>8, <1>9, <1>10 DEF IInv

(* A timer frame takes a start retain only. *)
LEMMA Inv_delayMsAsync ==
  ASSUME IInv, NEW f \in Frames, delayMsAsync(f)
  PROVE  IInv'
<1>1. TypeOK'
  BY NoFrameFresh DEF IInv, delayMsAsync, schedVars, hostVars, TypeOK,
        RetainAccounting, Count, NewFrames, Retains
<1>2. RetainAccounting'
  BY NoFrameFresh DEF IInv, delayMsAsync, schedVars, hostVars, TypeOK,
        RetainAccounting, Count, NewFrames, Retains
<1>3. PendingCredits'
  BY DEF IInv, delayMsAsync, schedVars, hostVars, PendingCredits, Unclaimed,
        Claiming
<1>4. NewFrames'
  BY NoFrameFresh DEF IInv, delayMsAsync, schedVars, hostVars, TypeOK,
        NewFrames, Retains, OwnerPlace
<1>5. Retains'
  BY NoFrameFresh DEF IInv, delayMsAsync, schedVars, hostVars, TypeOK,
        NewFrames, Retains, OwnerPlace
<1>6. ClaimHolders'
  BY DEF IInv, delayMsAsync, schedVars, hostVars, ClaimHolders, OnQueue
<1>7. QueueNodes'
  BY DEF IInv, delayMsAsync, schedVars, hostVars, QueueNodes
<1>8. ClaimsPlaced'
  BY DEF IInv, delayMsAsync, schedVars, hostVars, ClaimsPlaced, OnQueue
<1>9. OwnerPlace'
  BY NoFrameFresh DEF IInv, delayMsAsync, schedVars, hostVars, TypeOK,
        OwnerPlace, NewFrames, Retains
<1>10. NoLostWake'
  BY DEF IInv, delayMsAsync, schedVars, hostVars, NoLostWake
<1> QED
  BY <1>1, <1>2, <1>3, <1>4, <1>5, <1>6, <1>7, <1>8, <1>9, <1>10 DEF IInv

(* Awaiting sets the waker or re-queues the task. *)
LEMMA Inv_dream_await ==
  ASSUME IInv, NEW f \in Frames, dream_await(f)
  PROVE  IInv'
<1>1. TypeOK'
  BY EnqueueType DEF IInv, TypeOK, dream_await, schedVars, hostVars
<1>2. RetainAccounting'
  BY DEF IInv, dream_await, schedVars, hostVars, RetainAccounting
<1>3. PendingCredits'
  BY DEF IInv, dream_await, schedVars, hostVars, PendingCredits, Unclaimed,
        Claiming
<1>4. NewFrames'
  BY NoFrameFresh DEF IInv, dream_await, schedVars, hostVars, TypeOK,
        NewFrames, Retains, OwnerPlace
<1>5. Retains'
  BY NoFrameFresh DEF IInv, dream_await, schedVars, hostVars, TypeOK,
        NewFrames, Retains, OwnerPlace
<1>6. ClaimHolders'
  BY DEF IInv, dream_await, schedVars, hostVars, ClaimHolders, OnQueue
<1>7. QueueNodes'
  BY DEF IInv, dream_await, schedVars, hostVars, QueueNodes
<1>8. ClaimsPlaced'
  BY DEF IInv, dream_await, schedVars, hostVars, ClaimsPlaced, OnQueue
<1>9. OwnerPlace'
  BY NoFrameFresh DEF IInv, dream_await, schedVars, hostVars, TypeOK,
        OwnerPlace, NewFrames, Retains
<1>10. NoLostWake'
  BY NoFrameFresh DEF IInv, dream_await, schedVars, hostVars, TypeOK,
        NoLostWake
<1> QED
  BY <1>1, <1>2, <1>3, <1>4, <1>5, <1>6, <1>7, <1>8, <1>9, <1>10 DEF IInv

(* The slot gives its reference back. *)
LEMMA Inv_ReleaseSlot ==
  ASSUME IInv, NEW f \in Frames, ReleaseSlot(f)
  PROVE  IInv'
<1>a. rc[f] \in Nat /\ rc[f] >= 1
  BY RcPositive DEF IInv, ReleaseSlot, Retains
<1>1. TypeOK'
  BY <1>a DEF IInv, TypeOK, ReleaseSlot,
        schedVars, hostVars
<1>2. RetainAccounting'
  BY NoFrameFresh DEF IInv, ReleaseSlot, schedVars, hostVars, TypeOK,
        RetainAccounting, Count, NewFrames, Retains
<1>3. PendingCredits'
  BY DEF IInv, ReleaseSlot, schedVars, hostVars, PendingCredits, Unclaimed,
        Claiming
<1>4. NewFrames'
  BY NoFrameFresh DEF IInv, ReleaseSlot, schedVars, hostVars, TypeOK,
        NewFrames, Retains, OwnerPlace
<1>5. Retains'
  BY NoFrameFresh DEF IInv, ReleaseSlot, schedVars, hostVars, TypeOK,
        NewFrames, Retains, OwnerPlace
<1>6. ClaimHolders'
  BY DEF IInv, ReleaseSlot, schedVars, hostVars, ClaimHolders, OnQueue
<1>7. QueueNodes'
  BY DEF IInv, ReleaseSlot, schedVars, hostVars, QueueNodes
<1>8. ClaimsPlaced'
  BY DEF IInv, ReleaseSlot, schedVars, hostVars, ClaimsPlaced, OnQueue
<1>9. OwnerPlace'
  BY NoFrameFresh DEF IInv, ReleaseSlot, schedVars, hostVars, TypeOK,
        OwnerPlace, NewFrames, Retains
<1>10. NoLostWake'
  BY NoFrameFresh DEF IInv, ReleaseSlot, schedVars, hostVars, TypeOK,
        NoLostWake
<1> QED
  BY <1>1, <1>2, <1>3, <1>4, <1>5, <1>6, <1>7, <1>8, <1>9, <1>10 DEF IInv

(* The owner completes a frame nobody has claimed. *)
LEMMA Inv_dream_event_complete ==
  ASSUME IInv, NEW f \in Frames, dream_event_complete(f)
  PROVE  IInv'
<1>b. /\ calls' = [calls EXCEPT ![f] = @ - 1] /\ calls' \in [Frames -> 0..2]
      /\ pc = "poll" /\ calls[f] \in 1..2
      /\ UNCHANGED <<fq, parked, hook, hookEvent, pc, cur, cancelling, batch,
                     timers, task, slot, pin, cpc, cf>>
  BY DEF IInv, TypeOK, dream_event_complete, hostVars
<1>1. CASE scheduler[f] # "owner"
  <2>1. UNCHANGED <<scheduler, status, started, result, waker, rc, pending, rq>>
    BY <1>1 DEF dream_event_complete, frameVars
  <2>2. (TypeOK /\ RetainAccounting /\ NewFrames /\ Retains)'
    BY <1>1, <1>b, <2>1 DEF IInv, TypeOK, RetainAccounting, NewFrames, Retains
  <2>3. (ClaimHolders /\ QueueNodes /\ ClaimsPlaced /\ PendingCredits)'
    BY <1>b, <2>1 DEF IInv, ClaimHolders, QueueNodes, ClaimsPlaced, OnQueue,
       PendingCredits, Unclaimed, Claiming
  <2>4. (OwnerPlace /\ NoLostWake)'
    BY <1>b, <2>1 DEF IInv, OwnerPlace, NoLostWake
  <2> QED
    BY <2>2, <2>3, <2>4 DEF IInv
<1>2. CASE scheduler[f] = "owner"
  <2>1. started[f] = 1 /\ status[f] \in {0, 2}
    BY <1>2 DEF IInv, TypeOK, Retains
  <2>2. rc[f] \in Nat /\ rc[f] >= 1
    BY <2>1, RcPositive DEF IInv
  <2>3. pending \in Nat /\ pending >= 1
    BY <1>2, CreditHeld DEF IInv, Unclaimed
  <2>4. /\ scheduler' = [scheduler EXCEPT ![f] = "null"]
        /\ pending' = pending - 1
        /\ started' = [started EXCEPT ![f] = 2]
        /\ rc' = [rc EXCEPT ![f] = @ - 1]
    BY <1>2, <2>1 DEF dream_event_complete, dream_async_complete, WakeAndDrop,
       scheduler_drop_start_retain
  <2>7. status[f] = 2 => ~waker[f]
    BY <1>b, NoFrameFresh DEF IInv, Retains, OwnerPlace
  <2>5. /\ status' \in [Frames -> 0..2] /\ status'[f] # 0
        /\ \A g \in Frames : g # f => status'[g] = status[g]
        /\ waker' \in [Frames -> BOOLEAN] /\ ~waker'[f]
        /\ \A g \in Frames : g # f => waker'[g] = waker[g]
        /\ result' \in [Frames -> BOOLEAN]
    <3>1. CASE status[f] = 0
      <4>1. /\ status' = [status EXCEPT ![f] = 1]
            /\ waker' = [waker EXCEPT ![f] = FALSE]
            /\ result' = [result EXCEPT ![f] = TRUE]
        BY <1>2, <3>1 DEF dream_event_complete, dream_async_complete, WakeAndDrop
      <4> QED
        BY <4>1 DEF IInv, TypeOK
    <3>2. CASE status[f] = 2
      <4>1. UNCHANGED <<status, waker, result>>
        BY <1>2, <3>2 DEF dream_event_complete
      <4> QED
        BY <2>7, <3>2, <4>1 DEF IInv, TypeOK
    <3> QED
      BY <2>1, <3>1, <3>2
  <2>6. rq' \in Seq(Frames)
    BY <1>2, EnqueueType DEF IInv, TypeOK, dream_event_complete,
       dream_async_complete, WakeAndDrop
  <2>9. RetainAccounting' /\ rc' \in [Frames -> Nat] /\ started' \in [Frames -> 0..2]
    BY <1>b, <2>1, <2>4, DropStart DEF IInv
  <2>8. TypeOK'
    <3>1. pending' \in Nat
      BY <2>3, <2>4
    <3>2. scheduler' \in [Frames -> {"null", "owner", "claimed"}]
      BY <2>4 DEF IInv, TypeOK
    <3> QED
      BY <1>b, <2>5, <2>6, <2>9, <3>1, <3>2 DEF IInv, TypeOK
  <2>10. PendingCredits'
    <3>1. f \in Unclaimed /\ Unclaimed' = Unclaimed \ {f} /\ Claiming' = Claiming
      BY <1>b, <1>2, <2>4 DEF IInv, TypeOK, Unclaimed, Claiming
    <3>2. Cardinality(Unclaimed \ {f}) = Cardinality(Unclaimed) - 1
      BY <3>1, CreditSets, FS_RemoveElement
    <3> QED
      BY <2>4, <3>1, <3>2, CreditSets DEF IInv, PendingCredits
  <2>11. NewFrames'
    BY <1>b, <1>2, <2>4, <2>5 DEF IInv, TypeOK, NewFrames
  <2>12. Retains'
    BY <1>b, <1>2, <2>4, <2>5 DEF IInv, TypeOK, Retains
  <2>13. ClaimHolders'
    BY <1>b, <1>2, <2>4, <2>5, NoFrameFresh DEF IInv, TypeOK, ClaimHolders, OnQueue
  <2>14. QueueNodes'
    BY <1>b, <1>2, <2>4, <2>5, SeqFacts DEF IInv, TypeOK, QueueNodes
  <2>15. ClaimsPlaced'
    BY <1>b, <1>2, <2>4 DEF IInv, TypeOK, ClaimsPlaced, OnQueue
  <2>16. OwnerPlace'
    BY <1>b, NoFrameFresh DEF IInv, TypeOK, OwnerPlace
  <2>17. NoLostWake'
    BY <1>b DEF IInv, NoLostWake
  <2> QED
    BY <2>8, <2>9, <2>10, <2>11, <2>12, <2>13, <2>14, <2>15, <2>16, <2>17 DEF IInv
<1> QED
  BY <1>1, <1>2

(* The status CAS of a cancellation. *)
LEMMA Inv_dream_cancel ==
  ASSUME IInv, NEW f \in Frames, dream_cancel(f)
  PROVE  IInv'
<1>1. TypeOK'
  BY NoFrameFresh DEF IInv, dream_cancel, schedVars, progVars, hostVars,
        TypeOK, RetainAccounting, Count, NewFrames, Retains
<1>2. RetainAccounting'
  BY DEF IInv, dream_cancel, schedVars, progVars, hostVars, RetainAccounting
<1>3. PendingCredits'
  BY DEF IInv, dream_cancel, schedVars, progVars, hostVars, PendingCredits,
        Unclaimed, Claiming
<1>4. NewFrames'
  BY NoFrameFresh DEF IInv, dream_cancel, schedVars, progVars, hostVars,
        TypeOK, NewFrames, Retains, OwnerPlace
<1>5. Retains'
  BY NoFrameFresh DEF IInv, dream_cancel, schedVars, progVars, hostVars,
        TypeOK, NewFrames, Retains, OwnerPlace
<1>6. ClaimHolders'
  BY NoFrameFresh DEF IInv, dream_cancel, schedVars, progVars, hostVars,
        TypeOK, ClaimHolders, OnQueue, NewFrames, Retains
<1>7. QueueNodes'
  BY NoFrameFresh DEF IInv, dream_cancel, schedVars, progVars, hostVars,
        TypeOK, QueueNodes, NewFrames, Retains
<1>8. ClaimsPlaced'
  BY DEF IInv, dream_cancel, schedVars, progVars, hostVars, ClaimsPlaced,
        OnQueue
<1>9. OwnerPlace'
  BY NoFrameFresh DEF IInv, dream_cancel, schedVars, progVars, hostVars,
        TypeOK, OwnerPlace, NewFrames, Retains
<1>10. NoLostWake'
  BY NoFrameFresh DEF IInv, dream_cancel, schedVars, progVars, hostVars,
        TypeOK, NoLostWake
<1> QED
  BY <1>1, <1>2, <1>3, <1>4, <1>5, <1>6, <1>7, <1>8, <1>9, <1>10 DEF IInv

(* The rest of a cancellation. *)
LEMMA Inv_dream_cancel_rest ==
  ASSUME IInv, dream_cancel_rest
  PROVE  IInv'
<1>a. /\ cancelling \in Frames /\ started[cancelling] = 1
      /\ rc[cancelling] \in Nat /\ rc[cancelling] >= 1
  BY RcPositive DEF IInv, TypeOK, OwnerPlace, dream_cancel_rest
<1>2. RetainAccounting' /\ rc' \in [Frames -> Nat] /\ started' \in [Frames -> 0..2]
  <2>1. UNCHANGED <<slot, pin>>
    BY DEF dream_cancel_rest, progVars
  <2>2. CASE scheduler[cancelling] = "null"
    BY <1>a, <2>1, <2>2, DropStart DEF IInv, dream_cancel_rest,
       scheduler_drop_start_retain
  <2>3. CASE scheduler[cancelling] # "null"
    BY <2>1, <2>3 DEF IInv, TypeOK, RetainAccounting, dream_cancel_rest
  <2> QED
    BY <2>2, <2>3
<1>1. TypeOK'
  BY <1>2 DEF IInv, TypeOK, dream_cancel_rest, schedVars, progVars, hostVars
<1>3. PendingCredits'
  BY DEF IInv, dream_cancel_rest, schedVars, progVars, hostVars,
        PendingCredits, Unclaimed, Claiming, scheduler_drop_start_retain
<1>4. NewFrames'
  BY NoFrameFresh DEF IInv, dream_cancel_rest, schedVars, progVars,
        hostVars, scheduler_drop_start_retain, TypeOK, NewFrames, Retains,
        OwnerPlace
<1>5. Retains'
  BY NoFrameFresh DEF IInv, dream_cancel_rest, schedVars, progVars,
        hostVars, scheduler_drop_start_retain, TypeOK, NewFrames, Retains,
        OwnerPlace
<1>6. ClaimHolders'
  BY DEF IInv, dream_cancel_rest, schedVars, progVars, hostVars,
        ClaimHolders, OnQueue, scheduler_drop_start_retain
<1>7. QueueNodes'
  BY DEF IInv, dream_cancel_rest, schedVars, progVars, hostVars, QueueNodes,
        scheduler_drop_start_retain
<1>8. ClaimsPlaced'
  BY DEF IInv, dream_cancel_rest, schedVars, progVars, hostVars,
        ClaimsPlaced, OnQueue, scheduler_drop_start_retain
<1>9. OwnerPlace'
  BY NoFrameFresh DEF IInv, dream_cancel_rest, schedVars, progVars,
        hostVars, scheduler_drop_start_retain, TypeOK, OwnerPlace, NewFrames,
        Retains
<1>10. NoLostWake'
  BY NoFrameFresh DEF IInv, dream_cancel_rest, schedVars, progVars,
        hostVars, scheduler_drop_start_retain, TypeOK, NoLostWake
<1> QED
  BY <1>1, <1>2, <1>3, <1>4, <1>5, <1>6, <1>7, <1>8, <1>9, <1>10 DEF IInv

(* A task is cancelled, with its unshared child. *)
LEMMA Inv_dream_cancel_task ==
  ASSUME IInv, NEW f \in Frames, NEW dies \in BOOLEAN, dream_cancel_task(f, dies)
  PROVE  IInv'
<1>2. RetainAccounting' /\ rc' \in [Frames -> Nat] /\ slot' \in [Frames -> BOOLEAN]
  <2>1. UNCHANGED <<pin, started>>
    BY DEF dream_cancel_task
  <2>2. CASE dies /\ slot[f]
    BY <2>1, <2>2, DropSlot DEF IInv, dream_cancel_task
  <2>3. CASE ~(dies /\ slot[f])
    BY <2>1, <2>3 DEF IInv, TypeOK, RetainAccounting, dream_cancel_task
  <2> QED
    BY <2>2, <2>3
<1>1. TypeOK'
  <2>1. rq' \in Seq(Frames)
    BY UnlinkType DEF IInv, dream_cancel_task
  <2>2. /\ status' \in [Frames -> 0..2] /\ cancelling' \in Frames \cup {NoFrame}
        /\ pc' \in {"poll", "cancel"}
    <3>1. CASE waker[f] /\ awaited_child_unshared(f)
      <4>1. status' = [status EXCEPT ![f] = 2] /\ cancelling' = f /\ pc' = "cancel"
        BY <3>1 DEF dream_cancel_task
      <4> QED
        BY <4>1 DEF IInv, TypeOK
    <3>2. CASE ~(waker[f] /\ awaited_child_unshared(f))
      <4>1. UNCHANGED <<status, cancelling, pc>> /\ pc = "poll"
        BY <3>2 DEF dream_cancel_task
      <4> QED
        BY <4>1 DEF IInv, TypeOK
    <3> QED
      BY <3>1, <3>2
  <2>3. waker' \in [Frames -> BOOLEAN]
    BY DEF IInv, TypeOK, dream_cancel_task
  <2>4. task' \in [Frames -> {"new", "holding", "waiting", "ended", "cancelled"}]
    BY DEF IInv, TypeOK, dream_cancel_task
  <2> QED
    BY <1>2, <2>1, <2>2, <2>3, <2>4
       DEF IInv, TypeOK, dream_cancel_task, schedVars, hostVars
<1>3. PendingCredits'
  BY DEF IInv, dream_cancel_task, schedVars, hostVars, PendingCredits,
        Unclaimed, Claiming, awaited_child_unshared
<1>4. NewFrames'
  BY NoFrameFresh DEF IInv, dream_cancel_task, schedVars, hostVars,
        awaited_child_unshared, TypeOK, NewFrames, Retains, OwnerPlace
<1>5. Retains'
  BY NoFrameFresh DEF IInv, dream_cancel_task, schedVars, hostVars,
        awaited_child_unshared, TypeOK, NewFrames, Retains, OwnerPlace
<1>6. ClaimHolders'
  BY NoFrameFresh DEF IInv, dream_cancel_task, schedVars, hostVars,
        awaited_child_unshared, TypeOK, ClaimHolders, OnQueue, NewFrames,
        Retains
<1>7. QueueNodes'
  BY NoFrameFresh DEF IInv, dream_cancel_task, schedVars, hostVars,
        awaited_child_unshared, TypeOK, QueueNodes, NewFrames, Retains
<1>8. ClaimsPlaced'
  BY DEF IInv, dream_cancel_task, schedVars, hostVars, ClaimsPlaced,
        OnQueue, awaited_child_unshared
<1>9. OwnerPlace'
  BY NoFrameFresh DEF IInv, dream_cancel_task, schedVars, hostVars,
        awaited_child_unshared, TypeOK, OwnerPlace, NewFrames, Retains
<1>10. NoLostWake'
  BY NoFrameFresh DEF IInv, dream_cancel_task, schedVars, hostVars,
        awaited_child_unshared, TypeOK, NoLostWake
<1> QED
  BY <1>1, <1>2, <1>3, <1>4, <1>5, <1>6, <1>7, <1>8, <1>9, <1>10 DEF IInv

(* A cancelled task is freed. *)
LEMMA Inv_FreeCancelledTask ==
  ASSUME IInv, NEW f \in Frames, FreeCancelledTask(f)
  PROVE  IInv'
<1>a. rc[f] \in Nat /\ rc[f] >= 1
  BY RcPositive DEF IInv, FreeCancelledTask
<1>1. TypeOK'
  BY <1>a DEF IInv, TypeOK, FreeCancelledTask,
        schedVars, ownerVars, hostVars
<1>2. RetainAccounting'
  BY NoFrameFresh DEF IInv, FreeCancelledTask, schedVars, ownerVars,
        hostVars, TypeOK, RetainAccounting, Count, NewFrames, Retains
<1>3. PendingCredits'
  BY DEF IInv, FreeCancelledTask, schedVars, ownerVars, hostVars,
        PendingCredits, Unclaimed, Claiming
<1>4. NewFrames'
  BY NoFrameFresh DEF IInv, FreeCancelledTask, schedVars, ownerVars,
        hostVars, TypeOK, NewFrames, Retains, OwnerPlace
<1>5. Retains'
  BY NoFrameFresh DEF IInv, FreeCancelledTask, schedVars, ownerVars,
        hostVars, TypeOK, NewFrames, Retains, OwnerPlace
<1>6. ClaimHolders'
  BY DEF IInv, FreeCancelledTask, schedVars, ownerVars, hostVars,
        ClaimHolders, OnQueue
<1>7. QueueNodes'
  BY DEF IInv, FreeCancelledTask, schedVars, ownerVars, hostVars, QueueNodes
<1>8. ClaimsPlaced'
  BY DEF IInv, FreeCancelledTask, schedVars, ownerVars, hostVars,
        ClaimsPlaced, OnQueue
<1>9. OwnerPlace'
  BY DEF IInv, FreeCancelledTask, schedVars, ownerVars, hostVars, OwnerPlace
<1>10. NoLostWake'
  BY DEF IInv, FreeCancelledTask, schedVars, ownerVars, hostVars, NoLostWake
<1> QED
  BY <1>1, <1>2, <1>3, <1>4, <1>5, <1>6, <1>7, <1>8, <1>9, <1>10 DEF IInv

(* The host drops its pin. *)
LEMMA Inv_Unpin ==
  ASSUME IInv, NEW f \in Frames, Unpin(f)
  PROVE  IInv'
<1>a. rc[f] \in Nat /\ rc[f] >= 1
  BY RcPositive DEF IInv, Unpin
<1>1. TypeOK'
  BY <1>a DEF IInv, TypeOK, Unpin,
        schedVars, ownerVars, hostVars
<1>2. RetainAccounting'
  BY NoFrameFresh DEF IInv, Unpin, schedVars, ownerVars, hostVars, TypeOK,
        RetainAccounting, Count, NewFrames, Retains
<1>3. PendingCredits'
  BY DEF IInv, Unpin, schedVars, ownerVars, hostVars, PendingCredits,
        Unclaimed, Claiming
<1>4. NewFrames'
  BY NoFrameFresh DEF IInv, Unpin, schedVars, ownerVars, hostVars, TypeOK,
        NewFrames, Retains, OwnerPlace
<1>5. Retains'
  BY NoFrameFresh DEF IInv, Unpin, schedVars, ownerVars, hostVars, TypeOK,
        NewFrames, Retains, OwnerPlace
<1>6. ClaimHolders'
  BY DEF IInv, Unpin, schedVars, ownerVars, hostVars, ClaimHolders, OnQueue
<1>7. QueueNodes'
  BY DEF IInv, Unpin, schedVars, ownerVars, hostVars, QueueNodes
<1>8. ClaimsPlaced'
  BY DEF IInv, Unpin, schedVars, ownerVars, hostVars, ClaimsPlaced, OnQueue
<1>9. OwnerPlace'
  BY DEF IInv, Unpin, schedVars, ownerVars, hostVars, OwnerPlace
<1>10. NoLostWake'
  BY DEF IInv, Unpin, schedVars, ownerVars, hostVars, NoLostWake
<1> QED
  BY <1>1, <1>2, <1>3, <1>4, <1>5, <1>6, <1>7, <1>8, <1>9, <1>10 DEF IInv

(* The park hook changes. *)
LEMMA Inv_dream_sched_set_park ==
  ASSUME IInv, NEW h \in BOOLEAN, dream_sched_set_park(h)
  PROVE  IInv'
<1>1. TypeOK'
  BY NoFrameFresh DEF IInv, dream_sched_set_park, frameVars, ownerVars,
        progVars, hostVars, TypeOK, RetainAccounting, Count, NewFrames,
        Retains
<1>2. RetainAccounting'
  BY DEF IInv, dream_sched_set_park, frameVars, ownerVars, progVars,
        hostVars, RetainAccounting
<1>3. PendingCredits'
  BY DEF IInv, dream_sched_set_park, frameVars, ownerVars, progVars,
        hostVars, PendingCredits, Unclaimed, Claiming
<1>4. NewFrames'
  BY DEF IInv, dream_sched_set_park, frameVars, ownerVars, progVars,
        hostVars, NewFrames
<1>5. Retains'
  BY DEF IInv, dream_sched_set_park, frameVars, ownerVars, progVars,
        hostVars, Retains
<1>6. ClaimHolders'
  BY DEF IInv, dream_sched_set_park, frameVars, ownerVars, progVars,
        hostVars, ClaimHolders, OnQueue
<1>7. QueueNodes'
  BY DEF IInv, dream_sched_set_park, frameVars, ownerVars, progVars,
        hostVars, QueueNodes
<1>8. ClaimsPlaced'
  BY DEF IInv, dream_sched_set_park, frameVars, ownerVars, progVars,
        hostVars, ClaimsPlaced, OnQueue
<1>9. OwnerPlace'
  BY DEF IInv, dream_sched_set_park, frameVars, ownerVars, progVars,
        hostVars, OwnerPlace
<1>10. NoLostWake'
  BY NoFrameFresh DEF IInv, dream_sched_set_park, frameVars, ownerVars,
        progVars, hostVars, TypeOK, NoLostWake
<1> QED
  BY <1>1, <1>2, <1>3, <1>4, <1>5, <1>6, <1>7, <1>8, <1>9, <1>10 DEF IInv

(* The owner detaches the completion queue. *)
LEMMA Inv_foreign_drain_take ==
  ASSUME IInv, foreign_drain_take
  PROVE  IInv'
<1>1. TypeOK'
  BY NoFrameFresh DEF IInv, foreign_drain_take, frameVars, progVars,
        hostVars, TypeOK, RetainAccounting, Count, NewFrames, Retains
<1>2. RetainAccounting'
  BY DEF IInv, foreign_drain_take, frameVars, progVars, hostVars,
        RetainAccounting
<1>3. PendingCredits'
  BY DEF IInv, foreign_drain_take, frameVars, progVars, hostVars,
        PendingCredits, Unclaimed, Claiming
<1>4. NewFrames'
  BY DEF IInv, foreign_drain_take, frameVars, progVars, hostVars, NewFrames
<1>5. Retains'
  BY DEF IInv, foreign_drain_take, frameVars, progVars, hostVars, Retains
<1>6. ClaimHolders'
  BY NoFrameFresh DEF IInv, foreign_drain_take, frameVars, progVars,
        hostVars, TypeOK, ClaimHolders, OnQueue, NewFrames, Retains
<1>7. QueueNodes'
  BY NoFrameFresh DEF IInv, foreign_drain_take, frameVars, progVars,
        hostVars, TypeOK, QueueNodes, NewFrames, Retains
<1>8. ClaimsPlaced'
  BY NoFrameFresh DEF IInv, foreign_drain_take, frameVars, progVars,
        hostVars, TypeOK, ClaimsPlaced, OnQueue, NewFrames, Retains
<1>9. OwnerPlace'
  BY NoFrameFresh DEF IInv, foreign_drain_take, frameVars, progVars,
        hostVars, TypeOK, OwnerPlace, NewFrames, Retains
<1>10. NoLostWake'
  BY NoFrameFresh DEF IInv, foreign_drain_take, frameVars, progVars,
        hostVars, TypeOK, NoLostWake
<1> QED
  BY <1>1, <1>2, <1>3, <1>4, <1>5, <1>6, <1>7, <1>8, <1>9, <1>10 DEF IInv

(* The owner handles one detached node. *)
LEMMA Inv_foreign_drain_node ==
  ASSUME IInv, foreign_drain_node
  PROVE  IInv'
<1>0. PICK f : f = Head(batch)
  OBVIOUS
<1>a. /\ f \in Frames /\ f = batch[1] /\ Len(batch) \in Nat /\ Len(batch) >= 1
      /\ batch' = Tail(batch) /\ batch' \in Seq(Frames)
      /\ Len(batch') = Len(batch) - 1
      /\ \A i \in 1..Len(batch') : batch'[i] = batch[i + 1]
  BY <1>0, TailFacts, SeqFacts DEF IInv, TypeOK, foreign_drain_node
<1>b. scheduler[f] = "claimed" /\ status[f] # 0
  BY <1>a DEF IInv, QueueNodes
<1>c. started[f] = 1 /\ rc[f] \in Nat /\ rc[f] >= 1
  BY <1>a, <1>b, RcPositive DEF IInv, Retains
<1>d. /\ scheduler' = [scheduler EXCEPT ![f] = "null"]
      /\ waker' = [waker EXCEPT ![f] = FALSE]
      /\ started' = [started EXCEPT ![f] = 2]
      /\ rc' = [rc EXCEPT ![f] = @ - 1]
      /\ rq' \in Seq(Frames)
  <2>1. rq \in Seq(Frames) /\ dream_enqueue(f) \in Seq(Frames)
    BY <1>a, EnqueueType DEF IInv, TypeOK
  <2> QED
    BY <1>0, <1>c, <2>1 DEF foreign_drain_node, WakeAndDrop, scheduler_drop_start_retain
<1>e. /\ pc \in {"drain", "drain2"}
      /\ UNCHANGED <<status, result, pending, fq, parked, hook, hookEvent, pc,
                     cur, cancelling, timers, task, slot, pin, calls, cpc, cf>>
  BY DEF foreign_drain_node, schedVars, progVars, hostVars
<1>2. RetainAccounting' /\ rc' \in [Frames -> Nat] /\ started' \in [Frames -> 0..2]
  BY <1>a, <1>c, <1>d, <1>e, DropStart DEF IInv
<1>1. TypeOK'
  BY <1>a, <1>2, <1>d, <1>e DEF IInv, TypeOK
<1>3. PendingCredits'
  <2>1. Unclaimed' = Unclaimed
    BY <1>a, <1>b, <1>d DEF IInv, TypeOK, Unclaimed
  <2> QED
    BY <2>1, <1>e DEF IInv, PendingCredits, Claiming
<1>4. NewFrames'
  BY <1>a, <1>b, <1>d, <1>e DEF IInv, TypeOK, NewFrames
<1>5. Retains'
  BY <1>a, <1>b, <1>d, <1>e DEF IInv, TypeOK, Retains
<1>6. ClaimHolders'
  <2>0. OnQueue(f) /\ f # NoFrame
    BY <1>a, NoFrameFresh DEF OnQueue
  <2>1. \A c \in Completers : cf[c] # f
    BY <2>0 DEF IInv, ClaimHolders
  <2>2. \A g : OnQueue(g)' => OnQueue(g)
    BY <1>a, <1>e DEF OnQueue
  <2> QED
    <3>1. \A g \in Frames : g # f => scheduler'[g] = scheduler[g]
      BY <1>d DEF IInv, TypeOK
    <3>2. UNCHANGED <<cf, cpc, status>>
      BY <1>e
    <3>3. \A c \in Completers : cf[c] \in Frames \cup {NoFrame}
      BY DEF IInv, TypeOK
    <3> QED
      BY <2>1, <2>2, <3>1, <3>2, <3>3 DEF IInv, ClaimHolders
<1>7. QueueNodes'
  <2>1. \A i \in 1..Len(batch') : batch'[i] # f
    BY <1>a DEF IInv, QueueNodes
  <2>2. \A i \in 1..Len(fq) : fq[i] # f
    BY <1>a DEF IInv, QueueNodes
  <2>3. \A g \in Frames : g # f => scheduler'[g] = scheduler[g]
    BY <1>d DEF IInv, TypeOK
  <2>4. UNCHANGED <<fq, status>>
    BY <1>e
  <2>5. \A i \in 1..Len(fq) : fq[i] \in Frames
    BY SeqFacts DEF IInv, TypeOK
  <2>6. \A i \in 1..Len(batch') : batch'[i] \in Frames /\ i + 1 \in 1..Len(batch)
    BY <1>a, SeqFacts
  <2>7. \A i \in 1..Len(batch') :
          scheduler'[batch'[i]] = "claimed" /\ status[batch'[i]] # 0
    BY <1>a, <2>1, <2>3, <2>6 DEF IInv, QueueNodes
  <2>8. \A i, j \in 1..Len(batch') : batch'[i] = batch'[j] => i = j
    BY <1>a, <2>6 DEF IInv, QueueNodes
  <2>9. \A i \in 1..Len(fq), j \in 1..Len(batch') : fq[i] # batch'[j]
    BY <1>a, <2>6 DEF IInv, QueueNodes
  <2> QED
    BY <2>2, <2>3, <2>4, <2>5, <2>7, <2>8, <2>9 DEF IInv, QueueNodes
<1>8. ClaimsPlaced'
  <2>1. \A g \in Frames : OnQueue(g) /\ g # f => OnQueue(g)'
    <3> SUFFICES ASSUME NEW g \in Frames, OnQueue(g), g # f
                 PROVE  OnQueue(g)'
      OBVIOUS
    <3>1. CASE \E i \in 1..Len(fq) : fq[i] = g
      BY <3>1, <1>e DEF OnQueue
    <3>2. CASE \E i \in 1..Len(batch) : batch[i] = g
      <4>1. PICK i \in 1..Len(batch) : batch[i] = g
        BY <3>2
      <4>2. i # 1 /\ i - 1 \in 1..Len(batch') /\ batch'[i - 1] = g
        BY <1>a, <4>1
      <4> QED
        BY <4>2 DEF OnQueue
    <3> QED
      BY <3>1, <3>2 DEF OnQueue
  <2> QED
    BY <1>a, <1>d, <1>e, <2>1 DEF IInv, TypeOK, ClaimsPlaced
<1>9. OwnerPlace'
  BY <1>a, <1>b, <1>d, <1>e DEF IInv, TypeOK, OwnerPlace
<1>10. NoLostWake'
  BY <1>e DEF IInv, NoLostWake
<1> QED
  BY <1>1, <1>2, <1>3, <1>4, <1>5, <1>6, <1>7, <1>8, <1>9, <1>10 DEF IInv

(* The ready queue is popped. *)
LEMMA Inv_run_ready ==
  ASSUME IInv, run_ready
  PROVE  IInv'
<1>1. TypeOK'
  BY TailFacts DEF IInv, TypeOK, run_ready, frameVars, schedVars,
        progVars, hostVars
<1>2. RetainAccounting'
  BY DEF IInv, run_ready, frameVars, schedVars, progVars, hostVars,
        RetainAccounting
<1>3. PendingCredits'
  BY DEF IInv, run_ready, frameVars, schedVars, progVars, hostVars,
        PendingCredits, Unclaimed, Claiming
<1>4. NewFrames'
  BY DEF IInv, run_ready, frameVars, schedVars, progVars, hostVars,
        NewFrames
<1>5. Retains'
  BY DEF IInv, run_ready, frameVars, schedVars, progVars, hostVars, Retains
<1>6. ClaimHolders'
  BY DEF IInv, run_ready, frameVars, schedVars, progVars, hostVars,
        ClaimHolders, OnQueue
<1>7. QueueNodes'
  BY DEF IInv, run_ready, frameVars, schedVars, progVars, hostVars,
        QueueNodes
<1>8. ClaimsPlaced'
  BY DEF IInv, run_ready, frameVars, schedVars, progVars, hostVars,
        ClaimsPlaced, OnQueue
<1>9. OwnerPlace'
  BY NoFrameFresh DEF IInv, run_ready, frameVars, schedVars, progVars,
        hostVars, TypeOK, OwnerPlace, NewFrames, Retains
<1>10. NoLostWake'
  BY NoFrameFresh DEF IInv, run_ready, frameVars, schedVars, progVars,
        hostVars, TypeOK, NoLostWake
<1> QED
  BY <1>1, <1>2, <1>3, <1>4, <1>5, <1>6, <1>7, <1>8, <1>9, <1>10 DEF IInv

(* The exit test of the run loop. *)
LEMMA Inv_run_loop_check ==
  ASSUME IInv, run_loop_check
  PROVE  IInv'
<1>1. TypeOK'
  BY NoFrameFresh DEF IInv, run_loop_check, frameVars, schedVars, progVars,
        hostVars, TypeOK, RetainAccounting, Count, NewFrames, Retains
<1>2. RetainAccounting'
  BY DEF IInv, run_loop_check, frameVars, schedVars, progVars, hostVars,
        RetainAccounting
<1>3. PendingCredits'
  BY DEF IInv, run_loop_check, frameVars, schedVars, progVars, hostVars,
        PendingCredits, Unclaimed, Claiming
<1>4. NewFrames'
  BY DEF IInv, run_loop_check, frameVars, schedVars, progVars, hostVars,
        NewFrames
<1>5. Retains'
  BY DEF IInv, run_loop_check, frameVars, schedVars, progVars, hostVars,
        Retains
<1>6. ClaimHolders'
  BY DEF IInv, run_loop_check, frameVars, schedVars, progVars, hostVars,
        ClaimHolders, OnQueue
<1>7. QueueNodes'
  BY DEF IInv, run_loop_check, frameVars, schedVars, progVars, hostVars,
        QueueNodes
<1>8. ClaimsPlaced'
  BY DEF IInv, run_loop_check, frameVars, schedVars, progVars, hostVars,
        ClaimsPlaced, OnQueue
<1>9. OwnerPlace'
  BY NoFrameFresh DEF IInv, run_loop_check, frameVars, schedVars, progVars,
        hostVars, TypeOK, OwnerPlace, NewFrames, Retains
<1>10. NoLostWake'
  BY NoFrameFresh DEF IInv, run_loop_check, frameVars, schedVars, progVars,
        hostVars, TypeOK, NoLostWake
<1> QED
  BY <1>1, <1>2, <1>3, <1>4, <1>5, <1>6, <1>7, <1>8, <1>9, <1>10 DEF IInv

(* The owner blocks. *)
LEMMA Inv_scheduler_park ==
  ASSUME IInv, scheduler_park
  PROVE  IInv'
<1>1. TypeOK'
  BY NoFrameFresh DEF IInv, scheduler_park, frameVars, progVars, hostVars,
        TypeOK, RetainAccounting, Count, NewFrames, Retains
<1>2. RetainAccounting'
  BY DEF IInv, scheduler_park, frameVars, progVars, hostVars,
        RetainAccounting
<1>3. PendingCredits'
  BY DEF IInv, scheduler_park, frameVars, progVars, hostVars,
        PendingCredits, Unclaimed, Claiming
<1>4. NewFrames'
  BY DEF IInv, scheduler_park, frameVars, progVars, hostVars, NewFrames
<1>5. Retains'
  BY DEF IInv, scheduler_park, frameVars, progVars, hostVars, Retains
<1>6. ClaimHolders'
  BY DEF IInv, scheduler_park, frameVars, progVars, hostVars, ClaimHolders,
        OnQueue
<1>7. QueueNodes'
  BY DEF IInv, scheduler_park, frameVars, progVars, hostVars, QueueNodes
<1>8. ClaimsPlaced'
  BY DEF IInv, scheduler_park, frameVars, progVars, hostVars, ClaimsPlaced,
        OnQueue
<1>9. OwnerPlace'
  BY NoFrameFresh DEF IInv, scheduler_park, frameVars, progVars, hostVars,
        TypeOK, OwnerPlace, NewFrames, Retains
<1>10. NoLostWake'
  BY NoFrameFresh DEF IInv, scheduler_park, frameVars, progVars, hostVars,
        TypeOK, NoLostWake
<1> QED
  BY <1>1, <1>2, <1>3, <1>4, <1>5, <1>6, <1>7, <1>8, <1>9, <1>10 DEF IInv

(* The owner does not block. *)
LEMMA Inv_skip_park ==
  ASSUME IInv, skip_park
  PROVE  IInv'
<1>1. TypeOK'
  BY NoFrameFresh DEF IInv, skip_park, frameVars, schedVars, progVars,
        hostVars, TypeOK, RetainAccounting, Count, NewFrames, Retains
<1>2. RetainAccounting'
  BY DEF IInv, skip_park, frameVars, schedVars, progVars, hostVars,
        RetainAccounting
<1>3. PendingCredits'
  BY DEF IInv, skip_park, frameVars, schedVars, progVars, hostVars,
        PendingCredits, Unclaimed, Claiming
<1>4. NewFrames'
  BY DEF IInv, skip_park, frameVars, schedVars, progVars, hostVars,
        NewFrames
<1>5. Retains'
  BY DEF IInv, skip_park, frameVars, schedVars, progVars, hostVars, Retains
<1>6. ClaimHolders'
  BY DEF IInv, skip_park, frameVars, schedVars, progVars, hostVars,
        ClaimHolders, OnQueue
<1>7. QueueNodes'
  BY DEF IInv, skip_park, frameVars, schedVars, progVars, hostVars,
        QueueNodes
<1>8. ClaimsPlaced'
  BY DEF IInv, skip_park, frameVars, schedVars, progVars, hostVars,
        ClaimsPlaced, OnQueue
<1>9. OwnerPlace'
  BY NoFrameFresh DEF IInv, skip_park, frameVars, schedVars, progVars,
        hostVars, TypeOK, OwnerPlace, NewFrames, Retains
<1>10. NoLostWake'
  BY NoFrameFresh DEF IInv, skip_park, frameVars, schedVars, progVars,
        hostVars, TypeOK, NoLostWake
<1> QED
  BY <1>1, <1>2, <1>3, <1>4, <1>5, <1>6, <1>7, <1>8, <1>9, <1>10 DEF IInv

(* The owner wakes up. *)
LEMMA Inv_Wake ==
  ASSUME IInv, Wake
  PROVE  IInv'
<1>1. TypeOK'
  BY NoFrameFresh DEF IInv, Wake, frameVars, progVars, hostVars, TypeOK,
        RetainAccounting, Count, NewFrames, Retains
<1>2. RetainAccounting'
  BY DEF IInv, Wake, frameVars, progVars, hostVars, RetainAccounting
<1>3. PendingCredits'
  BY DEF IInv, Wake, frameVars, progVars, hostVars, PendingCredits,
        Unclaimed, Claiming
<1>4. NewFrames'
  BY DEF IInv, Wake, frameVars, progVars, hostVars, NewFrames
<1>5. Retains'
  BY DEF IInv, Wake, frameVars, progVars, hostVars, Retains
<1>6. ClaimHolders'
  BY DEF IInv, Wake, frameVars, progVars, hostVars, ClaimHolders, OnQueue
<1>7. QueueNodes'
  BY DEF IInv, Wake, frameVars, progVars, hostVars, QueueNodes
<1>8. ClaimsPlaced'
  BY DEF IInv, Wake, frameVars, progVars, hostVars, ClaimsPlaced, OnQueue
<1>9. OwnerPlace'
  BY NoFrameFresh DEF IInv, Wake, frameVars, progVars, hostVars, TypeOK,
        OwnerPlace, NewFrames, Retains
<1>10. NoLostWake'
  BY NoFrameFresh DEF IInv, Wake, frameVars, progVars, hostVars, TypeOK,
        NoLostWake
<1> QED
  BY <1>1, <1>2, <1>3, <1>4, <1>5, <1>6, <1>7, <1>8, <1>9, <1>10 DEF IInv

(* The owner wakes up for nothing. *)
LEMMA Inv_SpuriousWake ==
  ASSUME IInv, SpuriousWake
  PROVE  IInv'
<1>1. TypeOK'
  BY NoFrameFresh DEF IInv, SpuriousWake, frameVars, progVars, hostVars,
        TypeOK, RetainAccounting, Count, NewFrames, Retains
<1>2. RetainAccounting'
  BY DEF IInv, SpuriousWake, frameVars, progVars, hostVars, RetainAccounting
<1>3. PendingCredits'
  BY DEF IInv, SpuriousWake, frameVars, progVars, hostVars, PendingCredits,
        Unclaimed, Claiming
<1>4. NewFrames'
  BY DEF IInv, SpuriousWake, frameVars, progVars, hostVars, NewFrames
<1>5. Retains'
  BY DEF IInv, SpuriousWake, frameVars, progVars, hostVars, Retains
<1>6. ClaimHolders'
  BY DEF IInv, SpuriousWake, frameVars, progVars, hostVars, ClaimHolders,
        OnQueue
<1>7. QueueNodes'
  BY DEF IInv, SpuriousWake, frameVars, progVars, hostVars, QueueNodes
<1>8. ClaimsPlaced'
  BY DEF IInv, SpuriousWake, frameVars, progVars, hostVars, ClaimsPlaced,
        OnQueue
<1>9. OwnerPlace'
  BY NoFrameFresh DEF IInv, SpuriousWake, frameVars, progVars, hostVars,
        TypeOK, OwnerPlace, NewFrames, Retains
<1>10. NoLostWake'
  BY NoFrameFresh DEF IInv, SpuriousWake, frameVars, progVars, hostVars,
        TypeOK, NoLostWake
<1> QED
  BY <1>1, <1>2, <1>3, <1>4, <1>5, <1>6, <1>7, <1>8, <1>9, <1>10 DEF IInv

(* A due timer completes its frame. *)
LEMMA Inv_fire_timer ==
  ASSUME IInv, NEW f \in Frames, fire_timer(f)
  PROVE  IInv'
<1>a. /\ status[f] = 0 /\ started[f] = 1 /\ scheduler[f] = "null"
      /\ rc[f] \in Nat /\ rc[f] >= 1
  BY RcPositive, NoFrameFresh DEF IInv, TypeOK, Retains, OwnerPlace, fire_timer
<1>b. /\ status' = [status EXCEPT ![f] = 1]
      /\ result' = [result EXCEPT ![f] = TRUE]
      /\ waker' = [waker EXCEPT ![f] = FALSE]
      /\ started' = [started EXCEPT ![f] = 2]
      /\ rc' = [rc EXCEPT ![f] = @ - 1]
      /\ timers' = timers \ {f}
      /\ rq' \in Seq(Frames)
  <2>1. rq \in Seq(Frames) /\ dream_enqueue(f) \in Seq(Frames)
    BY EnqueueType DEF IInv, TypeOK
  <2> QED
    BY <1>a, <2>1 DEF fire_timer, dream_async_complete, WakeAndDrop,
       scheduler_drop_start_retain
<1>c. /\ pc = "timers"
      /\ UNCHANGED <<scheduler, pending, fq, parked, hook, hookEvent, pc, cur,
                     cancelling, batch, task, slot, pin, calls, cpc, cf>>
  BY DEF fire_timer, schedVars, progVars, hostVars
<1>1. TypeOK'
  BY <1>a, <1>b, <1>c DEF IInv, TypeOK
<1>2. RetainAccounting'
  BY <1>a, <1>b, <1>c DEF IInv, TypeOK, RetainAccounting, Count
<1>3. PendingCredits'
  BY <1>a, <1>b, <1>c DEF IInv, TypeOK, PendingCredits, Unclaimed, Claiming
<1>4. NewFrames'
  BY <1>a, <1>b, <1>c DEF IInv, TypeOK, NewFrames
<1>5. Retains'
  BY <1>a, <1>b, <1>c DEF IInv, TypeOK, Retains
<1>6. ClaimHolders'
  BY NoFrameFresh, <1>a, <1>b, <1>c DEF IInv, TypeOK, ClaimHolders, OnQueue
<1>7. QueueNodes'
  <2>1. \A g \in Frames : g # f => status'[g] = status[g]
    BY <1>b DEF IInv, TypeOK
  <2>2. \A i \in 1..Len(fq) : fq[i] \in Frames /\ fq[i] # f
    BY <1>a, SeqFacts DEF IInv, TypeOK, QueueNodes
  <2>3. \A i \in 1..Len(batch) : batch[i] \in Frames /\ batch[i] # f
    BY <1>a, SeqFacts DEF IInv, TypeOK, QueueNodes
  <2> QED
    BY <1>c, <2>1, <2>2, <2>3 DEF IInv, QueueNodes
<1>8. ClaimsPlaced'
  BY <1>a, <1>b, <1>c DEF IInv, TypeOK, ClaimsPlaced, OnQueue
<1>9. OwnerPlace'
  BY NoFrameFresh, <1>a, <1>b, <1>c DEF IInv, TypeOK, OwnerPlace
<1>10. NoLostWake'
  BY <1>a, <1>b, <1>c DEF IInv, TypeOK, NoLostWake
<1> QED
  BY <1>1, <1>2, <1>3, <1>4, <1>5, <1>6, <1>7, <1>8, <1>9, <1>10 DEF IInv

(* Back to the top of the loop. *)
LEMMA Inv_timers_done ==
  ASSUME IInv, timers_done
  PROVE  IInv'
<1>1. TypeOK'
  BY NoFrameFresh DEF IInv, timers_done, frameVars, schedVars, progVars,
        hostVars, TypeOK, RetainAccounting, Count, NewFrames, Retains
<1>2. RetainAccounting'
  BY DEF IInv, timers_done, frameVars, schedVars, progVars, hostVars,
        RetainAccounting
<1>3. PendingCredits'
  BY DEF IInv, timers_done, frameVars, schedVars, progVars, hostVars,
        PendingCredits, Unclaimed, Claiming
<1>4. NewFrames'
  BY DEF IInv, timers_done, frameVars, schedVars, progVars, hostVars,
        NewFrames
<1>5. Retains'
  BY DEF IInv, timers_done, frameVars, schedVars, progVars, hostVars,
        Retains
<1>6. ClaimHolders'
  BY DEF IInv, timers_done, frameVars, schedVars, progVars, hostVars,
        ClaimHolders, OnQueue
<1>7. QueueNodes'
  BY DEF IInv, timers_done, frameVars, schedVars, progVars, hostVars,
        QueueNodes
<1>8. ClaimsPlaced'
  BY DEF IInv, timers_done, frameVars, schedVars, progVars, hostVars,
        ClaimsPlaced, OnQueue
<1>9. OwnerPlace'
  BY NoFrameFresh DEF IInv, timers_done, frameVars, schedVars, progVars,
        hostVars, TypeOK, OwnerPlace, NewFrames, Retains
<1>10. NoLostWake'
  BY NoFrameFresh DEF IInv, timers_done, frameVars, schedVars, progVars,
        hostVars, TypeOK, NoLostWake
<1> QED
  BY <1>1, <1>2, <1>3, <1>4, <1>5, <1>6, <1>7, <1>8, <1>9, <1>10 DEF IInv

(* A host thread claims a frame, or is too late. *)
LEMMA Inv_complete_foreign_claim ==
  ASSUME IInv, NEW c \in Completers, NEW f \in Frames, complete_foreign_claim(c, f)
  PROVE  IInv'
<1>a. cf[c] = NoFrame /\ calls[f] \in 1..2
  BY DEF IInv, TypeOK, ClaimHolders, complete_foreign_claim
<1>b. \/ /\ scheduler[f] = "owner"
         /\ scheduler' = [scheduler EXCEPT ![f] = "claimed"]
         /\ cpc' = [cpc EXCEPT ![c] = "claimed"]
         /\ cf' = [cf EXCEPT ![c] = f]
      \/ scheduler[f] # "owner" /\ UNCHANGED <<scheduler, cpc, cf>>
  BY DEF complete_foreign_claim
<1>c. /\ calls' = [calls EXCEPT ![f] = @ - 1]
      /\ UNCHANGED <<status, started, result, waker, rc, pending, fq, parked,
                     hook, hookEvent, pc, cur, cancelling, batch, rq, timers,
                     task, slot, pin>>
  BY DEF complete_foreign_claim, schedVars, ownerVars
<1>1. TypeOK'
  <2>1. calls' \in [Frames -> 0..2]
    BY <1>a, <1>c DEF IInv, TypeOK
  <2>2. /\ scheduler' \in [Frames -> {"null", "owner", "claimed"}]
        /\ cpc' \in [Completers -> {"idle", "claimed", "write", "publish", "queue"}]
        /\ cf' \in [Completers -> Frames \cup {NoFrame}]
    <3>1. CASE scheduler[f] = "owner"
      <4>1. /\ scheduler' = [scheduler EXCEPT ![f] = "claimed"]
            /\ cpc' = [cpc EXCEPT ![c] = "claimed"] /\ cf' = [cf EXCEPT ![c] = f]
        BY <1>b, <3>1
      <4>2. scheduler' \in [Frames -> {"null", "owner", "claimed"}]
        BY <4>1 DEF IInv, TypeOK
      <4>3. cpc' \in [Completers -> {"idle", "claimed", "write", "publish", "queue"}]
        BY <4>1 DEF IInv, TypeOK
      <4>4. cf' \in [Completers -> Frames \cup {NoFrame}]
        BY <4>1 DEF IInv, TypeOK
      <4> QED
        BY <4>2, <4>3, <4>4
    <3>2. CASE scheduler[f] # "owner"
      BY <1>b, <3>2 DEF IInv, TypeOK
    <3> QED
      BY <3>1, <3>2
  <2> QED
    BY <1>c, <2>1, <2>2 DEF IInv, TypeOK
<1>2. RetainAccounting'
  BY <1>c DEF IInv, RetainAccounting
<1>3. PendingCredits'
  <2>1. CASE scheduler[f] = "owner"
    <3>1. f \in Unclaimed /\ Unclaimed' = Unclaimed \ {f}
      BY <1>b, <2>1 DEF IInv, TypeOK, Unclaimed
    <3>2. c \notin Claiming /\ Claiming' = Claiming \cup {c}
      BY <1>a, <1>b, <2>1, NoFrameFresh DEF IInv, TypeOK, Claiming
    <3>3. pending' = pending
      BY <1>c
    <3>4. Cardinality(Unclaimed \ {f}) = Cardinality(Unclaimed) - 1
      BY <3>1, CreditSets, FS_RemoveElement
    <3>5. Cardinality(Claiming \cup {c}) = Cardinality(Claiming) + 1
      BY <3>2, CreditSets, FS_AddElement
    <3> QED
      BY <3>1, <3>2, <3>3, <3>4, <3>5, CreditSets DEF IInv, PendingCredits
  <2>2. CASE scheduler[f] # "owner"
    BY <1>b, <1>c, <2>2 DEF IInv, PendingCredits, Unclaimed, Claiming
  <2> QED
    BY <2>1, <2>2
<1>4. NewFrames'
  BY <1>a, <1>b, <1>c DEF IInv, TypeOK, NewFrames
<1>5. Retains'
  BY <1>a, <1>b, <1>c DEF IInv, TypeOK, Retains
<1>6. ClaimHolders'
  <2>1. \A g : OnQueue(g)' <=> OnQueue(g)
    BY <1>c DEF OnQueue
  <2>2. ASSUME scheduler[f] = "owner" PROVE ~OnQueue(f)
    BY <2>2 DEF IInv, QueueNodes, OnQueue
  <2>3. ASSUME scheduler[f] = "owner" PROVE \A d \in Completers : cf[d] # f
    BY <2>3, NoFrameFresh DEF IInv, ClaimHolders
  <2>4. CASE scheduler[f] = "owner"
    <3>1. \A d \in Completers : cf'[d] = IF d = c THEN f ELSE cf[d]
      BY <1>b, <2>4 DEF IInv, TypeOK
    <3>2. \A d \in Completers : cpc'[d] = IF d = c THEN "claimed" ELSE cpc[d]
      BY <1>b, <2>4 DEF IInv, TypeOK
    <3>3. \A g \in Frames : scheduler'[g] = IF g = f THEN "claimed" ELSE scheduler[g]
      BY <1>b, <2>4 DEF IInv, TypeOK
    <3>4. \A d \in Completers : cf[d] \in Frames \cup {NoFrame}
      BY DEF IInv, TypeOK
    <3>5. UNCHANGED status
      BY <1>c
    <3> QED
      BY <1>a, <2>1, <2>2, <2>3, <2>4, <3>1, <3>2, <3>3, <3>4, <3>5, NoFrameFresh
         DEF IInv, ClaimHolders
  <2>5. CASE scheduler[f] # "owner"
    BY <1>b, <1>c, <2>1, <2>5 DEF IInv, ClaimHolders
  <2> QED
    BY <2>4, <2>5
<1>7. QueueNodes'
  BY <1>b, <1>c, SeqFacts DEF IInv, TypeOK, QueueNodes
<1>8. ClaimsPlaced'
  <2>1. \A g : OnQueue(g)' <=> OnQueue(g)
    BY <1>c DEF OnQueue
  <2> QED
    BY <1>a, <1>b, <2>1, NoFrameFresh DEF IInv, TypeOK, ClaimsPlaced
<1>9. OwnerPlace'
  BY <1>c DEF IInv, OwnerPlace
<1>10. NoLostWake'
  BY <1>c DEF IInv, NoLostWake
<1> QED
  BY <1>1, <1>2, <1>3, <1>4, <1>5, <1>6, <1>7, <1>8, <1>9, <1>10 DEF IInv

(* The claimer reads the status. *)
LEMMA Inv_complete_foreign_check ==
  ASSUME IInv, NEW c \in Completers, complete_foreign_check(c)
  PROVE  IInv'
<1>1. TypeOK'
  BY NoFrameFresh DEF IInv, complete_foreign_check, frameVars, schedVars,
        ownerVars, progVars, TypeOK, RetainAccounting, Count, NewFrames,
        Retains
<1>2. RetainAccounting'
  BY DEF IInv, complete_foreign_check, frameVars, schedVars, ownerVars,
        progVars, RetainAccounting
<1>3. PendingCredits'
  BY DEF IInv, complete_foreign_check, frameVars, schedVars, ownerVars,
        progVars, PendingCredits, Unclaimed, Claiming
<1>4. NewFrames'
  BY DEF IInv, complete_foreign_check, frameVars, schedVars, ownerVars,
        progVars, NewFrames
<1>5. Retains'
  BY DEF IInv, complete_foreign_check, frameVars, schedVars, ownerVars,
        progVars, Retains
<1>6. ClaimHolders'
  BY NoFrameFresh DEF IInv, complete_foreign_check, frameVars, schedVars,
        ownerVars, progVars, TypeOK, ClaimHolders, OnQueue, NewFrames,
        Retains
<1>7. QueueNodes'
  BY DEF IInv, complete_foreign_check, frameVars, schedVars, ownerVars,
        progVars, QueueNodes
<1>8. ClaimsPlaced'
  BY DEF IInv, complete_foreign_check, frameVars, schedVars, ownerVars,
        progVars, ClaimsPlaced, OnQueue
<1>9. OwnerPlace'
  BY DEF IInv, complete_foreign_check, frameVars, schedVars, ownerVars,
        progVars, OwnerPlace
<1>10. NoLostWake'
  BY DEF IInv, complete_foreign_check, frameVars, schedVars, ownerVars,
        progVars, NoLostWake
<1> QED
  BY <1>1, <1>2, <1>3, <1>4, <1>5, <1>6, <1>7, <1>8, <1>9, <1>10 DEF IInv

(* The claimer writes the result. *)
LEMMA Inv_complete_foreign_write ==
  ASSUME IInv, NEW c \in Completers, complete_foreign_write(c)
  PROVE  IInv'
<1>1. TypeOK'
  BY NoFrameFresh DEF IInv, complete_foreign_write, schedVars, ownerVars,
        progVars, TypeOK, RetainAccounting, Count, NewFrames, Retains
<1>2. RetainAccounting'
  BY DEF IInv, complete_foreign_write, schedVars, ownerVars, progVars,
        RetainAccounting
<1>3. PendingCredits'
  BY DEF IInv, complete_foreign_write, schedVars, ownerVars, progVars,
        PendingCredits, Unclaimed, Claiming
<1>4. NewFrames'
  BY DEF IInv, complete_foreign_write, schedVars, ownerVars, progVars,
        NewFrames
<1>5. Retains'
  BY DEF IInv, complete_foreign_write, schedVars, ownerVars, progVars,
        Retains
<1>6. ClaimHolders'
  BY NoFrameFresh DEF IInv, complete_foreign_write, schedVars, ownerVars,
        progVars, TypeOK, ClaimHolders, OnQueue, NewFrames, Retains
<1>7. QueueNodes'
  BY DEF IInv, complete_foreign_write, schedVars, ownerVars, progVars,
        QueueNodes
<1>8. ClaimsPlaced'
  BY DEF IInv, complete_foreign_write, schedVars, ownerVars, progVars,
        ClaimsPlaced, OnQueue
<1>9. OwnerPlace'
  BY DEF IInv, complete_foreign_write, schedVars, ownerVars, progVars,
        OwnerPlace
<1>10. NoLostWake'
  BY DEF IInv, complete_foreign_write, schedVars, ownerVars, progVars,
        NoLostWake
<1> QED
  BY <1>1, <1>2, <1>3, <1>4, <1>5, <1>6, <1>7, <1>8, <1>9, <1>10 DEF IInv

(* The claimer publishes the status, or takes its result back. *)
LEMMA Inv_complete_foreign_publish ==
  ASSUME IInv, NEW c \in Completers, complete_foreign_publish(c)
  PROVE  IInv'
<1>a. /\ cf[c] \in Frames /\ scheduler[cf[c]] = "claimed"
      /\ started[cf[c]] = 1 /\ cf[c] \notin timers /\ task[cf[c]] # "new"
  BY DEF IInv, TypeOK, ClaimHolders, Retains, NewFrames, complete_foreign_publish
<1>1. TypeOK'
  BY <1>a DEF IInv, TypeOK, complete_foreign_publish, schedVars, ownerVars,
        progVars
<1>2. RetainAccounting'
  BY DEF IInv, complete_foreign_publish, schedVars, ownerVars, progVars,
        RetainAccounting
<1>3. PendingCredits'
  BY DEF IInv, complete_foreign_publish, schedVars, ownerVars, progVars,
        PendingCredits, Unclaimed, Claiming
<1>4. NewFrames'
  BY <1>a DEF IInv, TypeOK, NewFrames, complete_foreign_publish, ownerVars,
        progVars
<1>5. Retains'
  BY <1>a DEF IInv, TypeOK, Retains, complete_foreign_publish, ownerVars,
        progVars
<1>6. ClaimHolders'
  BY NoFrameFresh DEF IInv, complete_foreign_publish, schedVars, ownerVars,
        progVars, TypeOK, ClaimHolders, OnQueue, NewFrames, Retains
<1>7. QueueNodes'
  BY NoFrameFresh DEF IInv, complete_foreign_publish, schedVars, ownerVars,
        progVars, TypeOK, QueueNodes, NewFrames, Retains
<1>8. ClaimsPlaced'
  BY DEF IInv, complete_foreign_publish, schedVars, ownerVars, progVars,
        ClaimsPlaced, OnQueue
<1>9. OwnerPlace'
  BY NoFrameFresh DEF IInv, complete_foreign_publish, schedVars, ownerVars,
        progVars, TypeOK, OwnerPlace, NewFrames, Retains
<1>10. NoLostWake'
  BY DEF IInv, complete_foreign_publish, schedVars, ownerVars, progVars,
        NoLostWake
<1> QED
  BY <1>1, <1>2, <1>3, <1>4, <1>5, <1>6, <1>7, <1>8, <1>9, <1>10 DEF IInv

(* The claimer queues the frame and returns its credit. *)
LEMMA Inv_complete_foreign_queue ==
  ASSUME IInv, NEW c \in Completers, complete_foreign_queue(c)
  PROVE  IInv'
<1>0. PICK f : f = cf[c]
  OBVIOUS
<1>a. /\ f \in Frames /\ scheduler[f] = "claimed" /\ status[f] # 0
      /\ ~OnQueue(f)
  BY <1>0 DEF IInv, TypeOK, ClaimHolders, complete_foreign_queue
<1>b. /\ pending' = pending - 1
      /\ cpc' = [cpc EXCEPT ![c] = "idle"]
      /\ cf' = [cf EXCEPT ![c] = NoFrame]
      /\ parked' \in BOOLEAN /\ hookEvent' \in BOOLEAN
      /\ UNCHANGED <<scheduler, status, started, result, waker, rc, hook, pc,
                     cur, cancelling, batch, rq, timers, task, slot, pin, calls>>
  BY DEF IInv, TypeOK, complete_foreign_queue, scheduler_signal, frameVars,
     ownerVars, progVars
<1>c. /\ fq' \in Seq(Frames) /\ Len(fq) \in Nat /\ Len(fq') = Len(fq) + 1
      /\ \A i \in 1..Len(fq) : fq'[i] = fq[i]
      /\ fq'[Len(fq) + 1] = f
  <2>1. fq' = Append(fq, f) /\ fq \in Seq(Frames)
    BY <1>0 DEF IInv, TypeOK, complete_foreign_queue
  <2> QED
    BY <1>a, <2>1, AppendFacts, SeqFacts
<1>d. c \in Claiming /\ pending \in Nat /\ pending >= 1
  BY <1>0, <1>a, NoFrameFresh, CreditHeld DEF IInv, Claiming
<1>e. pc # "done"
  BY <1>d DEF IInv, OwnerPlace
<1>1. TypeOK'
  BY <1>b, <1>c, <1>d DEF IInv, TypeOK
<1>2. RetainAccounting'
  BY <1>b DEF IInv, RetainAccounting
<1>3. PendingCredits'
  <2>1. Claiming' = Claiming \ {c}
    BY <1>b DEF IInv, TypeOK, Claiming
  <2>2. Unclaimed' = Unclaimed
    BY <1>b DEF Unclaimed
  <2>3. Cardinality(Claiming \ {c}) = Cardinality(Claiming) - 1
    BY <1>d, CreditSets, FS_RemoveElement
  <2> QED
    BY <2>1, <2>2, <2>3, <1>b, CreditSets DEF IInv, PendingCredits
<1>4. NewFrames'
  BY <1>b DEF IInv, NewFrames
<1>5. Retains'
  BY <1>b DEF IInv, Retains
<1>6. ClaimHolders'
  <2>1. \A g : OnQueue(g)' => OnQueue(g) \/ g = f
    BY <1>b, <1>c DEF OnQueue
  <2>2. \A d \in Completers : d # c => cf[d] # f
    BY <1>0, <1>a, NoFrameFresh DEF IInv, ClaimHolders
  <2>3. \A d \in Completers : cf'[d] = IF d = c THEN NoFrame ELSE cf[d]
    BY <1>b DEF IInv, TypeOK
  <2>4. \A d \in Completers : cpc'[d] = IF d = c THEN "idle" ELSE cpc[d]
    BY <1>b DEF IInv, TypeOK
  <2> QED
    BY <1>b, <2>1, <2>2, <2>3, <2>4 DEF IInv, ClaimHolders
<1>7. QueueNodes'
  <2>1. \A i \in 1..Len(fq) : fq[i] # f
    BY <1>a DEF OnQueue
  <2>2. \A i \in 1..Len(batch) : batch[i] # f
    BY <1>a DEF OnQueue
  <2> QED
    <3>1. \A i \in 1..Len(fq') : i \in 1..Len(fq) \/ i = Len(fq) + 1
      BY <1>c
    <3>2. \A i \in 1..Len(fq') :
            scheduler[fq'[i]] = "claimed" /\ status[fq'[i]] # 0
      BY <1>a, <1>c, <3>1 DEF IInv, QueueNodes
    <3>3. \A i, j \in 1..Len(fq') : fq'[i] = fq'[j] => i = j
      BY <1>c, <2>1, <3>1 DEF IInv, QueueNodes
    <3>4. \A i \in 1..Len(fq'), j \in 1..Len(batch) : fq'[i] # batch[j]
      BY <1>c, <2>2, <3>1 DEF IInv, QueueNodes
    <3> QED
      BY <1>b, <3>2, <3>3, <3>4 DEF IInv, QueueNodes
<1>8. ClaimsPlaced'
  <2>1. \A g \in Frames : OnQueue(g) => OnQueue(g)'
    BY <1>b, <1>c DEF OnQueue
  <2>2. Len(fq) + 1 \in 1..Len(fq')
    BY <1>c
  <2>3. OnQueue(f)'
    BY <1>c, <2>2 DEF OnQueue
  <2>4. \A d \in Completers : d # c => cf'[d] = cf[d]
    BY <1>b DEF IInv, TypeOK
  <2> SUFFICES ASSUME NEW g \in Frames, scheduler'[g] = "claimed"
               PROVE  OnQueue(g)' \/ \E d \in Completers : cf'[d] = g
    BY DEF ClaimsPlaced
  <2>5. CASE g = f
    BY <2>3, <2>5
  <2>6. CASE g # f
    BY <1>0, <1>b, <2>1, <2>4, <2>6 DEF IInv, ClaimsPlaced
  <2> QED
    BY <2>5, <2>6
<1>9. OwnerPlace'
  BY <1>b, <1>e DEF IInv, OwnerPlace
<1>10. NoLostWake'
  BY DEF IInv, TypeOK, NoLostWake, complete_foreign_queue, scheduler_signal,
        ownerVars
<1> QED
  BY <1>1, <1>2, <1>3, <1>4, <1>5, <1>6, <1>7, <1>8, <1>9, <1>10 DEF IInv

(* A callback thread signals. *)
LEMMA Inv_callback_wake ==
  ASSUME IInv, callback_wake
  PROVE  IInv'
<1>1. TypeOK'
  BY NoFrameFresh DEF IInv, callback_wake, frameVars, ownerVars, progVars,
        hostVars, scheduler_signal, TypeOK, RetainAccounting, Count,
        NewFrames, Retains
<1>2. RetainAccounting'
  BY DEF IInv, callback_wake, frameVars, ownerVars, progVars, hostVars,
        RetainAccounting, scheduler_signal
<1>3. PendingCredits'
  BY DEF IInv, callback_wake, frameVars, ownerVars, progVars, hostVars,
        PendingCredits, Unclaimed, Claiming, scheduler_signal
<1>4. NewFrames'
  BY DEF IInv, callback_wake, frameVars, ownerVars, progVars, hostVars,
        NewFrames, scheduler_signal
<1>5. Retains'
  BY DEF IInv, callback_wake, frameVars, ownerVars, progVars, hostVars,
        Retains, scheduler_signal
<1>6. ClaimHolders'
  BY DEF IInv, callback_wake, frameVars, ownerVars, progVars, hostVars,
        ClaimHolders, OnQueue, scheduler_signal
<1>7. QueueNodes'
  BY DEF IInv, callback_wake, frameVars, ownerVars, progVars, hostVars,
        QueueNodes, scheduler_signal
<1>8. ClaimsPlaced'
  BY DEF IInv, callback_wake, frameVars, ownerVars, progVars, hostVars,
        ClaimsPlaced, OnQueue, scheduler_signal
<1>9. OwnerPlace'
  BY DEF IInv, callback_wake, frameVars, ownerVars, progVars, hostVars,
        OwnerPlace, scheduler_signal
<1>10. NoLostWake'
  BY NoFrameFresh DEF IInv, callback_wake, frameVars, ownerVars, progVars,
        hostVars, scheduler_signal, TypeOK, NoLostWake
<1> QED
  BY <1>1, <1>2, <1>3, <1>4, <1>5, <1>6, <1>7, <1>8, <1>9, <1>10 DEF IInv

-----------------------------------------------------------------------------
(* The initial state, and every step. *)
LEMMA InitInv ==
  ASSUME Init
  PROVE  IInv
<1>1. Cardinality(Frames) \in Nat
  BY FramesFinite, FS_CardinalityType
<1>2. rq \in Seq(Frames)
  <2>1. rq \in [1..Cardinality(Frames) -> Frames]
    BY DEF Init
  <2> QED
    BY <1>1, <2>1
<1>3. TypeOK
  <2>1. fq \in Seq(Frames) /\ batch \in Seq(Frames)
    BY DEF Init
  <2>2. /\ scheduler \in [Frames -> {"null", "owner", "claimed"}]
        /\ status \in [Frames -> 0..2] /\ started \in [Frames -> 0..2]
        /\ rc \in [Frames -> Nat] /\ calls \in [Frames -> 0..2]
        /\ task \in [Frames -> {"new", "holding", "waiting", "ended", "cancelled"}]
    BY DEF Init
  <2>3. /\ result \in [Frames -> BOOLEAN] /\ waker \in [Frames -> BOOLEAN]
        /\ slot \in [Frames -> BOOLEAN] /\ pin \in [Frames -> BOOLEAN]
    BY DEF Init
  <2>4. /\ cpc \in [Completers -> {"idle", "claimed", "write", "publish", "queue"}]
        /\ cf \in [Completers -> Frames \cup {NoFrame}]
    BY DEF Init
  <2> QED
    BY <1>2, <2>1, <2>2, <2>3, <2>4 DEF Init, TypeOK
<1>4. RetainAccounting
  BY DEF Init, RetainAccounting, Count
<1>5. PendingCredits
  <2>1. Unclaimed = {} /\ Claiming = {}
    BY DEF Init, Unclaimed, Claiming
  <2> QED
    BY <2>1, FS_EmptySet DEF Init, PendingCredits
<1>6. NewFrames /\ Retains
  BY DEF Init, NewFrames, Retains
<1>7. ClaimHolders /\ QueueNodes /\ ClaimsPlaced
  BY DEF Init, ClaimHolders, QueueNodes, ClaimsPlaced
<1>8. OwnerPlace /\ NoLostWake
  BY DEF Init, OwnerPlace, NoLostWake
<1> QED
  BY <1>3, <1>4, <1>5, <1>6, <1>7, <1>8 DEF IInv

LEMMA StutterInv ==
  ASSUME IInv, UNCHANGED vars
  PROVE  IInv'
<1> USE DEF vars, frameVars, schedVars, ownerVars, progVars, hostVars
<1>1. (TypeOK /\ RetainAccounting /\ NewFrames /\ Retains)'
  BY DEF IInv, TypeOK, RetainAccounting, NewFrames, Retains
<1>2. (ClaimHolders /\ QueueNodes /\ ClaimsPlaced /\ PendingCredits)'
  BY DEF IInv, ClaimHolders, QueueNodes, ClaimsPlaced, OnQueue,
     PendingCredits, Unclaimed, Claiming
<1>3. (OwnerPlace /\ NoLostWake)'
  BY DEF IInv, OwnerPlace, NoLostWake
<1> QED
  BY <1>1, <1>2, <1>3 DEF IInv

LEMMA NextInv ==
  ASSUME IInv, [Next]_vars
  PROVE  IInv'
<1>1. CASE PollStep
  BY <1>1, Inv_dream_foreign_work_begin, Inv_delayMsAsync, Inv_dream_await,
     Inv_ReleaseSlot DEF PollStep
<1>2. CASE Program
  BY <1>2, Inv_dream_event_complete, Inv_dream_cancel, Inv_dream_cancel_task,
     Inv_FreeCancelledTask, Inv_Unpin DEF Program
<1>3. CASE RunLoop
  BY <1>3, Inv_foreign_drain_take, Inv_foreign_drain_node, Inv_run_ready,
     Inv_run_loop_check, Inv_scheduler_park, Inv_skip_park, Inv_Wake,
     Inv_timers_done, Inv_dream_cancel_rest DEF RunLoop
<1>4. CASE \E h \in BOOLEAN : dream_sched_set_park(h)
  BY <1>4, Inv_dream_sched_set_park
<1>5. CASE SpuriousWake
  BY <1>5, Inv_SpuriousWake
<1>6. CASE \E f \in Frames : fire_timer(f)
  BY <1>6, Inv_fire_timer
<1>7. CASE \E c \in Completers, f \in Frames : complete_foreign_claim(c, f)
  BY <1>7, Inv_complete_foreign_claim
<1>8. CASE \E c \in Completers : CompleteStep(c)
  BY <1>8, Inv_complete_foreign_check, Inv_complete_foreign_write,
     Inv_complete_foreign_publish, Inv_complete_foreign_queue DEF CompleteStep
<1>9. CASE callback_wake
  BY <1>9, Inv_callback_wake
<1>10. CASE Terminated \/ UNCHANGED vars
  BY <1>10, StutterInv DEF Terminated
<1> QED
  BY <1>1, <1>2, <1>3, <1>4, <1>5, <1>6, <1>7, <1>8, <1>9, <1>10 DEF Next

(* The conjunction IInv is an inductive invariant of the specification. *)
THEOREM Inductive == Spec => []IInv
<1>1. Init => IInv
  BY InitInv
<1>2. IInv /\ [Next]_vars => IInv'
  BY NextInv
<1> QED
  BY <1>1, <1>2, PTL DEF Spec

(* Every word of a frame, of the scheduler and of the host threads keeps its *)
(* type: no count of async.c or foreign_queue.h goes below zero.             *)
THEOREM TypeCorrect == Spec => []TypeOK
<1>1. IInv => TypeOK
  BY DEF IInv
<1> QED
  BY <1>1, Inductive, PTL

(* The count of every frame is the references that exist, whatever cancel,   *)
(* completion, drain and the host do (scheduler_drop_start_retain).          *)
THEOREM RetainsExact == Spec => []RetainAccounting
<1>1. IInv => RetainAccounting
  BY DEF IInv
<1> QED
  BY <1>1, Inductive, PTL

(* complete_foreign, foreign_drain and fire_timers only touch frames that    *)
(* are still allocated.                                                      *)
THEOREM MemorySafe == Spec => []NoUseAfterFree
<1>1. IInv => NoUseAfterFree
  <2> SUFFICES ASSUME IInv PROVE NoUseAfterFree
    OBVIOUS
  <2>1. \A f \in Frames : slot[f] \/ pin[f] \/ started[f] = 1 => rc[f] > 0
    BY RcPositive DEF IInv
  <2>2. \A f \in Frames : scheduler[f] # "null" => rc[f] > 0
    BY <2>1 DEF IInv, Retains
  <2>3. \A c \in Completers : cf[c] # NoFrame => rc[cf[c]] > 0
    BY <2>2 DEF IInv, TypeOK, ClaimHolders
  <2>4. \A i \in 1..Len(fq) : rc[fq[i]] > 0
    BY <2>2, SeqFacts DEF IInv, TypeOK, QueueNodes
  <2>5. \A i \in 1..Len(batch) : rc[batch[i]] > 0
    BY <2>2, SeqFacts DEF IInv, TypeOK, QueueNodes
  <2>6. \A f \in timers : rc[f] > 0
    BY <2>1 DEF IInv, TypeOK, Retains
  <2>7. \A f \in Frames : calls[f] > 0 => rc[f] > 0
    BY <2>1, <2>2 DEF IInv, Retains
  <2>8. cancelling # NoFrame => rc[cancelling] > 0
    BY <2>1 DEF IInv, TypeOK, OwnerPlace
  <2> QED
    BY <2>3, <2>4, <2>5, <2>6, <2>7, <2>8 DEF NoUseAfterFree
<1> QED
  BY <1>1, Inductive, PTL

(* Both sides of frame ownership: the count is exact, and whatever can reach *)
(* a frame (host thread, queue, timer heap, dream_cancel) holds it alive.    *)
THEOREM FramesOwned == Spec => []FrameOwnership
<1>1. RetainAccounting /\ NoUseAfterFree => FrameOwnership
  BY DEF FrameOwnership
<1> QED
  BY <1>1, RetainsExact, MemorySafe, PTL

(* foreign_pending equals the credits that are out.                          *)
THEOREM CreditsExact == Spec => []PendingCredits
<1>1. IInv => PendingCredits
  BY DEF IInv
<1> QED
  BY <1>1, Inductive, PTL

(* dream_run_loop returns only when no host thread can reach its scheduler   *)
(* any more and every start retain was given back.                           *)
THEOREM ReturnsIdle == Spec => []ReturnsOnlyWhenIdle
<1>1. IInv => ReturnsOnlyWhenIdle
  <2> SUFFICES ASSUME IInv, pc = "done" PROVE ReturnsOnlyWhenIdle
    BY DEF ReturnsOnlyWhenIdle
  <2>1. /\ timers = {} /\ fq = <<>> /\ pending = 0 /\ rq = <<>> /\ batch = <<>>
    BY DEF IInv, OwnerPlace
  <2>2. Unclaimed = {} /\ Claiming = {}
    <3>1. Cardinality(Unclaimed) = 0 /\ Cardinality(Claiming) = 0
      BY <2>1, CreditSets DEF IInv, PendingCredits
    <3> QED
      BY <3>1, CreditSets, FS_EmptySet
  <2>3. \A c \in Completers : cpc[c] = "idle" /\ cf[c] = NoFrame
    BY <2>2 DEF IInv, ClaimHolders, Claiming
  <2>4. \A f \in Frames : ~OnQueue(f)
    BY <2>1 DEF OnQueue
  <2>5. \A f \in Frames : scheduler[f] = "null"
    BY <2>2, <2>3, <2>4, NoFrameFresh DEF IInv, TypeOK, ClaimsPlaced, Unclaimed
  <2>6. \A f \in Frames : started[f] # 1
    BY <2>1, <2>5 DEF IInv, Retains
  <2> QED
    BY <2>1, <2>3, <2>5, <2>6 DEF ReturnsOnlyWhenIdle
<1> QED
  BY <1>1, Inductive, PTL

(* foreign_pending counts the host work exactly, so foreign_outstanding      *)
(* keeps dream_run_loop going until no host thread can reach its scheduler.  *)
THEOREM LoopKept == Spec => []CreditsKeepLoop
<1>1. PendingCredits /\ ReturnsOnlyWhenIdle => CreditsKeepLoop
  BY DEF CreditsKeepLoop
<1> QED
  BY <1>1, CreditsExact, ReturnsIdle, PTL

(* scheduler_park never sleeps on a queued completion.                       *)
THEOREM WakeNotLost == Spec => []NoLostWake
<1>1. IInv => NoLostWake
  BY DEF IInv
<1> QED
  BY <1>1, Inductive, PTL

=============================================================================
