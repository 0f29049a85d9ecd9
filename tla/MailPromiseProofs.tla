-------------------------- MODULE MailPromiseProofs -------------------------
(***************************************************************************)
(* The bookkeeping of the scheduler, for any rows, slots, actors, limits   *)
(* and numbers of faults of the kinds each theorem admits:                 *)
(*   - NoJobEndsEarly: a job is completed only when its mail was accepted, *)
(*     and given up only when it may be, in any interleaving;              *)
(*   - FailedIsFinal: a row shown as failed is not sent, in any            *)
(*     interleaving, as long as Redis and the locks last;                  *)
(*   - under Orderly (each actor has written its row before the job moves, *)
(*     no crash meets a rejected write, and a rejected write has done      *)
(*     nothing): ReplaysOnlyInWindow;                                      *)
(*   - if besides jobs stall no more often than maxStalledCount:           *)
(*     TerminalIsFinal, NothingOrphaned and PromiseKept, the safety part   *)
(*     of the refinement of MailPromise.                                   *)
(* What they rest on is Books: how the status of a row, the state of its   *)
(* job, the slot that holds it and the actors that read it fit together.   *)
(***************************************************************************)
EXTENDS MailBooks, EmailSchedulerProofs

----------------------------------------------------------------------------
(* The lock and the slot that holds it *)

\* LockKept is inductive, whatever faults happen.
LEMMA LockKeptStep == TypeOK /\ LockKept /\ [Next]_vars => LockKept'
<1> SUFFICES ASSUME TypeOK, LockKept, [Next]_vars PROVE LockKept'
  OBVIOUS
<1> USE SlotsAssumption, RowsAssumption DEF TypeOK, LockKept, rowVars, queueVars, slotVars, actorVars, histVars
<1>1. ASSUME UNCHANGED <<pc, on>>,
             \A r \in Rows : \/ lock'[r] = NoSlot
                             \/ lock'[r] = lock[r] /\ (jobState[r] = "active" => jobState'[r] = "active")
      PROVE  LockKept'
  BY <1>1
<1>2. ASSUME NEW a \in Actors, ActorAction(a) PROVE LockKept'
  BY <1>1, <1>2 DEF ActorAction, RequestStep, CommitBatch, EnqueueStep, MarkQueued, AddOk, QueueAdd,
     Exists, SweepStep, ReadPending, ReadQueued, InspectDone, ReadStuck, Probe, ResetDone, Inspect,
     ResetRow, Abandon, InspectTimeout, AddTimeout
<1>3. ASSUME NEW q \in Rows, RowAction(q) PROVE LockKept'
  BY <1>1, <1>3 DEF RowAction, RecordFailed, Promote, Stalled, LateAdd, QueueAdd, Exists, Age, LoseFailed,
     AgeSlowly
<1>4. ASSUME NEW s \in Slots, NEW r \in Rows, Claim(s, r) PROVE LockKept'
  BY <1>4 DEF Claim, At
<1>5. CASE RedisLoss \/ \E r \in Rows : LoseLock(r)
  BY <1>1, <1>5 DEF RedisLoss, LoseLock
<1>6. ASSUME NEW s \in Slots, SlotStep(s)  PROVE LockKept'
  <2>1. CASE ReadRow(s) \/ ReserveGranted(s) \/ ReserveBlocked(s) \/ Recheck(s) \/ MarkProcessing(s)
             \/ SendOk(s) \/ SendFails(s) \/ RecordSent(s)
    BY <2>1 DEF ReadRow, ReserveGranted, ReserveBlocked, Recheck, MarkProcessing, SendOk, SendFails,
                RecordSent, GoTo, At
  <2>2. CASE DeferJob(s) \/ DeferRow(s)
    BY <2>2 DEF DeferJob, DeferRow, Leave, GoTo, At
  <2>3. CASE Complete(s)
    BY <2>3 DEF Complete, Leave, Release, At
  <2>4. CASE Fail(s)
    BY <2>4 DEF Fail, Leave, Release, At
  <2>5. CASE GiveUp(s)
    BY <2>5 DEF GiveUp, Leave, Release, At
  <2> QED
    BY <1>6, <2>1, <2>2, <2>3, <2>4, <2>5 DEF SlotStep
<1>7. ASSUME NEW s \in Slots, DbError(s) \/ DbLosesReply(s) \/ SendLosesReply(s) \/ CrashSlot(s)  PROVE LockKept'
  BY <1>7 DEF DbError, DbLosesReply, SendLosesReply, CrashSlot, GoTo, Release, At
<1>8. CASE UNCHANGED vars
  BY <1>8 DEF vars
<1> QED
  BY <1>2, <1>3, <1>4, <1>5, <1>6, <1>7, <1>8, StepCases

\* LockKept holds in every reachable state of every instance.
LEMMA LocksKept == Spec => []LockKept
<1>1. Init => LockKept
  BY DEF Init, LockKept
<1> QED
  BY <1>1, TypeCorrect, LockKeptStep, PTL DEF Spec

----------------------------------------------------------------------------
(* No job is finished too early *)

\* A job that BullMQ counts as completed has had its message accepted, and one it
\* counts as failed has no attempt left or has stalled too often: a mail is
\* neither dropped by a return of processJob nor given up before its time.
JobsEndInTime ==
    \A r \in Rows :
        /\ jobState[r] = "completed" => sends[r] >= 1
        /\ jobState[r] = "failed" => made[r] >= MaxAttempts \/ stalls[r] > MaxStalledCount

\* A slot that will finish a job it holds has the same reason.
EndsInTime ==
    \A s \in Slots : pc[s] # "idle" /\ lock[on[s]] = s =>
        /\ pc[s] = "complete" => sends[on[s]] >= 1
        /\ pc[s] = "giveUp" => stalls[on[s]] > MaxStalledCount

\* JobsEndInTime is inductive with the reasons of the slots, whatever faults happen.
LEMMA EndsInTimeStep ==
    TypeOK /\ LockKept /\ Delivered /\ EndsInTime /\ JobsEndInTime /\ [Next]_vars
    => EndsInTime' /\ JobsEndInTime'
<1> SUFFICES ASSUME TypeOK, LockKept, Delivered, EndsInTime, JobsEndInTime, [Next]_vars
             PROVE  EndsInTime' /\ JobsEndInTime'
  OBVIOUS
<1> USE SlotsAssumption, RowsAssumption, LimitsAssumption
    DEF TypeOK, EndsInTime, JobsEndInTime, rowVars, queueVars, slotVars, actorVars, histVars
<1>1. ASSUME UNCHANGED <<pc, on, sends, made>>,
             \A r \in Rows : /\ stalls'[r] \in Nat
                             /\ lock'[r] = lock[r] \/ lock'[r] = NoSlot
                             /\ lock'[r] # NoSlot => stalls'[r] >= stalls[r]
                             /\ jobState'[r] \in {"completed", "failed"}
                                  => jobState'[r] = jobState[r] /\ stalls'[r] >= stalls[r]
      PROVE  EndsInTime' /\ JobsEndInTime'
  BY <1>1
<1>2. ASSUME NEW a \in Actors, ActorAction(a)  PROVE EndsInTime' /\ JobsEndInTime'
  BY <1>1, <1>2 DEF ActorAction, RequestStep, CommitBatch, EnqueueStep, MarkQueued, AddOk, QueueAdd,
     Exists, SweepStep, ReadPending, ReadQueued, InspectDone, ReadStuck, Probe, ResetDone, Inspect,
     ResetRow, Abandon, InspectTimeout, AddTimeout
<1>3. ASSUME NEW q \in Rows, RowAction(q) \/ LoseLock(q)  PROVE EndsInTime' /\ JobsEndInTime'
  BY <1>1, <1>3 DEF RowAction, RecordFailed, Promote, Stalled, LateAdd, QueueAdd, Exists, Age, LoseFailed,
     AgeSlowly, LoseLock
<1>4. ASSUME NEW s \in Slots, NEW r \in Rows, Claim(s, r)  PROVE EndsInTime' /\ JobsEndInTime'
  BY <1>4 DEF Claim, At, LockKept
<1>5. CASE RedisLoss
  BY <1>5 DEF RedisLoss
<1>6. ASSUME NEW s \in Slots, SlotStep(s)  PROVE EndsInTime' /\ JobsEndInTime'
  <2>1. CASE ReadRow(s) \/ Recheck(s)
    BY <2>1 DEF ReadRow, Recheck, AlreadySent, GoTo, At, Delivered, SentMeansDelivered
  <2>2. CASE ReserveGranted(s) \/ ReserveBlocked(s) \/ MarkProcessing(s) \/ SendFails(s)
    BY <2>2 DEF ReserveGranted, ReserveBlocked, MarkProcessing, SendFails, GoTo, At
  <2>3. CASE SendOk(s)
    BY <2>3 DEF SendOk, GoTo, At
  <2>4. CASE RecordSent(s)
    BY <2>4 DEF RecordSent, GoTo, At, Delivered
  <2>5. CASE DeferJob(s)
    BY <2>5 DEF DeferJob, Leave, GoTo, At, LockKept
  <2>6. CASE DeferRow(s)
    BY <2>6 DEF DeferRow, GoTo, At, LockKept
  <2>7. CASE Complete(s)
    BY <2>7 DEF Complete, Leave, Release, At, LockKept
  <2>8. CASE Fail(s)
    BY <2>8 DEF Fail, Leave, Release, At, LockKept
  <2>9. CASE GiveUp(s)
    BY <2>9 DEF GiveUp, Leave, Release, At, LockKept
  <2> QED
    BY <1>6, <2>1, <2>2, <2>3, <2>4, <2>5, <2>6, <2>7, <2>8, <2>9 DEF SlotStep
<1>7. ASSUME NEW s \in Slots, DbError(s) \/ DbLosesReply(s) \/ SendLosesReply(s) \/ CrashSlot(s)
      PROVE  EndsInTime' /\ JobsEndInTime'
  BY <1>7 DEF DbError, DbLosesReply, SendLosesReply, CrashSlot, GoTo, Release, At
<1>8. CASE UNCHANGED vars
  BY <1>8 DEF vars
<1> QED
  BY <1>2, <1>3, <1>4, <1>5, <1>6, <1>7, <1>8, StepCases

\* No deferral, look-up of a sent row, lost lock or late answer makes processJob
\* return normally with its job in hand and the mail unsent, and none makes the
\* queue give a mail up early, in any interleaving and with any faults.
THEOREM NoJobEndsEarly == Spec => []JobsEndInTime
<1>1. Init => Delivered /\ EndsInTime /\ JobsEndInTime
  BY DEF Init, Delivered, SentMeansDelivered, EndsInTime, JobsEndInTime
<1> QED
  BY <1>1, DeliveredStep, EndsInTimeStep, TypeCorrect, LocksKept, PTL DEF Spec

----------------------------------------------------------------------------
(* A row shown as failed is not sent any more *)

\* The faults under which no job disappears and no live slot loses its lock.
JobsLast == Faults \cap {"stall", "redisLoss", "coldLoss"} = {}

\* A row that is or will be shown as failed has a job BullMQ has given up.
FailedForGood == \A r \in Rows : status[r] = "failed" \/ r \in failing => jobState[r] = "failed"

\* FailedForGood is inductive while jobs and locks last.
LEMMA FailedForGoodStep ==
    ASSUME JobsLast
    PROVE  TypeOK /\ HoldsLock /\ LockKept /\ FailedForGood /\ [Next]_vars => FailedForGood'
<1> SUFFICES ASSUME TypeOK, HoldsLock, LockKept, FailedForGood, [Next]_vars PROVE FailedForGood'
  OBVIOUS
<1> USE SlotsAssumption, RowsAssumption
    DEF TypeOK, FailedForGood, rowVars, queueVars, slotVars, actorVars, histVars
<1>1. ASSUME NEW a \in Actors, ActorAction(a) PROVE FailedForGood'
  <2>1. ASSUME UNCHANGED failing,
               \A r \in Rows : /\ status'[r] = "failed" => status[r] = "failed"
                               /\ jobState[r] = "failed" => jobState'[r] = "failed"
        PROVE  FailedForGood'
    BY <2>1
  <2>2. CASE RequestStep(a) \/ MarkQueued(a)
    BY <2>1, <2>2 DEF RequestStep, CommitBatch, MarkQueued, MarkAdded
  <2>3. CASE SweepStep(a)
    BY <2>1, <2>3 DEF SweepStep, ReadPending, ReadQueued, InspectDone, ReadStuck, Probe, ResetDone, Inspect,
       ResetRow, SetStatus
  <2>4. ASSUME NEW q \in Rows, AddOk(a, q) \/ AddTimeout(a, q)  PROVE FailedForGood'
    BY <2>1, <2>4 DEF AddOk, QueueAdd, Exists, AddTimeout
  <2>5. CASE Abandon(a) \/ InspectTimeout(a)
    BY <2>1, <2>5 DEF Abandon, InspectTimeout
  <2> QED
    BY <1>1, <2>2, <2>3, <2>4, <2>5 DEF ActorAction, EnqueueStep
<1>2. ASSUME NEW q \in Rows, RowAction(q) PROVE FailedForGood'
  BY <1>2 DEF RowAction, RecordFailed, SetStatus, Promote, Stalled, LateAdd, QueueAdd, Exists, Age,
     LoseFailed, AgeSlowly
<1>3. ASSUME NEW s \in Slots, NEW r \in Rows, Claim(s, r) PROVE FailedForGood'
  BY <1>3 DEF Claim
<1>4. CASE RedisLoss \/ \E r \in Rows : LoseLock(r)
  BY <1>4 DEF RedisLoss, LoseLock, Fault, JobsLast
<1>5. ASSUME NEW s \in Slots, SlotStep(s)  PROVE FailedForGood'
  <2>1. CASE ReadRow(s) \/ ReserveGranted(s) \/ ReserveBlocked(s) \/ Recheck(s) \/ MarkProcessing(s)
             \/ SendOk(s) \/ SendFails(s) \/ RecordSent(s)
    BY <2>1 DEF ReadRow, ReserveGranted, ReserveBlocked, Recheck, MarkProcessing, SetStatus, SendOk,
                SendFails, RecordSent
  <2>2. CASE DeferJob(s) \/ DeferRow(s)
    BY <2>2 DEF DeferJob, DeferRow, Leave, At, LockKept
  <2>3. CASE Complete(s)
    BY <2>3 DEF Complete, Leave, At, LockKept
  <2>4. CASE Fail(s)
    BY <2>4, LimitsAssumption DEF Fail, Leave, OnFailed, At, LockKept
  <2>5. CASE GiveUp(s)
    BY <2>5 DEF GiveUp, Leave, OnFailed, At, LockKept
  <2> QED
    BY <1>5, <2>1, <2>2, <2>3, <2>4, <2>5 DEF SlotStep
<1>6. ASSUME NEW s \in Slots, DbError(s) \/ DbLosesReply(s) \/ SendLosesReply(s) \/ CrashSlot(s)  PROVE FailedForGood'
  BY <1>6 DEF DbError, DbLosesReply, SendLosesReply, CrashSlot, SetStatus
<1>7. CASE UNCHANGED vars
  BY <1>7 DEF vars
<1> QED
  BY <1>1, <1>2, <1>3, <1>4, <1>5, <1>6, <1>7, StepCases

\* SMTP accepts a message only for a job that a slot holds.
LEMMA OnlyHoldersSend ==
    ASSUME TypeOK, HoldsLock, [Next]_vars, NEW r \in Rows, sends'[r] # sends[r]
    PROVE  jobState[r] = "active"
<1> USE DEF TypeOK, HoldsLock, Working, rowVars, queueVars, slotVars, actorVars, histVars
<1>1. ASSUME SendsNothing PROVE FALSE
  BY <1>1 DEF SendsNothing
<1>2. ASSUME NEW s \in Slots, SlotStep(s) \/ DbError(s) \/ DbLosesReply(s) \/ SendLosesReply(s) \/ CrashSlot(s)
      PROVE  jobState[r] = "active"
  BY <1>2 DEF SlotStep, ReadRow, ReserveGranted, ReserveBlocked, DeferJob, DeferRow, Recheck, MarkProcessing,
     SendOk, SendFails, RecordSent, Complete, Fail, GiveUp, DbError, DbLosesReply, SendLosesReply, CrashSlot, At
<1>3. CASE \E s \in Slots, q \in Rows : Claim(s, q)
  BY <1>3 DEF Claim
<1>4. CASE RedisLoss \/ (\E q \in Rows : LoseLock(q)) \/ UNCHANGED vars
  BY <1>4 DEF RedisLoss, LoseLock, vars
<1> QED
  BY <1>1, <1>2, <1>3, <1>4, StepCases, ActorsSendNothing, RowsSendNothing

\* Once a row is shown as failed no copy of it reaches SMTP any more, also when
\* a sweep or a request rewrites the row meanwhile (emailWorker.ts 186-208).
THEOREM FailedIsFinal ==
    ASSUME JobsLast
    PROVE  Spec => FailedStopsSending
<1>1. LocksLast
  BY DEF JobsLast, LocksLast
<1>2. Init => HoldsLock /\ FailedForGood
  BY DEF Init, HoldsLock, Working, FailedForGood
<1>3. TypeOK /\ HoldsLock /\ [Next]_vars => HoldsLock'
  BY <1>1, HoldsLockStep
<1>4. TypeOK /\ HoldsLock /\ LockKept /\ FailedForGood /\ [Next]_vars => FailedForGood'
  BY FailedForGoodStep
<1>5. TypeOK /\ HoldsLock /\ FailedForGood /\ [Next]_vars
      => [\A r \in Rows : status[r] = "failed" => sends'[r] = sends[r]]_vars
  BY OnlyHoldersSend DEF FailedForGood
<1> QED
  BY <1>2, <1>3, <1>4, <1>5, TypeCorrect, LocksKept, PTL DEF Spec, FailedStopsSending

----------------------------------------------------------------------------
(* The books *)

\* The assumption under which the books are right: a job does not move while an
\* actor still has to write its row, Redis answers with what it was told or
\* forgets it at rest, and live slots keep their locks.  Crashes may be as many
\* as they like, but not together with rejected Postgres calls: the job of a slot
\* that crashed after the 'sent' write is delivered again, a refused read sends
\* it to its retry delay, and a sweep that read the row before it was sent takes
\* the job for an overdue one and marks the row 'queued' again.  Nor may Postgres
\* reject a write it has done: the job of a row recorded as sent is then retried
\* or given up.
Orderly ==
    /\ Isolated
    /\ Faults \cap {"stall", "redisLoss", "dbLostReply"} = {}
    /\ "crash" \in Faults => "dbError" \notin Faults

\* A write that keeps open rows open and sent rows sent disturbs no slot.
LEMMA SlotsStayFit ==
    ASSUME TypeOK, SlotsFit, UNCHANGED <<pc, on, lock, jobState>>,
           \A r \in Rows : /\ Live(r) => Live(r)'
                           /\ status[r] = "sent" => status'[r] = "sent"
    PROVE  SlotsFit'
<1>1. \A s \in Slots : pc[s] # "idle" => on[s] \in Rows
  BY DEF TypeOK
<1> QED
  BY <1>1 DEF SlotsFit, Working

\* Requests and sweeps write open rows only, since they hold no other.
LEMMA ActorsKeepBooks ==
    ASSUME Orderly, TypeOK, HoldsLock, Books, LockKept', NEW a \in Actors, ActorAction(a)
    PROVE  Books'
<1> USE ActorsAssumption, LimitsAssumption, RowsAssumption
<1> USE DEF Actors, TypeOK, Books, LockKept, SlotsFit, RowsFit, ActorsFit, StallsPaid, Held,
            Live, Closed, Crashes, Loose, rowVars, queueVars, slotVars, actorVars, histVars
<1>1. CASE RequestStep(a)
  <2> USE <1>1 DEF RequestStep, CommitBatch
  <2>1. \A r \in Rows : status'[r] = status[r] \/ (r \in BatchRows[a] /\ status[r] = "absent" /\ status'[r] = "pending")
    OBVIOUS
  <2>2. StallsPaid'
    OBVIOUS
  <2>3. SlotsFit'
    BY <2>1, SlotsStayFit
  <2>4. RowsFit'
    BY <2>1
  <2>5. ActorsFit'
    BY <2>1
  <2> QED
    BY <2>2, <2>3, <2>4, <2>5
<1>2. CASE MarkQueued(a)
  <2> USE <1>2 DEF MarkQueued, MarkAdded, Adding
  <2>1. \A r \in Rows : status'[r] = status[r] \/ (r \in ok[a] /\ Live(r) /\ status'[r] = "queued")
    OBVIOUS
  <2>2. StallsPaid'
    OBVIOUS
  <2>3. SlotsFit'
    BY <2>1, SlotsStayFit
  <2>4. RowsFit'
    BY <2>1
  <2>5. ActorsFit'
    BY <2>1 DEF AfterAdding
  <2> QED
    BY <2>2, <2>3, <2>4, <2>5
<1>3. ASSUME NEW q \in Rows, AddOk(a, q)
      PROVE Books'
  BY <1>3 DEF AddOk, QueueAdd, Exists, Adding
<1>4. CASE SweepStep(a)
  <2>1. CASE ReadPending(a)
    BY <2>1 DEF ReadPending, RowsIn
  <2>2. CASE ReadQueued(a)
    BY <2>2 DEF ReadQueued, RowsIn
  <2>3. CASE InspectDone(a)
    BY <2>3 DEF InspectDone
  <2>4. CASE ReadStuck(a)
    BY <2>4 DEF ReadStuck, RowsIn
  <2>5. CASE ResetDone(a)
    BY <2>5 DEF ResetDone
  <2>6. CASE Probe(a)
    BY <2>6 DEF Probe, Fault, Exists
  <2>7. ASSUME NEW q \in Rows, Inspect(a, q)
        PROVE Books'
    BY <2>7 DEF Inspect, Exists
  <2>8. ASSUME NEW q \in Rows, ResetRow(a, q)
        PROVE Books'
    BY <2>8 DEF ResetRow, SetStatus
  <2> QED
    BY <1>4, <2>1, <2>2, <2>3, <2>4, <2>5, <2>6, <2>7, <2>8 DEF SweepStep
<1>5. CASE Abandon(a)
  BY <1>5 DEF Abandon, Fault
<1>6. CASE InspectTimeout(a)
  BY <1>6 DEF InspectTimeout, Fault
<1>7. ASSUME NEW q \in Rows, AddTimeout(a, q)
      PROVE Books'
  BY <1>7 DEF AddTimeout, Fault, Adding
<1> QED
  BY <1>1, <1>2, <1>3, <1>4, <1>5, <1>6, <1>7 DEF ActorAction, EnqueueStep

\* The 'failed' write, promotions, stalled checks and late commands keep the books.
LEMMA RowsKeepBooks ==
    ASSUME Orderly, TypeOK, HoldsLock, Books, LockKept', NEW q \in Rows, RowAction(q) \/ LoseLock(q)
    PROVE  Books'
<1> USE LimitsAssumption, RowsAssumption
<1> USE DEF TypeOK, Books, LockKept, SlotsFit, RowsFit, ActorsFit, StallsPaid, Held,
            Live, Closed, Crashes, Loose, rowVars, queueVars, slotVars, actorVars, histVars
<1>1. CASE Quiet(q) /\ RecordFailed(q)
  <2>1. ~Busy(q)
    BY <1>1 DEF Quiet, Orderly
  <2>3. SlotsFit'
    <3>1. \A s \in Slots : pc[s] # "idle" => on[s] \in Rows
      OBVIOUS
    <3>2. jobState[q] = "failed"
      BY <1>1 DEF RecordFailed
    <3>3. \A s \in Slots : pc[s] # "idle" /\ (pc[s] \in Working \/ lock[on[s]] = s) => on[s] # q
      BY <3>1, <3>2, SlotsAssumption DEF HoldsLock
    <3> QED
      BY <1>1, <3>1, <3>3 DEF RecordFailed, SetStatus, Working
  <2>4. RowsFit'
    BY <1>1, <2>1 DEF RecordFailed, SetStatus, Busy, HoldsLock
  <2>5. ActorsFit'
    BY <1>1, <2>1 DEF RecordFailed, SetStatus, Busy, HoldsLock
  <2>6. StallsPaid'
    BY <1>1, <2>1 DEF RecordFailed, SetStatus, Busy, HoldsLock
  <2> QED
    BY <2>3, <2>4, <2>5, <2>6
<1>2. CASE Promote(q)
  BY <1>2 DEF Promote
<1>3. CASE Stalled(q)
  BY <1>3 DEF Stalled
<1>4. CASE LateAdd(q)
  <2>3. SlotsFit'
    BY <1>4 DEF LateAdd, QueueAdd, Exists
  <2>4. RowsFit'
    BY <1>4 DEF LateAdd, QueueAdd, Exists, Statuses
  <2>5. ActorsFit'
    BY <1>4 DEF LateAdd, QueueAdd, Exists
  <2>6. StallsPaid'
    BY <1>4 DEF LateAdd, QueueAdd, Exists
  <2> QED
    BY <2>3, <2>4, <2>5, <2>6
<1>5. CASE Age(q) \/ AgeSlowly(q) \/ LoseFailed(q)
  BY <1>5 DEF Age, AgeSlowly, LoseFailed, Fault
<1>6. CASE LoseLock(q)
  BY <1>6 DEF LoseLock, Fault, Orderly
<1> QED
  BY <1>1, <1>2, <1>3, <1>4, <1>5, <1>6 DEF RowAction

\* Redis lost at rest: no slot, write, command or sweep refers to a lost job.
LEMMA LossKeepsBooks ==
    ASSUME Orderly, TypeOK, HoldsLock, Books, LockKept', RedisLoss
    PROVE  Books'
<1> USE LimitsAssumption, RowsAssumption, ActorsAssumption, SlotsAssumption
<1> USE DEF TypeOK, Books, LockKept, SlotsFit, RowsFit, ActorsFit, StallsPaid, Held,
            Live, Closed, Crashes, Loose, rowVars, queueVars, slotVars, actorVars, histVars
<1>1. /\ \A s \in Slots : pc[s] = "idle"
      /\ failing = {} /\ late = {} /\ \A a \in Actors : look[a] = {}
  BY DEF RedisLoss, Fault, Orderly, At, Actors
<1> QED
  BY <1>1 DEF RedisLoss, Fault, Working

\* A claimed job stalled more than maxStalledCount times only if it crashed that
\* often; otherwise it is processed.
LEMMA ClaimKeepsBooks ==
    ASSUME Orderly, TypeOK, HoldsLock, Books, LockKept', NEW s \in Slots, NEW r \in Rows, Claim(s, r)
    PROVE  Books'
<1> USE LimitsAssumption, RowsAssumption, ActorsAssumption, SlotsAssumption
<1> USE DEF TypeOK, Books, LockKept, SlotsFit, RowsFit, ActorsFit, StallsPaid, Held,
            Live, Closed, Crashes, Loose, rowVars, queueVars, slotVars, actorVars, histVars
<1>1. StallsCovered => stalls[r] <= MaxStalledCount
  BY DEF Orderly, StallsCovered
<1> QED
  BY <1>1 DEF Claim, At, HoldsLock, Working

\* Every step of a slot, its failures included, keeps the books.
LEMMA SlotsKeepBooks ==
    ASSUME Orderly, TypeOK, HoldsLock, Books, LockKept', NEW s \in Slots,
           SlotStep(s) \/ DbError(s) \/ DbLosesReply(s) \/ SendLosesReply(s) \/ CrashSlot(s)
    PROVE  Books'
<1> USE LimitsAssumption, RowsAssumption, ActorsAssumption, SlotsAssumption
<1> USE DEF TypeOK, Books, LockKept, SlotsFit, RowsFit, ActorsFit, StallsPaid, Held,
            Live, Closed, Crashes, Loose, rowVars, queueVars, slotVars, actorVars, histVars, At, GoTo, Release,
            HoldsLock, Working
<1>0. SlotStep(s) => ~Busy(on[s])
  BY DEF SlotStep, Quiet, Orderly
<1>1. CASE ReadRow(s)
  <2>3. SlotsFit'
    <3>1. on[s] \in Rows /\ jobState[on[s]] = "active"
      BY <1>1 DEF ReadRow
    <3>2. status[on[s]] # "sent" => Live(on[s])
      BY <3>1 DEF Statuses
    <3> QED
      BY <1>1, <3>1, <3>2 DEF ReadRow, AlreadySent
  <2>4. RowsFit'
    BY <1>1 DEF ReadRow, AlreadySent
  <2>5. ActorsFit'
    BY <1>1 DEF ReadRow, AlreadySent
  <2>6. StallsPaid'
    BY <1>1 DEF ReadRow, AlreadySent
  <2> QED
    BY <2>3, <2>4, <2>5, <2>6
<1>2. CASE ReserveGranted(s) \/ ReserveBlocked(s) \/ Recheck(s)
  BY <1>2 DEF ReserveGranted, ReserveBlocked, Recheck, AlreadySent
<1>3. CASE DeferJob(s)
  <2>3. SlotsFit'
    BY <1>3 DEF DeferJob, Leave
  <2>4. RowsFit'
    BY <1>3 DEF DeferJob, Leave
  <2>5. ActorsFit'
    BY <1>3 DEF DeferJob, Leave
  <2>6. StallsPaid'
    BY <1>3 DEF DeferJob, Leave
  <2> QED
    BY <2>3, <2>4, <2>5, <2>6
<1>4. CASE DeferRow(s)
  BY <1>4 DEF DeferRow
<1>5. CASE MarkProcessing(s)
  BY <1>5 DEF MarkProcessing, SetStatus
<1>6. CASE SendOk(s) \/ SendFails(s)
  BY <1>6 DEF SendOk, SendFails
<1>7. CASE RecordSent(s) /\ SlotStep(s)
  BY <1>0, <1>7 DEF RecordSent, SetStatus, Busy
<1>8. CASE Complete(s)
  BY <1>8 DEF Complete, Leave
<1>9. CASE Fail(s)
  <2>3. SlotsFit'
    BY <1>9 DEF Fail, Leave, OnFailed
  <2>4. RowsFit'
    BY <1>9 DEF Fail, Leave, OnFailed
  <2>5. ActorsFit'
    BY <1>9 DEF Fail, Leave, OnFailed
  <2>6. StallsPaid'
    BY <1>9 DEF Fail, Leave, OnFailed
  <2> QED
    BY <2>3, <2>4, <2>5, <2>6
<1>10. CASE GiveUp(s)
  <2>1. ~StallsCovered
    BY <1>10 DEF GiveUp
  <2>3. SlotsFit'
    BY <1>10, <2>1 DEF GiveUp, Leave, OnFailed
  <2>4. RowsFit'
    BY <1>10, <2>1 DEF GiveUp, Leave, OnFailed
  <2>5. ActorsFit'
    BY <1>10 DEF GiveUp, Leave, OnFailed
  <2>6. StallsPaid'
    BY <1>10 DEF GiveUp, Leave, OnFailed
  <2> QED
    BY <2>3, <2>4, <2>5, <2>6
<1>11. CASE DbError(s) \/ DbLosesReply(s)
  BY <1>11 DEF DbError, DbLosesReply, Fault, Orderly
<1>12. CASE SendLosesReply(s)
  BY <1>12 DEF SendLosesReply, Fault
<1>13. CASE CrashSlot(s)
  BY <1>13 DEF CrashSlot, Fault
<1> QED
  BY <1>1, <1>2, <1>3, <1>4, <1>5, <1>6, <1>7, <1>8, <1>9, <1>10, <1>11, <1>12, <1>13 DEF SlotStep

\* Books is inductive under Orderly.
LEMMA BooksStep ==
    ASSUME Orderly
    PROVE  TypeOK /\ HoldsLock /\ Books /\ [Next]_vars => Books'
<1> SUFFICES ASSUME TypeOK, HoldsLock, Books, [Next]_vars PROVE Books'
  OBVIOUS
<1>1. CASE UNCHANGED vars
  BY <1>1 DEF vars, rowVars, queueVars, slotVars, actorVars, histVars, Books, LockKept, SlotsFit, RowsFit,
     ActorsFit, StallsPaid, Held, Live, Closed, Crashes, Loose
<1>2. LockKept'
  BY LockKeptStep DEF Books
<1> QED
  BY <1>1, <1>2, StepCases, ActorsKeepBooks, RowsKeepBooks, LossKeepsBooks, ClaimKeepsBooks, SlotsKeepBooks

\* The books are right in every reachable state, through sweeps, retries,
\* deferrals, lost enqueues, restarts of Redis and up to maxStalledCount crashes.
THEOREM BooksAreKept ==
    ASSUME Orderly
    PROVE  Spec => [](TypeOK /\ HoldsLock /\ Books)
<1>1. LocksLast
  BY DEF Orderly, LocksLast
<1>2. Init => HoldsLock /\ Books
  BY LimitsAssumption, ActorsAssumption, RowsAssumption
  DEF Init, HoldsLock, Working, Books, LockKept, SlotsFit, RowsFit, ActorsFit, StallsPaid, Held, Live,
      Closed, Crashes, Loose, Actors
<1>3. TypeOK /\ HoldsLock /\ [Next]_vars => HoldsLock'
  BY <1>1, HoldsLockStep
<1>4. TypeOK /\ HoldsLock /\ Books /\ [Next]_vars => Books'
  BY BooksStep
<1> QED
  BY <1>2, <1>3, <1>4, TypeCorrect, PTL DEF Spec

----------------------------------------------------------------------------
(* What a step may do to a row *)

\* A row is accepted, stays open, is recorded as sent by the slot that sent it,
\* or is recorded as failed after BullMQ gave its job up; nothing else happens,
\* unless a job that crashed once too often is given up although its row is sent.
RowMoves(r) ==
    \/ status'[r] = status[r]
    \/ status[r] = "absent" /\ status'[r] = "pending" /\ \E a \in Actors : CommitBatch(a)
    \/ Live(r) /\ Live(r)'
    \/ Live(r) /\ status'[r] = "sent" /\ \E s \in Slots : on[s] = r /\ RecordSent(s)
    \/ Live(r) /\ status'[r] = "failed" /\ RecordFailed(r)
    \/ status[r] = "sent" /\ status'[r] = "failed" /\ RecordFailed(r) /\ ~StallsCovered

\* RowMoves describes every step under Orderly.
LEMMA RowsMoveOn ==
    ASSUME Orderly, TypeOK, HoldsLock, Books, [Next]_vars, NEW r \in Rows
    PROVE  RowMoves(r)
<1> USE DEF TypeOK, RowMoves, Books, Live, rowVars, queueVars, slotVars, actorVars, histVars
<1>1. ASSUME NEW a \in Actors, ActorAction(a)  PROVE RowMoves(r)
  <2>1. CASE RequestStep(a)
    BY <2>1 DEF RequestStep, CommitBatch, ActorsFit
  <2>2. CASE MarkQueued(a)
    <3>1. r \in ok[a] => r \in Held(a)
      BY DEF Held
    <3> QED
      BY <2>2, <3>1 DEF MarkQueued, MarkAdded, ActorsFit
  <2>3. CASE SweepStep(a) /\ ~\E q \in Rows : ResetRow(a, q)
    BY <2>3 DEF SweepStep, ReadPending, ReadQueued, InspectDone, ReadStuck, Probe, ResetDone, Inspect
  <2>4. ASSUME NEW q \in Rows, ResetRow(a, q)  PROVE RowMoves(r)
    BY <2>4 DEF ResetRow, SetStatus, ActorsFit
  <2>5. ASSUME NEW q \in Rows, AddOk(a, q) \/ AddTimeout(a, q)  PROVE RowMoves(r)
    BY <2>5 DEF AddOk, AddTimeout
  <2>6. CASE Abandon(a) \/ InspectTimeout(a)
    BY <2>6 DEF Abandon, InspectTimeout
  <2> QED
    BY <1>1, <2>1, <2>2, <2>3, <2>4, <2>5, <2>6 DEF ActorAction, EnqueueStep
<1>2. ASSUME NEW q \in Rows, RowAction(q)  PROVE RowMoves(r)
  <2>1. CASE RecordFailed(q)
    BY <2>1 DEF RecordFailed, SetStatus, RowsFit, Statuses
  <2> QED
    BY <1>2, <2>1 DEF RowAction, Promote, Stalled, LateAdd, Age, LoseFailed, AgeSlowly
<1>3. ASSUME NEW s \in Slots, SlotStep(s)  PROVE RowMoves(r)
  <2>1. CASE MarkProcessing(s)
    BY <2>1 DEF MarkProcessing, SetStatus, At, SlotsFit, Working
  <2>2. CASE RecordSent(s)
    BY <2>2 DEF RecordSent, SetStatus, At, SlotsFit, Working
  <2> QED
    BY <1>3, <2>1, <2>2 DEF SlotStep, ReadRow, ReserveGranted, ReserveBlocked, DeferJob, DeferRow, Recheck,
       SendOk, SendFails, Complete, Fail, GiveUp
<1>4. ASSUME NEW s \in Slots, DbError(s) \/ DbLosesReply(s) \/ SendLosesReply(s) \/ CrashSlot(s) \/ \E q \in Rows : Claim(s, q)
      PROVE  RowMoves(r)
  BY <1>4 DEF DbError, DbLosesReply, SendLosesReply, CrashSlot, Claim, Fault, Orderly
<1>5. CASE RedisLoss \/ (\E q \in Rows : LoseLock(q)) \/ UNCHANGED vars
  BY <1>5 DEF RedisLoss, LoseLock, vars
<1> QED
  BY <1>1, <1>2, <1>3, <1>4, <1>5, StepCases

\* README 286: once a row is sent or failed it stays so, through sweeps, retries
\* and up to maxStalledCount crashes.
THEOREM TerminalIsFinal ==
    ASSUME Orderly, StallsCovered
    PROVE  Spec => TerminalStays
<1>1. TypeOK /\ HoldsLock /\ Books /\ [Next]_vars
      => [\A r \in Rows : status[r] \in {"sent", "failed"} => status'[r] = status[r]]_vars
  BY RowsMoveOn DEF RowMoves, Live
<1> QED
  BY <1>1, BooksAreKept, PTL DEF Spec, TerminalStays

----------------------------------------------------------------------------
(* No row is left behind *)

\* Once BullMQ has given a job up its row says so, or the write is in flight.
FailuresKnown == \A r \in Rows : jobState[r] = "failed" => status[r] = "failed" \/ r \in failing

\* FailuresKnown is inductive when no 'failed' write is lost.
LEMMA FailuresKnownStep ==
    ASSUME Orderly, StallsCovered, "lostFailure" \notin Faults
    PROVE  TypeOK /\ HoldsLock /\ Books /\ FailuresKnown /\ [Next]_vars => FailuresKnown'
<1> SUFFICES ASSUME TypeOK, HoldsLock, Books, FailuresKnown, [Next]_vars
             PROVE  FailuresKnown'
  OBVIOUS
<1> USE DEF TypeOK, FailuresKnown, rowVars, queueVars, slotVars, actorVars, histVars
<1>1. ASSUME NEW r \in Rows, status[r] = "failed"  PROVE status'[r] = "failed"
  BY <1>1, RowsMoveOn DEF RowMoves, Live
<1>2. ASSUME UNCHANGED failing, \A r \in Rows : jobState'[r] = "failed" => jobState[r] = "failed"
      PROVE  FailuresKnown'
  BY <1>1, <1>2
<1>3. ASSUME NEW a \in Actors, ActorAction(a)  PROVE FailuresKnown'
  <2>1. ASSUME NEW q \in Rows, AddOk(a, q) \/ AddTimeout(a, q)  PROVE FailuresKnown'
    BY <1>2, <2>1 DEF AddOk, QueueAdd, Exists, AddTimeout
  <2> QED
    BY <1>2, <1>3, <2>1 DEF ActorAction, RequestStep, CommitBatch, EnqueueStep, MarkQueued, SweepStep,
       ReadPending, ReadQueued, InspectDone, ReadStuck, Probe, ResetDone, Inspect, ResetRow, Abandon,
       InspectTimeout
<1>4. ASSUME NEW q \in Rows, RowAction(q)  PROVE FailuresKnown'
  <2>1. CASE RecordFailed(q)
    BY <1>1, <2>1 DEF RecordFailed, SetStatus
  <2>2. CASE LoseFailed(q)
    BY <2>2 DEF LoseFailed, Fault
  <2> QED
    BY <1>2, <1>4, <2>1, <2>2 DEF RowAction, Promote, Stalled, LateAdd, QueueAdd, Exists, Age, AgeSlowly
<1>5. ASSUME NEW s \in Slots, SlotStep(s)  PROVE FailuresKnown'
  <2>1. CASE DeferJob(s)
    BY <1>2, <2>1 DEF DeferJob, Leave
  <2>2. CASE Complete(s)
    BY <1>2, <2>2 DEF Complete, Leave
  <2>3. CASE Fail(s)
    <3>1. on[s] \in Rows
      BY <2>3 DEF Fail, At
    <3> QED
      BY <1>1, <2>3, <3>1, LimitsAssumption DEF Fail, Leave, OnFailed
  <2>4. CASE GiveUp(s)
    BY <2>4 DEF GiveUp, At, Books, SlotsFit
  <2> QED
    BY <1>2, <1>5, <2>1, <2>2, <2>3, <2>4 DEF SlotStep, ReadRow, ReserveGranted, ReserveBlocked, DeferRow,
       Recheck, MarkProcessing, SendOk, SendFails, RecordSent
<1>6. ASSUME NEW s \in Slots, DbError(s) \/ DbLosesReply(s) \/ SendLosesReply(s) \/ CrashSlot(s) \/ \E q \in Rows : Claim(s, q)
      PROVE  FailuresKnown'
  BY <1>2, <1>6 DEF DbError, DbLosesReply, SendLosesReply, CrashSlot, Claim
<1>7. CASE RedisLoss \/ (\E q \in Rows : LoseLock(q)) \/ UNCHANGED vars
  BY <1>2, <1>7 DEF RedisLoss, LoseLock, vars
<1> QED
  BY <1>3, <1>4, <1>5, <1>6, <1>7, StepCases

\* Unless the 'failed' write itself is lost, no row stays open with a finished
\* job that every sweep takes for a job in progress (reconcileService.ts 140-176).
THEOREM NothingOrphaned ==
    ASSUME Orderly, StallsCovered, "lostFailure" \notin Faults
    PROVE  Spec => []NoOrphan
<1>1. Init => FailuresKnown
  BY DEF Init, FailuresKnown
<1>2. TypeOK /\ HoldsLock /\ Books /\ FailuresKnown /\ [Next]_vars => FailuresKnown'
  BY FailuresKnownStep
<1>3. Books /\ FailuresKnown => NoOrphan
  BY DEF Books, RowsFit, FailuresKnown, NoOrphan, Orphaned
<1> QED
  BY <1>1, <1>2, <1>3, BooksAreKept, PTL DEF Spec

----------------------------------------------------------------------------
(* Every copy of a message is accounted for *)

\* The slot that has just sent r has not written 'sent' yet.
Recording(r) == \E s \in Slots : on[s] = r /\ pc[s] = "record"
Accepted(r) == IF status[r] = "sent" \/ Recording(r) THEN 1 ELSE 0

\* What SMTP accepted is what was lost in the window before the 'sent' write,
\* plus the copy the row speaks of, is about to, or spoke of before its job
\* crashed once too often.
SendsExplained ==
    \A r \in Rows :
        \/ sends[r] = windowCrash[r] + Accepted(r)
        \/ sends[r] = windowCrash[r] + 1 /\ status[r] = "failed" /\ ~StallsCovered

\* Two slots never record the same row, and a row being recorded is still open.
LEMMA OneRecorder ==
    ASSUME TypeOK, HoldsLock, Books, NEW s \in Slots, pc[s] \in {"send", "record"}
    PROVE  /\ on[s] \in Rows /\ Live(on[s])
           /\ \A t \in Slots \ {s} : ~(on[t] = on[s] /\ pc[t] = "record")
BY DEF TypeOK, HoldsLock, Working, Books, SlotsFit

\* SendsExplained is inductive when SMTP's acceptance is never lost.
LEMMA SendsExplainedStep ==
    ASSUME Orderly, "lostReply" \notin Faults
    PROVE  TypeOK /\ HoldsLock /\ Books /\ SendsExplained /\ [Next]_vars => SendsExplained'
<1> SUFFICES ASSUME TypeOK, HoldsLock, Books, SendsExplained, [Next]_vars
             PROVE  SendsExplained'
  OBVIOUS
<1> USE DEF TypeOK, rowVars, queueVars, slotVars, actorVars, histVars
<1>1. ASSUME NEW r \in Rows
      PROVE  /\ status[r] = "sent" => status'[r] = "sent" \/ (status'[r] = "failed" /\ ~StallsCovered)
             /\ status[r] = "failed" => status'[r] = "failed"
  <2>1. RowMoves(r)
    BY RowsMoveOn
  <2> QED
    BY <2>1 DEF RowMoves, Live, StallsCovered
<1>2. ASSUME UNCHANGED <<sends, windowCrash>>, \A r \in Rows : status'[r] = "sent" => status[r] = "sent",
             \A r \in Rows : Recording(r)' = Recording(r)
      PROVE  SendsExplained'
  BY <1>1, <1>2 DEF SendsExplained, Accepted
<1>3. ASSUME SendsNothing, UNCHANGED windowCrash  PROVE SendsExplained'
  BY <1>2, <1>3 DEF SendsNothing, Untouched, Recording
<1>4. ASSUME NEW a \in Actors, ActorAction(a)  PROVE SendsExplained'
  <2>1. UNCHANGED windowCrash
    BY <1>4 DEF ActorAction, RequestStep, CommitBatch, EnqueueStep, MarkQueued, AddOk, SweepStep, ReadPending,
       ReadQueued, InspectDone, ReadStuck, Probe, ResetDone, Inspect, ResetRow, Abandon, InspectTimeout,
       AddTimeout
  <2> QED
    BY <1>3, <1>4, <2>1, ActorsSendNothing
<1>5. ASSUME NEW q \in Rows, RowAction(q)  PROVE SendsExplained'
  <2>1. UNCHANGED windowCrash
    BY <1>5 DEF RowAction, RecordFailed, Promote, Stalled, LateAdd, Age, LoseFailed, AgeSlowly
  <2> QED
    BY <1>3, <1>5, <2>1, RowsSendNothing
<1>6. ASSUME NEW s \in Slots, pc[s] # "record", pc'[s] # "record",
             \A t \in Slots \ {s} : pc'[t] = pc[t] /\ on'[t] = on[t]
      PROVE  \A r \in Rows : Recording(r)' = Recording(r)
  BY <1>6 DEF Recording
<1>7. ASSUME NEW s \in Slots, SlotStep(s)  PROVE SendsExplained'
  <2>1. CASE SendOk(s)
    <3>1. /\ on[s] \in Rows /\ status[on[s]] \notin {"sent", "failed"}
          /\ \A t \in Slots \ {s} : ~(on[t] = on[s] /\ pc[t] = "record")
      BY <2>1, OneRecorder DEF SendOk, At, Live
    <3>2. /\ pc[s] = "send" /\ pc' = [pc EXCEPT ![s] = "record"] /\ UNCHANGED <<on, status, windowCrash>>
          /\ sends' = [sends EXCEPT ![on[s]] = @ + 1]
      BY <2>1 DEF SendOk, At, GoTo
    <3>3. Accepted(on[s]) = 0 /\ Accepted(on[s])' = 1
      BY <3>1, <3>2 DEF Accepted, Recording
    <3>4. \A r \in Rows \ {on[s]} : Accepted(r)' = Accepted(r)
      BY <3>2 DEF Accepted, Recording
    <3> QED
      BY <1>1, <3>1, <3>2, <3>3, <3>4 DEF SendsExplained, Live, StallsCovered
  <2>2. CASE RecordSent(s)
    <3>1. on[s] \in Rows /\ pc[s] = "record" /\ status[on[s]] # "failed"
      BY <2>2, OneRecorder DEF RecordSent, At, Live
    <3>2. /\ pc' = [pc EXCEPT ![s] = "complete"] /\ UNCHANGED <<on, sends, windowCrash>>
          /\ status' = [status EXCEPT ![on[s]] = "sent"]
      BY <2>2 DEF RecordSent, SetStatus, GoTo
    <3>3. \A r \in Rows : Accepted(r)' = Accepted(r)
      BY <3>1, <3>2 DEF Accepted, Recording
    <3> QED
      BY <3>1, <3>2, <3>3 DEF SendsExplained, StallsCovered
  <2>3. CASE ReadRow(s) \/ ReserveGranted(s) \/ ReserveBlocked(s) \/ Recheck(s) \/ SendFails(s)
             \/ MarkProcessing(s) \/ DeferRow(s)
    <3>1. \A r \in Rows : status'[r] = "sent" => status[r] = "sent"
      BY <2>3 DEF ReadRow, ReserveGranted, ReserveBlocked, Recheck, SendFails, MarkProcessing, DeferRow, SetStatus
    <3> QED
      BY <1>2, <1>6, <2>3, <3>1 DEF ReadRow, ReserveGranted, ReserveBlocked, Recheck, SendFails,
         MarkProcessing, DeferRow, At, GoTo
  <2>4. CASE DeferJob(s) \/ Complete(s) \/ Fail(s) \/ GiveUp(s)
    BY <1>2, <1>6, <2>4 DEF DeferJob, Complete, Fail, GiveUp, At, GoTo, Release
  <2> QED
    BY <1>7, <2>1, <2>2, <2>3, <2>4 DEF SlotStep
<1>8. ASSUME NEW s \in Slots, DbError(s) \/ DbLosesReply(s) \/ CrashSlot(s)  PROVE SendsExplained'
  <2>1. /\ UNCHANGED <<status, sends>> /\ on[s] \in Rows /\ pc'[s] # "record"
        /\ \A t \in Slots \ {s} : pc'[t] = pc[t] /\ on'[t] = on[t]
        /\ windowCrash' = [windowCrash EXCEPT ![on[s]] = IF pc[s] = "record" THEN @ + 1 ELSE @]
    BY <1>8 DEF DbError, DbLosesReply, CrashSlot, At, GoTo, Release, Fault, Orderly
  <2>2. CASE pc[s] = "record"
    <3>1. PICK q \in Rows : q = on[s]
      BY <2>1
    <3>2. /\ status[q] # "sent"
          /\ \A t \in Slots \ {s} : ~(on[t] = q /\ pc[t] = "record")
      BY <2>2, <3>1, OneRecorder DEF Live
    <3>3. Accepted(q) = 1 /\ Accepted(q)' = 0
      BY <2>1, <2>2, <3>1, <3>2 DEF Accepted, Recording
    <3>4. \A r \in Rows \ {q} : Accepted(r)' = Accepted(r)
      BY <2>1, <2>2, <3>1 DEF Accepted, Recording
    <3> QED
      BY <2>1, <2>2, <3>1, <3>3, <3>4 DEF SendsExplained
  <2>3. CASE pc[s] # "record"
    BY <1>2, <1>6, <2>1, <2>3
  <2> QED
    BY <2>2, <2>3
<1>9. ASSUME NEW s \in Slots, SendLosesReply(s)  PROVE FALSE
  BY <1>9 DEF SendLosesReply, Fault
<1>10. ASSUME NEW s \in Slots, NEW q \in Rows, Claim(s, q)  PROVE SendsExplained'
  BY <1>2, <1>6, <1>10 DEF Claim, At
<1>11. CASE RedisLoss \/ (\E q \in Rows : LoseLock(q)) \/ UNCHANGED vars
  BY <1>2, <1>11 DEF RedisLoss, LoseLock, vars, Recording
<1> QED
  BY <1>4, <1>5, <1>7, <1>8, <1>9, <1>10, <1>11, StepCases

\* The account of every copy is right in every reachable state.
LEMMA SendsStayExplained ==
    ASSUME Orderly, "lostReply" \notin Faults
    PROVE  Spec => []SendsExplained
<1>1. Init => SendsExplained
  BY DEF Init, SendsExplained, Accepted, Recording
<1>2. TypeOK /\ HoldsLock /\ Books /\ SendsExplained /\ [Next]_vars => SendsExplained'
  BY SendsExplainedStep
<1> QED
  BY <1>1, <1>2, BooksAreKept, PTL DEF Spec

\* README 370: a message is sent again only when a worker is lost, or cannot
\* reach Postgres, between sendMail's success and the 'sent' write.
THEOREM ReplaysOnlyInWindow ==
    ASSUME Orderly, "lostReply" \notin Faults
    PROVE  Spec => []OnlyResidualWindow
<1>1. TypeOK /\ SendsExplained => OnlyResidualWindow
  BY DEF TypeOK, SendsExplained, Accepted, OnlyResidualWindow
<1> QED
  BY <1>1, TypeCorrect, SendsStayExplained, PTL

----------------------------------------------------------------------------
(* What a mail may have cost *)

\* The faults under which no slot is disturbed in the window.
WindowSafe == Faults \cap {"crash", "dbError"} = {}
WindowsClosed == \A r \in Rows : windowCrash[r] = 0

\* Without crashes and Postgres failures nothing is lost in the window.
LEMMA WindowsClosedStep ==
    ASSUME WindowSafe
    PROVE  TypeOK /\ WindowsClosed /\ [Next]_vars => WindowsClosed'
<1> SUFFICES ASSUME TypeOK, WindowsClosed, [Next]_vars, UNCHANGED windowCrash => WindowsClosed'
             PROVE  WindowsClosed'
  BY DEF WindowsClosed
<1> USE DEF rowVars, queueVars, slotVars, actorVars, histVars
<1>1. ASSUME NEW a \in Actors, ActorAction(a)  PROVE UNCHANGED windowCrash
  BY <1>1 DEF ActorAction, RequestStep, CommitBatch, EnqueueStep, MarkQueued, AddOk, SweepStep, ReadPending,
     ReadQueued, InspectDone, ReadStuck, Probe, ResetDone, Inspect, ResetRow, Abandon, InspectTimeout,
     AddTimeout
<1>2. ASSUME NEW q \in Rows, RowAction(q)  PROVE UNCHANGED windowCrash
  BY <1>2 DEF RowAction, RecordFailed, Promote, Stalled, LateAdd, Age, LoseFailed, AgeSlowly
<1>3. ASSUME NEW s \in Slots,
             SlotStep(s) \/ SendLosesReply(s) \/ DbLosesReply(s) \/ \E q \in Rows : Claim(s, q)
      PROVE  UNCHANGED windowCrash
  BY <1>3 DEF SlotStep, ReadRow, ReserveGranted, ReserveBlocked, DeferJob, DeferRow, Recheck, MarkProcessing,
     SendOk, SendFails, RecordSent, Complete, Fail, GiveUp, SendLosesReply, DbLosesReply, Claim
<1>4. ASSUME NEW s \in Slots, DbError(s) \/ CrashSlot(s)  PROVE FALSE
  BY <1>4 DEF DbError, CrashSlot, Fault, WindowSafe
<1>5. CASE RedisLoss \/ (\E q \in Rows : LoseLock(q)) \/ UNCHANGED vars
  BY <1>5 DEF RedisLoss, LoseLock, vars
<1> QED
  BY <1>1, <1>2, <1>3, <1>4, <1>5, StepCases

\* A job BullMQ has given up has spent a fault on every copy SMTP accepted.
FailuresPaid == \A r \in Rows : jobState[r] = "failed" => sends[r] <= used

\* A slot on its way to sendMail is counted among the copies.
LEMMA HeadingCounts ==
    ASSUME TypeOK, CopiesBounded, NEW s \in Slots, pc[s] \in Ahead
    PROVE  on[s] \in Rows /\ sends[on[s]] <= used
<1>1. on[s] \in Rows
  BY DEF TypeOK, Ahead
<1>2. IsFiniteSet(Heading(on[s])) /\ Cardinality(Heading(on[s])) \in Nat
  BY HeadingFinite
<1>3. s \in Heading(on[s])
  BY DEF Heading
<1>4. Cardinality(Heading(on[s])) # 0
  BY <1>2, <1>3, FS_EmptySet
<1> QED
  BY <1>1, <1>2, <1>4 DEF TypeOK, CopiesBounded, Available

\* FailuresPaid is inductive when no job is given up without an attempt.
LEMMA FailuresPaidStep ==
    ASSUME StallsCovered
    PROVE  TypeOK /\ HoldsLock /\ Books /\ CopiesBounded /\ FailuresPaid /\ [Next]_vars => FailuresPaid'
<1> SUFFICES ASSUME TypeOK, HoldsLock, Books, CopiesBounded, FailuresPaid, [Next]_vars
             PROVE  FailuresPaid'
  OBVIOUS
<1> USE DEF TypeOK, FailuresPaid, rowVars, queueVars, slotVars, actorVars, histVars
<1>1. ASSUME UNCHANGED sends, used' = used \/ used' = used + 1,
             \A r \in Rows : jobState'[r] = "failed" => jobState[r] = "failed" \/ sends[r] <= used
      PROVE  FailuresPaid'
  BY <1>1
<1>2. ASSUME NEW a \in Actors, ActorAction(a)  PROVE FailuresPaid'
  <2>1. CASE RequestStep(a) \/ MarkQueued(a) \/ SweepStep(a)
    BY <1>1, <2>1 DEF RequestStep, CommitBatch, MarkQueued, SweepStep, ReadPending, ReadQueued, InspectDone,
       ReadStuck, Probe, ResetDone, Inspect, ResetRow, Fault
  <2>2. ASSUME NEW q \in Rows, AddOk(a, q) \/ AddTimeout(a, q)  PROVE FailuresPaid'
    BY <1>1, <2>2 DEF AddOk, QueueAdd, Exists, AddTimeout, Fault
  <2>3. CASE Abandon(a) \/ InspectTimeout(a)
    BY <1>1, <2>3 DEF Abandon, InspectTimeout, Fault
  <2> QED
    BY <1>2, <2>1, <2>2, <2>3 DEF ActorAction, EnqueueStep
<1>3. ASSUME NEW q \in Rows, RowAction(q) \/ LoseLock(q)  PROVE FailuresPaid'
  BY <1>1, <1>3 DEF RowAction, RecordFailed, Promote, Stalled, LateAdd, QueueAdd, Exists, Age, LoseFailed,
     AgeSlowly, LoseLock, Fault
<1>4. ASSUME NEW s \in Slots, SlotStep(s)  PROVE FailuresPaid'
  <2>1. CASE Fail(s)
    <3>1. on[s] \in Rows /\ sends[on[s]] <= used
      BY <2>1, HeadingCounts DEF Fail, At, Ahead
    <3> QED
      BY <1>1, <2>1, <3>1 DEF Fail, Leave
  <2>2. CASE GiveUp(s)
    BY <2>2 DEF GiveUp, At, Books, SlotsFit
  <2>3. CASE SendOk(s)
    BY <2>3 DEF SendOk, At, HoldsLock, Working
  <2>4. CASE DeferJob(s) \/ Complete(s)
    BY <1>1, <2>4 DEF DeferJob, Complete, Leave
  <2> QED
    BY <1>1, <1>4, <2>1, <2>2, <2>3, <2>4 DEF SlotStep, ReadRow, ReserveGranted, ReserveBlocked, DeferRow,
       Recheck, MarkProcessing, SendFails, RecordSent
<1>5. ASSUME NEW s \in Slots, SendLosesReply(s)  PROVE FailuresPaid'
  BY <1>5 DEF SendLosesReply, At, HoldsLock, Working, Fault
<1>6. ASSUME NEW s \in Slots, DbError(s) \/ DbLosesReply(s) \/ CrashSlot(s) \/ \E q \in Rows : Claim(s, q)
      PROVE  FailuresPaid'
  BY <1>1, <1>6 DEF DbError, DbLosesReply, CrashSlot, Claim, Fault
<1>7. CASE RedisLoss \/ UNCHANGED vars
  BY <1>1, <1>7 DEF RedisLoss, vars, Fault
<1> QED
  BY <1>2, <1>3, <1>4, <1>5, <1>6, <1>7, StepCases

\* The faults under which no mail is sent twice, and the account they allow.
NoReplay == WindowSafe /\ "lostReply" \notin Faults
Account ==
    /\ CopiesBounded /\ FailuresPaid
    /\ NoReplay => SendsExplained /\ WindowsClosed

\* The account is right in every reachable state.
LEMMA AccountIsRight ==
    ASSUME Orderly, StallsCovered
    PROVE  Spec => []Account
<1>1. Init => FailuresPaid /\ WindowsClosed /\ SendsExplained
  BY DEF Init, FailuresPaid, WindowsClosed, SendsExplained, Accepted, Recording
<1>2. TypeOK /\ HoldsLock /\ Books /\ CopiesBounded /\ FailuresPaid /\ [Next]_vars => FailuresPaid'
  BY FailuresPaidStep
<1>3. Spec => []FailuresPaid
  BY <1>1, <1>2, BooksAreKept, CopiesStayBounded, PTL DEF Spec
<1>4. CASE NoReplay
  <2>1. TypeOK /\ WindowsClosed /\ [Next]_vars => WindowsClosed'
    BY <1>4, WindowsClosedStep DEF NoReplay
  <2>2. TypeOK /\ HoldsLock /\ Books /\ SendsExplained /\ [Next]_vars => SendsExplained'
    BY <1>4, SendsExplainedStep DEF NoReplay
  <2>3. CopiesBounded /\ FailuresPaid /\ SendsExplained /\ WindowsClosed => Account
    BY DEF Account
  <2> QED
    BY <1>1, <1>3, <2>1, <2>2, <2>3, BooksAreKept, CopiesStayBounded, PTL DEF Spec
<1>5. CASE ~NoReplay
  <2>1. CopiesBounded /\ FailuresPaid => Account
    BY <1>5 DEF Account
  <2> QED
    BY <1>3, <2>1, CopiesStayBounded, PTL
<1> QED
  BY <1>4, <1>5

\* Before sendMail, and once BullMQ has given its job up, a mail has cost no more
\* copies than MailPromise allows for faults.
LEMMA CopiesAllowed ==
    ASSUME TypeOK, HoldsLock, Books, Account, NEW r \in Rows, Live(r),
           jobState[r] = "failed" \/ \E s \in Slots : on[s] = r /\ pc[s] = "send"
    PROVE  sends[r] <= Replays
<1>1. CASE NoReplay
  <2>1. ~Recording(r)
    <3>1. CASE jobState[r] = "failed"
      BY <3>1 DEF Recording, HoldsLock, Working
    <3>2. CASE \E s \in Slots : on[s] = r /\ pc[s] = "send"
      BY <3>2, OneRecorder DEF Recording
    <3> QED
      BY <3>1, <3>2
  <2>2. sends[r] = 0
    BY <1>1, <2>1 DEF Account, SendsExplained, WindowsClosed, Accepted, Live
  <2> QED
    BY <1>1, <2>2, LimitsAssumption DEF Replays
<1>2. CASE ~NoReplay
  <2>1. Replays = MaxFaults
    BY <1>2 DEF Replays, NoReplay, WindowSafe
  <2>2. sends[r] <= used
    BY HeadingCounts DEF Account, FailuresPaid, Ahead
  <2> QED
    BY <2>1, <2>2, LimitsAssumption DEF Books, StallsPaid, TypeOK
<1> QED
  BY <1>1, <1>2

----------------------------------------------------------------------------
(* The promise of the scheduler *)

\* A step of the scheduler is a step of MailPromise, or one nobody outside sees.
LEMMA PromiseStep ==
    ASSUME Orderly, StallsCovered, TypeOK, TypeOK', HoldsLock, Books, Delivered, Account, [Next]_vars
    PROVE  [Promise!Next]_(Promise!pvars)
<1> USE DEF TypeOK, rowVars, queueVars, slotVars, actorVars, histVars
<1>1. \A r \in Rows : RowMoves(r)
  BY RowsMoveOn
<1>2. ASSUME UNCHANGED sends, \A r \in Rows : Outcome(status'[r]) = Outcome(status[r])
      PROVE  UNCHANGED Promise!pvars
  BY <1>2 DEF Promise!pvars
<1>3. CASE \E s \in Slots : SendOk(s) \/ SendLosesReply(s)
  <2>1. PICK s \in Slots : SendOk(s) \/ SendLosesReply(s)
    BY <1>3
  <2>2. PICK m \in Rows : m = on[s]
    BY <2>1 DEF SendOk, SendLosesReply, At
  <2>3. pc[s] = "send" /\ Live(m)
    BY <2>1, <2>2, OneRecorder DEF SendOk, SendLosesReply, At, Live
  <2>4. sends[m] <= Replays
    BY <2>2, <2>3, CopiesAllowed
  <2>5. sends' = [sends EXCEPT ![m] = @ + 1] /\ UNCHANGED status
    BY <2>1, <2>2 DEF SendOk, SendLosesReply
  <2>6. Promise!Deliver(m)
    BY <2>3, <2>4, <2>5 DEF Promise!Deliver, Live, Outcome
  <2> QED
    BY <2>6 DEF Promise!Next
<1>4. CASE \E s \in Slots : RecordSent(s)
  <2>1. PICK s \in Slots : RecordSent(s)
    BY <1>4
  <2>2. PICK m \in Rows : m = on[s]
    BY <2>1 DEF RecordSent, At
  <2>3. Live(m) /\ sends[m] >= 1
    BY <2>1, <2>2, OneRecorder DEF RecordSent, At, Delivered
  <2>4. status' = [status EXCEPT ![m] = "sent"] /\ UNCHANGED sends
    BY <2>1, <2>2 DEF RecordSent, SetStatus
  <2>5. Promise!Confirm(m)
    BY <2>3, <2>4 DEF Promise!Confirm, Live, Outcome
  <2> QED
    BY <2>5 DEF Promise!Next
<1>5. CASE \E m \in Rows : RecordFailed(m)
  <2>1. PICK m \in Rows : RecordFailed(m)
    BY <1>5
  <2>2. Live(m) /\ jobState[m] = "failed"
    BY <2>1 DEF RecordFailed, Books, RowsFit
  <2>3. sends[m] <= Replays
    BY <2>2, CopiesAllowed
  <2>4. status' = [status EXCEPT ![m] = "failed"] /\ UNCHANGED sends
    BY <2>1 DEF RecordFailed, SetStatus
  <2>5. Promise!Refuse(m)
    BY <2>2, <2>3, <2>4 DEF Promise!Refuse, Live, Outcome
  <2> QED
    BY <2>5 DEF Promise!Next
<1>6. CASE \E a \in Actors : CommitBatch(a)
  <2>1. PICK a \in Actors : CommitBatch(a)
    BY <1>6
  <2>2. BatchRows[a] \in SUBSET Rows /\ \A m \in BatchRows[a] : status[m] = "absent"
    BY <2>1, ActorsAssumption DEF CommitBatch, Books, ActorsFit
  <2>3. /\ status' = [r \in Rows |-> IF r \in BatchRows[a] THEN "pending" ELSE status[r]]
        /\ UNCHANGED sends
    BY <2>1 DEF CommitBatch
  <2>4. Promise!Accept(BatchRows[a])
    BY <2>2, <2>3 DEF Promise!Accept, Outcome
  <2> QED
    BY <2>2, <2>4 DEF Promise!Next
<1>7. ASSUME UNCHANGED sends,
             \A s \in Slots : ~RecordSent(s), \A m \in Rows : ~RecordFailed(m),
             \A a \in Actors : ~CommitBatch(a)
      PROVE  UNCHANGED Promise!pvars
  BY <1>1, <1>2, <1>7 DEF RowMoves, Live, Outcome
<1>8. CASE /\ \A s \in Slots : ~SendOk(s) /\ ~SendLosesReply(s) /\ ~RecordSent(s)
           /\ \A m \in Rows : ~RecordFailed(m)
           /\ \A a \in Actors : ~CommitBatch(a)
  <2>1. UNCHANGED sends
    <3>1. ASSUME NEW s \in Slots, SlotStep(s) \/ DbError(s) \/ DbLosesReply(s) \/ CrashSlot(s) \/ \E q \in Rows : Claim(s, q)
          PROVE  UNCHANGED sends
      BY <1>8, <3>1 DEF SlotStep, ReadRow, ReserveGranted, ReserveBlocked, DeferJob, DeferRow, Recheck,
         MarkProcessing, SendFails, RecordSent, Complete, Fail, GiveUp, DbError, DbLosesReply, CrashSlot, Claim
    <3>2. CASE RedisLoss \/ (\E q \in Rows : LoseLock(q)) \/ UNCHANGED vars
      BY <3>2 DEF RedisLoss, LoseLock, vars
    <3> QED
      BY <1>8, <3>1, <3>2, StepCases, ActorsSendNothing, RowsSendNothing DEF SendsNothing
  <2> QED
    BY <1>7, <1>8, <2>1
<1> QED
  BY <1>3, <1>4, <1>5, <1>6, <1>8

\* Seen from outside, the scheduler never does what MailPromise does not allow:
\* it accepts a mail, delivers it and then shows it as sent, or shows it as
\* failed.  With no fault that hits a slot in mid-job and no answer of SMTP lost
\* it delivers it at most once, and never when it shows it as failed; with such
\* faults each of them costs one copy at most.
THEOREM PromiseKept ==
    ASSUME Orderly, StallsCovered
    PROVE  Spec => Promise!Safe
<1>1. Init => Promise!Init /\ Delivered
  BY DEF Init, Promise!Init, Outcome, Delivered, SentMeansDelivered
<1>2. TypeOK /\ Delivered /\ [Next]_vars => Delivered'
  BY DeliveredStep
<1>3. (/\ TypeOK /\ TypeOK' /\ HoldsLock /\ Books /\ Delivered /\ Account
       /\ [Next]_vars)
      => [Promise!Next]_(Promise!pvars)
  BY PromiseStep
<1> QED
  BY <1>1, <1>2, <1>3, TypeCorrect, BooksAreKept, AccountIsRight, PTL DEF Spec, Promise!Safe
=============================================================================
