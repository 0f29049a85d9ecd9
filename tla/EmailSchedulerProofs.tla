------------------------ MODULE EmailSchedulerProofs -----------------------
(***************************************************************************)
(* What holds of EmailScheduler for any rows, slots, actors and limits,    *)
(* any kinds and number of faults, isolated or not:                        *)
(*   - TypeCorrect: the type invariant;                                    *)
(*   - SentIsDelivered: no row is shown as sent that SMTP did not accept;  *)
(*   - DuplicatesPaidFor: at most one copy of a message per fault, beyond  *)
(*     the first, by the inductive invariant CopiesBounded;                *)
(*   - OneSlotSends: one slot at a time sends a row, if locks last;        *)
(*   - SendersArePaidFor: otherwise one more slot for each fault at most.  *)
(***************************************************************************)
EXTENDS EmailScheduler, FiniteSetTheorems, TLAPS

----------------------------------------------------------------------------
(* Type correctness *)

\* A slot that lets its job go is idle, and holds no row (the last line of
\* Complete, Fail and GiveUp).
LEMMA ReleaseKeepsTypes ==
    ASSUME TypeOK, NEW s \in Slots, Release(s)
    PROVE  /\ pc' \in [Slots -> SlotSteps]
           /\ on' \in [Slots -> Rows \cup {NoRow}]
           /\ \A x \in Slots : pc'[x] = "idle" <=> on'[x] = NoRow
<1>1. pc' \in [Slots -> SlotSteps] /\ on' \in [Slots -> Rows \cup {NoRow}]
  BY DEF TypeOK, Release, SlotSteps
<1>2. ASSUME NEW x \in Slots PROVE pc'[x] = "idle" <=> on'[x] = NoRow
  <2>1. CASE x = s
    BY <2>1 DEF TypeOK, Release
  <2>2. CASE x # s
    BY <2>2 DEF TypeOK, Release
  <2> QED
    BY <2>1, <2>2
<1> QED
  BY <1>1, <1>2

\* BullMQ moving a job to another state keeps the types of the queue.
LEMMA LeaveKeepsTypes ==
    ASSUME TypeOK, NEW r \in Rows, NEW st \in JobStates, Leave(r, st)
    PROVE  /\ jobState' \in [Rows -> JobStates]
           /\ lock' \in [Rows -> Slots \cup {NoSlot}]
           /\ stalls' \in [Rows -> Nat] /\ late' \subseteq Rows
BY DEF TypeOK, Leave

\* The worker.on('failed') handler: the writes in flight are of rows.
LEMMA OnFailedKeepsTypes ==
    ASSUME TypeOK, NEW r \in Rows, OnFailed(r)
    PROVE  failing' \subseteq Rows
BY DEF TypeOK, OnFailed

\* TypeOK is inductive: every action of every component keeps the types.
LEMMA TypeStep == TypeOK /\ [Next]_vars => TypeOK'
<1> SUFFICES ASSUME TypeOK, [Next]_vars PROVE TypeOK'
  OBVIOUS
<1> USE RowsAssumption, SlotsAssumption, ActorsAssumption, LimitsAssumption
<1> USE DEF Actors, Statuses, JobStates, SlotSteps, ActorSteps,
            rowVars, queueVars, slotVars, actorVars, histVars
<1>1. ASSUME NEW a \in Actors, CommitBatch(a)  PROVE TypeOK'
  BY <1>1 DEF TypeOK, CommitBatch, Adding
<1>2. ASSUME NEW a \in Actors, MarkQueued(a)  PROVE TypeOK'
  <2>1. status' \in [Rows -> Statuses] /\ stale' \in [Rows -> BOOLEAN]
    BY <1>2 DEF MarkQueued, MarkAdded, TypeOK
  <2>2. AfterAdding(step[a]) \in ActorSteps
    BY <1>2 DEF MarkQueued, AfterAdding, Adding
  <2>3. step' \in [Actors -> ActorSteps] /\ ok' \in [Actors -> SUBSET Rows]
    BY <1>2, <2>2 DEF MarkQueued, TypeOK
  <2>4. todo' \in [Actors -> SUBSET Rows] /\ missing' \in [Actors -> SUBSET Rows]
    BY <1>2 DEF MarkQueued, TypeOK
  <2> QED
    BY <1>2, <2>1, <2>3, <2>4 DEF MarkQueued, TypeOK
<1>3. ASSUME NEW a \in Actors, NEW r \in Rows, AddOk(a, r)  PROVE TypeOK'
  BY <1>3 DEF TypeOK, AddOk, QueueAdd, Exists, Adding
<1>4. ASSUME NEW a \in Actors, ReadPending(a)  PROVE TypeOK'
  BY <1>4 DEF TypeOK, ReadPending, RowsIn, Adding
<1>5. ASSUME NEW a \in Actors, ReadQueued(a)  PROVE TypeOK'
  BY <1>5 DEF TypeOK, ReadQueued, RowsIn, Adding
<1>6. ASSUME NEW a \in Actors, InspectDone(a)  PROVE TypeOK'
  BY <1>6 DEF TypeOK, InspectDone, Adding
<1>7. ASSUME NEW a \in Actors, ReadStuck(a)  PROVE TypeOK'
  BY <1>7 DEF TypeOK, ReadStuck, RowsIn, Adding
<1>8. ASSUME NEW a \in Actors, Probe(a)  PROVE TypeOK'
  BY <1>8 DEF TypeOK, Probe, Exists, Fault, Adding
<1>9. ASSUME NEW a \in Actors, ResetDone(a)  PROVE TypeOK'
  BY <1>9 DEF TypeOK, ResetDone, Adding
<1>10. ASSUME NEW a \in Actors, NEW r \in Rows, Inspect(a, r)  PROVE TypeOK'
  BY <1>10 DEF TypeOK, Inspect, Exists, Adding
<1>11. ASSUME NEW a \in Actors, NEW r \in Rows, ResetRow(a, r)  PROVE TypeOK'
  BY <1>11 DEF TypeOK, ResetRow, SetStatus, Adding
<1>12. ASSUME NEW s \in Slots, ReadRow(s)  PROVE TypeOK'
  BY <1>12 DEF TypeOK, ReadRow, AlreadySent, At, GoTo, Release
<1>13. ASSUME NEW s \in Slots, ReserveGranted(s)  PROVE TypeOK'
  BY <1>13 DEF TypeOK, ReserveGranted, At, GoTo, Release
<1>14. ASSUME NEW s \in Slots, ReserveBlocked(s)  PROVE TypeOK'
  BY <1>14 DEF TypeOK, ReserveBlocked, At, GoTo, Release
<1>15. ASSUME NEW s \in Slots, DeferJob(s)  PROVE TypeOK'
  <2>1. CASE lock[on[s]] = s
    BY <1>15, <2>1 DEF TypeOK, DeferJob, Leave, At, GoTo, Release
  <2>2. CASE ~(lock[on[s]] = s)
    BY <1>15, <2>2 DEF TypeOK, DeferJob, Leave, At, GoTo, Release
  <2> QED
    BY <2>1, <2>2
<1>16. ASSUME NEW s \in Slots, DeferRow(s)  PROVE TypeOK'
  BY <1>16 DEF TypeOK, DeferRow, At, GoTo, Release
<1>17. ASSUME NEW s \in Slots, Recheck(s)  PROVE TypeOK'
  BY <1>17 DEF TypeOK, Recheck, AlreadySent, At, GoTo, Release
<1>18. ASSUME NEW s \in Slots, MarkProcessing(s)  PROVE TypeOK'
  BY <1>18 DEF TypeOK, MarkProcessing, SetStatus, At, GoTo, Release
<1>19. ASSUME NEW s \in Slots, SendOk(s)  PROVE TypeOK'
  BY <1>19 DEF TypeOK, SendOk, At, GoTo, Release
<1>20. ASSUME NEW s \in Slots, SendFails(s)  PROVE TypeOK'
  BY <1>20 DEF TypeOK, SendFails, At, GoTo, Release
<1>21. ASSUME NEW s \in Slots, RecordSent(s)  PROVE TypeOK'
  BY <1>21 DEF TypeOK, RecordSent, SetStatus, At, GoTo, Release
<1>22. ASSUME NEW s \in Slots, Complete(s)  PROVE TypeOK'
  <2>1. on[s] \in Rows
    BY <1>22 DEF TypeOK, Complete, At
  <2>2. /\ pc' \in [Slots -> SlotSteps] /\ on' \in [Slots -> Rows \cup {NoRow}]
        /\ \A x \in Slots : pc'[x] = "idle" <=> on'[x] = NoRow
    BY <1>22, ReleaseKeepsTypes DEF Complete
  <2>3. /\ jobState' \in [Rows -> JobStates] /\ lock' \in [Rows -> Slots \cup {NoSlot}]
        /\ stalls' \in [Rows -> Nat] /\ late' \subseteq Rows
    <3>1. CASE lock[on[s]] = s
      BY <1>22, <2>1, <3>1, LeaveKeepsTypes DEF Complete
    <3>2. CASE lock[on[s]] # s
      BY <1>22, <3>2 DEF Complete, TypeOK
    <3> QED
      BY <3>1, <3>2
  <2> QED
    BY <1>22, <2>2, <2>3 DEF Complete, TypeOK
<1>23. ASSUME NEW s \in Slots, Fail(s)  PROVE TypeOK'
  <2>1. on[s] \in Rows
    BY <1>23 DEF TypeOK, Fail, At
  <2>2. /\ pc' \in [Slots -> SlotSteps] /\ on' \in [Slots -> Rows \cup {NoRow}]
        /\ \A x \in Slots : pc'[x] = "idle" <=> on'[x] = NoRow
    BY <1>23, ReleaseKeepsTypes DEF Fail
  <2>3. /\ jobState' \in [Rows -> JobStates] /\ lock' \in [Rows -> Slots \cup {NoSlot}]
        /\ stalls' \in [Rows -> Nat] /\ late' \subseteq Rows
        /\ made' \in [Rows -> Nat] /\ failing' \subseteq Rows
    <3>1. CASE lock[on[s]] = s
      <4> DEFINE st == IF made[on[s]] + 1 < MaxAttempts THEN "delayed" ELSE "failed"
      <4>1. st \in JobStates
        OBVIOUS
      <4>2. /\ made' = [made EXCEPT ![on[s]] = @ + 1]
            /\ Leave(on[s], st) /\ OnFailed(on[s])
        BY <1>23, <3>1 DEF Fail
      <4> HIDE DEF st
      <4>3. made' \in [Rows -> Nat]
        BY <2>1, <4>2 DEF TypeOK
      <4>4. failing' \subseteq Rows
        BY <2>1, <4>2, OnFailedKeepsTypes
      <4> QED
        BY <2>1, <4>1, <4>2, <4>3, <4>4, LeaveKeepsTypes
    <3>2. CASE lock[on[s]] # s
      BY <1>23, <3>2 DEF Fail, TypeOK
    <3> QED
      BY <3>1, <3>2
  <2> QED
    BY <1>23, <2>2, <2>3 DEF Fail, TypeOK
<1>24. ASSUME NEW s \in Slots, GiveUp(s)  PROVE TypeOK'
  <2>1. on[s] \in Rows
    BY <1>24 DEF TypeOK, GiveUp, At
  <2>2. /\ pc' \in [Slots -> SlotSteps] /\ on' \in [Slots -> Rows \cup {NoRow}]
        /\ \A x \in Slots : pc'[x] = "idle" <=> on'[x] = NoRow
    BY <1>24, ReleaseKeepsTypes DEF GiveUp
  <2>3. /\ jobState' \in [Rows -> JobStates] /\ lock' \in [Rows -> Slots \cup {NoSlot}]
        /\ stalls' \in [Rows -> Nat] /\ late' \subseteq Rows
        /\ made' \in [Rows -> Nat] /\ failing' \subseteq Rows
    <3>1. CASE lock[on[s]] = s
      <4>1. /\ made' = [made EXCEPT ![on[s]] = @ + 1]
            /\ Leave(on[s], "failed") /\ OnFailed(on[s])
        BY <1>24, <3>1 DEF GiveUp
      <4>2. made' \in [Rows -> Nat]
        BY <2>1, <4>1 DEF TypeOK
      <4>3. failing' \subseteq Rows
        BY <2>1, <4>1, OnFailedKeepsTypes
      <4> QED
        BY <2>1, <4>1, <4>2, <4>3, LeaveKeepsTypes
    <3>2. CASE lock[on[s]] # s
      BY <1>24, <3>2 DEF GiveUp, TypeOK
    <3> QED
      BY <3>1, <3>2
  <2> QED
    BY <1>24, <2>2, <2>3 DEF GiveUp, TypeOK
<1>25. ASSUME NEW r \in Rows, RecordFailed(r)  PROVE TypeOK'
  BY <1>25 DEF TypeOK, RecordFailed, SetStatus
<1>26. ASSUME NEW s \in Slots, NEW r \in Rows, Claim(s, r)  PROVE TypeOK'
  BY <1>26 DEF TypeOK, Claim, At, GoTo, Release
<1>27. ASSUME NEW r \in Rows, Promote(r)  PROVE TypeOK'
  BY <1>27 DEF TypeOK, Promote
<1>28. ASSUME NEW r \in Rows, Stalled(r)  PROVE TypeOK'
  BY <1>28 DEF TypeOK, Stalled
<1>29. ASSUME NEW r \in Rows, LateAdd(r)  PROVE TypeOK'
  BY <1>29 DEF TypeOK, LateAdd, QueueAdd, Exists
<1>30. ASSUME NEW r \in Rows, Age(r)  PROVE TypeOK'
  BY <1>30 DEF TypeOK, Age
<1>31. ASSUME NEW a \in Actors, Abandon(a)  PROVE TypeOK'
  BY <1>31 DEF TypeOK, Abandon, Fault, Adding
<1>32. ASSUME NEW a \in Actors, InspectTimeout(a)  PROVE TypeOK'
  BY <1>32 DEF TypeOK, InspectTimeout, Fault, Adding
<1>33. ASSUME NEW a \in Actors, NEW r \in Rows, AddTimeout(a, r)  PROVE TypeOK'
  BY <1>33 DEF TypeOK, AddTimeout, Fault, Adding
<1>34. ASSUME NEW s \in Slots, DbError(s)  PROVE TypeOK'
  BY <1>34 DEF TypeOK, DbError, Fault, At, GoTo, Release
<1>46. ASSUME NEW s \in Slots, DbLosesReply(s)  PROVE TypeOK'
  <2>1. status' \in [Rows -> Statuses] /\ stale' \in [Rows -> BOOLEAN]
    BY <1>46 DEF TypeOK, Statuses, DbLosesReply, SetStatus, At
  <2> QED
    BY <1>46, <2>1 DEF TypeOK, DbLosesReply, Fault, At, GoTo
<1>35. ASSUME NEW s \in Slots, SendLosesReply(s)  PROVE TypeOK'
  BY <1>35 DEF TypeOK, SendLosesReply, Fault, At, GoTo, Release
<1>36. ASSUME NEW s \in Slots, CrashSlot(s)  PROVE TypeOK'
  BY <1>36 DEF TypeOK, CrashSlot, Fault, At, GoTo, Release
<1>37. ASSUME NEW r \in Rows, LoseLock(r)  PROVE TypeOK'
  BY <1>37 DEF TypeOK, LoseLock, Fault
<1>38. ASSUME NEW r \in Rows, LoseFailed(r)  PROVE TypeOK'
  BY <1>38 DEF TypeOK, LoseFailed, Fault
<1>39. ASSUME NEW r \in Rows, AgeSlowly(r)  PROVE TypeOK'
  BY <1>39 DEF TypeOK, AgeSlowly, Fault
<1>40. ASSUME RedisLoss  PROVE TypeOK'
  BY <1>40 DEF TypeOK, RedisLoss, Fault
<1>41. ASSUME UNCHANGED vars PROVE TypeOK'
  BY <1>41 DEF TypeOK, vars
<1>42. ASSUME FaultStep PROVE TypeOK'
  BY <1>42, <1>31, <1>32, <1>33, <1>34, <1>35, <1>36, <1>37, <1>38, <1>39, <1>40, <1>46 DEF FaultStep
<1>43. ASSUME NEW r \in Rows, RowStep(r) PROVE TypeOK'
  BY <1>43, <1>25, <1>26, <1>27, <1>28, <1>29, <1>30 DEF RowStep
<1>44. ASSUME NEW s \in Slots, SlotStep(s) PROVE TypeOK'
  BY <1>44, <1>12, <1>13, <1>14, <1>15, <1>16, <1>17, <1>18, <1>19, <1>20, <1>21, <1>22,
     <1>23, <1>24 DEF SlotStep
<1>45. ASSUME NEW a \in Actors, RequestStep(a) \/ EnqueueStep(a) \/ SweepStep(a) PROVE TypeOK'
  BY <1>45, <1>1, <1>2, <1>3, <1>4, <1>5, <1>6, <1>7, <1>8, <1>9, <1>10, <1>11
     DEF RequestStep, EnqueueStep, SweepStep
<1> QED
  BY <1>41, <1>42, <1>43, <1>44, <1>45 DEF Next

\* The type invariant holds in every reachable state of every instance.
THEOREM TypeCorrect == Spec => []TypeOK
<1>1. Init => TypeOK
  BY RowsAssumption, SlotsAssumption, ActorsAssumption
  DEF Init, TypeOK, Actors, Statuses, JobStates, SlotSteps, ActorSteps
<1> QED
  BY <1>1, TypeStep, PTL DEF Spec

----------------------------------------------------------------------------
(* What the actors can do to a delivery: re-create a job that is not there. *)

\* The part of the state the two invariants below speak of.
Untouched(r) ==
    /\ (status[r] = "sent")' => status[r] = "sent"
    /\ Available(r)' <= Available(r)

\* The step moves no slot and makes no further copy of a message possible.
SendsNothing ==
    /\ UNCHANGED <<pc, on, sends>>
    /\ used' \in {used, used + 1}
    /\ \A r \in Rows : Untouched(r)

\* Everything a request or a sweep does, its failures included.
ActorAction(a) ==
    \/ RequestStep(a) \/ EnqueueStep(a) \/ SweepStep(a)
    \/ Abandon(a) \/ InspectTimeout(a) \/ \E q \in Rows : AddTimeout(a, q)

\* What happens to a row or its job without a slot.
RowAction(q) ==
    \/ Quiet(q) /\ RecordFailed(q)
    \/ Promote(q) \/ Stalled(q) \/ LateAdd(q) \/ Age(q)
    \/ LoseFailed(q) \/ AgeSlowly(q)

\* Requests and sweeps, also when they fail or time out, send nothing, take no
\* slot anywhere, never mark a row sent and never make a second job available.
LEMMA ActorsSendNothing ==
    ASSUME TypeOK, NEW a \in Actors, ActorAction(a)
    PROVE  SendsNothing
<1> USE DEF SendsNothing, Untouched, Available, rowVars, queueVars, slotVars, actorVars, histVars
<1>1. CASE RequestStep(a)
  BY <1>1 DEF RequestStep, CommitBatch
<1>2. CASE MarkQueued(a)
  BY <1>2 DEF MarkQueued, MarkAdded
<1>3. ASSUME NEW q \in Rows, AddOk(a, q)
      PROVE SendsNothing
  BY <1>3 DEF AddOk, QueueAdd, Exists, TypeOK
<1>4. CASE SweepStep(a)
  <2>1. CASE ReadPending(a) \/ ReadQueued(a) \/ InspectDone(a) \/ ReadStuck(a) \/ ResetDone(a)
    BY <2>1 DEF ReadPending, ReadQueued, InspectDone, ReadStuck, ResetDone
  <2>2. CASE Probe(a)
    BY <2>2 DEF Probe, Fault
  <2>3. ASSUME NEW q \in Rows, Inspect(a, q)
        PROVE SendsNothing
    BY <2>3 DEF Inspect
  <2>4. ASSUME NEW q \in Rows, ResetRow(a, q)
        PROVE SendsNothing
    BY <2>4 DEF ResetRow, SetStatus, TypeOK
  <2> QED
    BY <1>4, <2>1, <2>2, <2>3, <2>4 DEF SweepStep
<1>5. CASE Abandon(a) \/ InspectTimeout(a)
  BY <1>5 DEF Abandon, InspectTimeout, Fault
<1>6. ASSUME NEW q \in Rows, AddTimeout(a, q)
      PROVE SendsNothing
  BY <1>6 DEF AddTimeout, Fault
<1> QED
  BY <1>1, <1>2, <1>3, <1>4, <1>5, <1>6 DEF ActorAction, EnqueueStep

----------------------------------------------------------------------------
(* The rows, the queue and the faults that touch no slot *)

\* Neither promotion, stalled checks, late commands, the passing of time, the
\* 'failed' write nor the faults of the stores move a slot or add a copy.
LEMMA RowsSendNothing ==
    ASSUME TypeOK, NEW q \in Rows, RowAction(q)
    PROVE  SendsNothing
<1> USE DEF SendsNothing, Untouched, Available, TypeOK, rowVars, queueVars, slotVars, actorVars, histVars
<1>1. CASE RecordFailed(q)
  BY <1>1 DEF RecordFailed, SetStatus
<1>2. CASE Promote(q) \/ Stalled(q)
  BY <1>2 DEF Promote, Stalled
<1>3. CASE LateAdd(q)
  BY <1>3 DEF LateAdd, QueueAdd, Exists
<1>4. CASE Age(q) \/ AgeSlowly(q) \/ LoseFailed(q)
  BY <1>4 DEF Age, AgeSlowly, LoseFailed, Fault
<1> QED
  BY <1>1, <1>2, <1>3, <1>4 DEF RowAction

\* The cases of a step, seen from the slots.
LEMMA StepCases ==
    ASSUME [Next]_vars
    PROVE  \/ \E a \in Actors : ActorAction(a)
           \/ \E q \in Rows : RowAction(q)
           \/ \E s \in Slots : SlotStep(s) \/ DbError(s) \/ DbLosesReply(s) \/ SendLosesReply(s) \/ CrashSlot(s)
           \/ \E s \in Slots, r \in Rows : Claim(s, r)
           \/ RedisLoss \/ \E r \in Rows : LoseLock(r)
           \/ UNCHANGED vars
<1>1. CASE FaultStep
  BY <1>1 DEF FaultStep, ActorAction, RowAction
<1>2. ASSUME NEW r \in Rows, RowStep(r)
      PROVE  (\E q \in Rows : RowAction(q)) \/ \E s \in Slots : Claim(s, r)
  BY <1>2 DEF RowStep, RowAction
<1> QED
  BY <1>1, <1>2 DEF Next, ActorAction

----------------------------------------------------------------------------
(* No row is shown as sent that SMTP did not accept *)

\* SentMeansDelivered is not inductive: the slot about to write 'sent' must
\* have had its message accepted.
Delivered ==
    /\ SentMeansDelivered
    /\ \A s \in Slots : pc[s] = "record" => sends[on[s]] >= 1

\* Only a slot whose message SMTP accepted gets to the 'sent' write.
LEMMA DeliveredStep == TypeOK /\ Delivered /\ [Next]_vars => Delivered'
<1> SUFFICES ASSUME TypeOK, Delivered, [Next]_vars PROVE Delivered'
  OBVIOUS
<1>1. ASSUME SendsNothing  PROVE Delivered'
  BY <1>1 DEF SendsNothing, Untouched, Delivered, SentMeansDelivered
<1>2. ASSUME NEW a \in Actors, ActorAction(a)  PROVE Delivered'
  BY <1>1, <1>2, ActorsSendNothing
<1>3. ASSUME NEW q \in Rows, RowAction(q)  PROVE Delivered'
  BY <1>1, <1>3, RowsSendNothing
<1> USE DEF TypeOK, Delivered, SentMeansDelivered, rowVars, queueVars, slotVars, actorVars, histVars
<1>4. ASSUME NEW s \in Slots, SlotStep(s)  PROVE Delivered'
  <2>1. CASE ReadRow(s) \/ ReserveGranted(s) \/ ReserveBlocked(s) \/ Recheck(s) \/ SendFails(s)
    BY <2>1 DEF ReadRow, ReserveGranted, ReserveBlocked, Recheck, SendFails, At, GoTo
  <2>2. CASE DeferJob(s) \/ DeferRow(s)
    BY <2>2 DEF DeferJob, DeferRow, At, GoTo
  <2>3. CASE MarkProcessing(s)
    BY <2>3 DEF MarkProcessing, SetStatus, At, GoTo
  <2>4. CASE SendOk(s)
    BY <2>4 DEF SendOk, At, GoTo
  <2>5. CASE RecordSent(s)
    BY <2>5 DEF RecordSent, SetStatus, At, GoTo
  <2>6. CASE Complete(s) \/ Fail(s) \/ GiveUp(s)
    BY <2>6 DEF Complete, Fail, GiveUp, At, Release
  <2> QED
    BY <1>4, <2>1, <2>2, <2>3, <2>4, <2>5, <2>6 DEF SlotStep
<1>5. ASSUME NEW s \in Slots, NEW r \in Rows, Claim(s, r)  PROVE Delivered'
  BY <1>5 DEF Claim, At
<1>6. ASSUME NEW s \in Slots, DbError(s) \/ CrashSlot(s)  PROVE Delivered'
  BY <1>6 DEF DbError, CrashSlot, At, GoTo, Release
<1>10. ASSUME NEW s \in Slots, DbLosesReply(s)  PROVE Delivered'
  BY <1>10 DEF DbLosesReply, SetStatus, At, GoTo
<1>7. ASSUME NEW s \in Slots, SendLosesReply(s)  PROVE Delivered'
  BY <1>7 DEF SendLosesReply, At, GoTo
<1>8. ASSUME RedisLoss \/ \E r \in Rows : LoseLock(r)  PROVE Delivered'
  BY <1>8 DEF RedisLoss, LoseLock
<1>9. CASE UNCHANGED vars
  BY <1>9 DEF vars
<1> QED
  BY <1>2, <1>3, <1>4, <1>5, <1>6, <1>7, <1>8, <1>9, <1>10, StepCases

\* A row shown as sent has been accepted by SMTP at least once.
THEOREM SentIsDelivered == Spec => []SentMeansDelivered
<1>1. Init => Delivered
  BY DEF Init, Delivered, SentMeansDelivered
<1>2. Delivered => SentMeansDelivered
  BY DEF Delivered
<1> QED
  BY <1>1, <1>2, TypeCorrect, DeliveredStep, PTL DEF Spec

----------------------------------------------------------------------------
(* At most one copy of a message per fault, beyond the first *)

\* Everything that happens to one slot.
SlotAction(s) ==
    \/ SlotStep(s) \/ DbError(s) \/ DbLosesReply(s) \/ SendLosesReply(s) \/ CrashSlot(s)
    \/ \E r \in Rows : Claim(s, r)

\* The copies of r that the accepted messages, slot s and the job account for.
Own(s, r) == IF s \in Heading(r) THEN 1 ELSE 0
Local(s, r) == sends[r] + Own(s, r) + Available(r)

\* The slots heading for a send of one row can be counted.
LEMMA HeadingFinite ==
    ASSUME NEW r
    PROVE  IsFiniteSet(Heading(r)) /\ Cardinality(Heading(r)) \in Nat
  BY SlotsAssumption, FS_Subset, FS_CardinalityType DEF Heading

\* When only slot s moves, the number of slots heading for a send of r changes
\* by what s contributes.
LEMMA HeadingStep ==
    ASSUME NEW r, NEW s \in Slots,
           \A t \in Slots \ {s} : pc'[t] = pc[t] /\ on'[t] = on[t]
    PROVE  Cardinality(Heading(r))' = Cardinality(Heading(r)) - Own(s, r) + Own(s, r)'
<1>1. IsFiniteSet(Heading(r)) /\ Cardinality(Heading(r)) \in Nat
  BY HeadingFinite
<1>2. CASE (s \in Heading(r)') = (s \in Heading(r))
  <2>1. Heading(r)' = Heading(r)
    BY <1>2 DEF Heading
  <2> QED
    BY <1>1, <1>2, <2>1 DEF Own
<1>3. CASE s \in Heading(r)' /\ s \notin Heading(r)
  <2>1. Heading(r)' = Heading(r) \cup {s}
    BY <1>3 DEF Heading
  <2>2. Cardinality(Heading(r) \cup {s}) = Cardinality(Heading(r)) + 1
    BY <1>1, <1>3, FS_AddElement
  <2> QED
    BY <1>1, <1>3, <2>1, <2>2 DEF Own
<1>4. CASE s \notin Heading(r)' /\ s \in Heading(r)
  <2>1. Heading(r)' = Heading(r) \ {s}
    BY <1>4 DEF Heading
  <2>2. Cardinality(Heading(r) \ {s}) = Cardinality(Heading(r)) - 1
    BY <1>1, <1>4, FS_RemoveElement
  <2> QED
    BY <1>1, <1>4, <2>1, <2>2 DEF Own
<1> QED
  BY <1>2, <1>3, <1>4

\* A slot moves alone, and whatever it adds to the copies of a row a fault pays.
SlotPays(s) ==
    /\ \A t \in Slots \ {s} : pc'[t] = pc[t] /\ on'[t] = on[t]
    /\ used' \in {used, used + 1}
    /\ \A r \in Rows : Local(s, r)' - used' <= Local(s, r) - used

\* Every action of a slot pays: sendMail turns the slot's own copy into an
\* accepted one, a retry hands it back to the job, a fault buys another.
LEMMA SlotActionPays ==
    ASSUME TypeOK, NEW s \in Slots, SlotAction(s)
    PROVE  SlotPays(s)
<1> USE DEF SlotPays, Local, Own, Heading, Ahead, Available, At, TypeOK,
            rowVars, queueVars, slotVars, actorVars, histVars
<1>1. CASE ReadRow(s) \/ ReserveGranted(s) \/ ReserveBlocked(s) \/ Recheck(s) \/ SendFails(s)
  BY <1>1 DEF ReadRow, ReserveGranted, ReserveBlocked, Recheck, SendFails, GoTo
<1>2. CASE DeferJob(s)
  <2>1. CASE lock[on[s]] = s
    BY <1>2, <2>1 DEF DeferJob, GoTo, Leave
  <2>2. CASE lock[on[s]] # s
    BY <1>2, <2>2 DEF DeferJob, GoTo
  <2> QED
    BY <2>1, <2>2
<1>3. CASE DeferRow(s) \/ MarkProcessing(s) \/ RecordSent(s)
  BY <1>3 DEF DeferRow, MarkProcessing, RecordSent, GoTo
<1>4. CASE SendOk(s)
  BY <1>4 DEF SendOk, GoTo
<1>5. CASE Complete(s)
  <2>1. CASE lock[on[s]] = s
    BY <1>5, <2>1 DEF Complete, Release, Leave
  <2>2. CASE lock[on[s]] # s
    BY <1>5, <2>2 DEF Complete, Release
  <2> QED
    BY <2>1, <2>2
<1>6. CASE Fail(s)
  <2>1. CASE lock[on[s]] = s
    BY <1>6, <2>1 DEF Fail, Release, Leave
  <2>2. CASE lock[on[s]] # s
    BY <1>6, <2>2 DEF Fail, Release
  <2> QED
    BY <2>1, <2>2
<1>7. CASE GiveUp(s)
  <2>1. CASE lock[on[s]] = s
    BY <1>7, <2>1 DEF GiveUp, Release, Leave
  <2>2. CASE lock[on[s]] # s
    BY <1>7, <2>2 DEF GiveUp, Release
  <2> QED
    BY <2>1, <2>2
<1>8. CASE DbError(s) \/ DbLosesReply(s)
  BY <1>8 DEF DbError, DbLosesReply, GoTo, Fault
<1>9. CASE SendLosesReply(s)
  BY <1>9 DEF SendLosesReply, GoTo, Fault
<1>10. CASE CrashSlot(s)
  BY <1>10 DEF CrashSlot, Release, Fault
<1>11. ASSUME NEW r \in Rows, Claim(s, r)  PROVE SlotPays(s)
  BY <1>11, SlotsAssumption DEF Claim
<1> QED
  BY <1>1, <1>2, <1>3, <1>4, <1>5, <1>6, <1>7, <1>8, <1>9, <1>10, <1>11 DEF SlotAction, SlotStep

\* CopiesBounded is inductive: no step adds a copy that no fault has paid for.
LEMMA CopiesStep == TypeOK /\ CopiesBounded /\ [Next]_vars => CopiesBounded'
<1> SUFFICES ASSUME TypeOK, CopiesBounded, [Next]_vars PROVE CopiesBounded'
  OBVIOUS
<1>1. \A r \in Rows : /\ sends[r] \in Nat /\ Available(r) \in 0..1
                      /\ Cardinality(Heading(r)) \in Nat
                      /\ sends[r] + Cardinality(Heading(r)) + Available(r) <= 1 + used
  BY HeadingFinite DEF TypeOK, Available, CopiesBounded
<1>2. used \in Nat /\ TypeOK'
  BY TypeStep DEF TypeOK
<1>3. \A r \in Rows : sends'[r] \in Nat /\ Available(r)' \in 0..1
  BY <1>2 DEF TypeOK, Available
<1>4. ASSUME SendsNothing  PROVE CopiesBounded'
  <2>1. \A r \in Rows : Cardinality(Heading(r))' = Cardinality(Heading(r))
    BY <1>4 DEF SendsNothing, Heading
  <2> QED
    BY <1>1, <1>2, <1>3, <1>4, <2>1 DEF SendsNothing, Untouched, CopiesBounded
<1>5. ASSUME NEW s \in Slots, SlotAction(s)  PROVE CopiesBounded'
  <2>1. SlotPays(s)
    BY <1>5, SlotActionPays
  <2> SUFFICES ASSUME NEW r \in Rows
               PROVE  (sends[r] + Cardinality(Heading(r)) + Available(r) <= 1 + used)'
    BY DEF CopiesBounded
  <2>2. Cardinality(Heading(r))' = Cardinality(Heading(r)) - Own(s, r) + Own(s, r)'
    BY <2>1, HeadingStep DEF SlotPays
  <2>3. Own(s, r) \in 0..1 /\ Own(s, r)' \in 0..1
    BY DEF Own
  <2>4. Local(s, r)' - used' <= Local(s, r) - used /\ used' \in Nat
    BY <1>2, <2>1 DEF SlotPays
  <2> QED
    BY <1>1, <1>2, <1>3, <2>2, <2>3, <2>4 DEF Local
<1>6. ASSUME RedisLoss \/ \E r \in Rows : LoseLock(r)  PROVE CopiesBounded'
  <2>1. UNCHANGED <<pc, on, sends>> /\ used' = used + 1
    BY <1>6 DEF RedisLoss, LoseLock, Fault, slotVars
  <2>2. \A r \in Rows : Cardinality(Heading(r))' = Cardinality(Heading(r))
    BY <2>1 DEF Heading
  <2> QED
    BY <1>1, <1>2, <1>3, <2>1, <2>2 DEF CopiesBounded
<1>7. CASE UNCHANGED vars
  <2>1. SendsNothing
    BY <1>2, <1>7 DEF vars, rowVars, queueVars, slotVars, histVars, SendsNothing, Untouched, Available
  <2> QED
    BY <1>4, <2>1
<1> QED
  BY <1>4, <1>5, <1>6, <1>7, StepCases, ActorsSendNothing, RowsSendNothing DEF SlotAction

\* Every copy of a message that was sent, or can still be sent without a further
\* fault, is the first or is paid for by a fault, in any interleaving of requests,
\* sweeps and slots (queues/emailQueue.ts 26, enqueueService.ts 47).
THEOREM CopiesStayBounded == Spec => []CopiesBounded
<1>1. Init => CopiesBounded
  <2> SUFFICES ASSUME Init PROVE CopiesBounded
    OBVIOUS
  <2>1. \A r \in Rows : Heading(r) = {}
    BY DEF Init, Heading, Ahead
  <2>2. \A r \in Rows : Cardinality(Heading(r)) = 0
    BY <2>1, FS_EmptySet
  <2>3. \A r \in Rows : sends[r] = 0 /\ Available(r) \in 0..1
    BY DEF Init, Available
  <2> QED
    BY <2>2, <2>3 DEF Init, CopiesBounded
<1> QED
  BY <1>1, TypeCorrect, CopiesStep, PTL DEF Spec

\* Seen from the recipient: with no faults nothing is sent twice, and with some
\* no more copies than faults are sent beyond the first.
THEOREM DuplicatesPaidFor == Spec => []DuplicateBound
<1>1. TypeOK /\ CopiesBounded => DuplicateBound
  BY HeadingFinite DEF TypeOK, CopiesBounded, DuplicateBound, Available
<1> QED
  BY <1>1, TypeCorrect, CopiesStayBounded, PTL

----------------------------------------------------------------------------
(* The lock of a job *)

\* Whoever is in the part of processJob that sends holds the lock of its job.
HoldsLock ==
    \A s \in Slots : pc[s] \in Working => lock[on[s]] = s /\ jobState[on[s]] = "active"

\* The faults under which a live slot keeps what it holds.
LocksLast == Faults \cap {"stall", "redisLoss"} = {}

LEMMA SlotsHold ==
    ASSUME TypeOK, HoldsLock, NEW s \in Slots,
           SlotStep(s) \/ DbError(s) \/ DbLosesReply(s) \/ SendLosesReply(s) \/ CrashSlot(s)
    PROVE  HoldsLock'
<1> USE DEF Working
<1>1. on[s] \in Rows
  BY DEF SlotStep, DbError, DbLosesReply, SendLosesReply, CrashSlot, At, TypeOK
<1>2. ASSUME UNCHANGED <<lock, jobState, on>>, \A t \in Slots \ {s} : pc'[t] = pc[t],
             pc[s] \in Working \/ pc'[s] \notin Working
      PROVE  HoldsLock'
  BY <1>2 DEF HoldsLock
<1>3. CASE ReadRow(s) \/ ReserveGranted(s) \/ ReserveBlocked(s) \/ Recheck(s) \/ MarkProcessing(s)
           \/ SendOk(s) \/ SendFails(s) \/ RecordSent(s)
  BY <1>2, <1>3 DEF ReadRow, ReserveGranted, ReserveBlocked, Recheck, MarkProcessing, SendOk, SendFails,
                    RecordSent, GoTo, At, queueVars, TypeOK
<1>4. CASE DbError(s) \/ DbLosesReply(s) \/ SendLosesReply(s) \/ DeferRow(s)
  BY <1>2, <1>4 DEF DbError, DbLosesReply, SendLosesReply, DeferRow, GoTo, At, queueVars, TypeOK
<1>5. ASSUME \A t \in Slots \ {s} : pc'[t] = pc[t] /\ on'[t] = on[t], pc'[s] \notin Working,
             \A r \in Rows : lock[r] # s => lock'[r] = lock[r] /\ jobState'[r] = jobState[r]
      PROVE  HoldsLock'
  <2> SUFFICES ASSUME NEW t \in Slots, pc'[t] \in Working
               PROVE  lock'[on'[t]] = t /\ jobState'[on'[t]] = "active"
    BY DEF HoldsLock
  <2>1. t # s /\ on'[t] = on[t] /\ lock[on[t]] = t /\ jobState[on[t]] = "active"
    BY <1>5 DEF HoldsLock
  <2>2. on[t] \in Rows
    BY <1>5, <2>1 DEF TypeOK
  <2> QED
    BY <1>5, <2>1, <2>2
<1>6. CASE DeferJob(s)
  BY <1>1, <1>5, <1>6 DEF DeferJob, Leave, GoTo, TypeOK
<1>7. CASE Complete(s)
  BY <1>1, <1>5, <1>7 DEF Complete, Leave, Release, TypeOK
<1>8. CASE Fail(s) \/ GiveUp(s)
  BY <1>1, <1>5, <1>8 DEF Fail, GiveUp, Leave, Release, queueVars, TypeOK
<1>9. CASE CrashSlot(s)
  BY <1>1, <1>5, <1>9 DEF CrashSlot, Release, TypeOK
<1> QED
  BY <1>3, <1>4, <1>6, <1>7, <1>8, <1>9 DEF SlotStep

LEMMA HoldsLockStep ==
    ASSUME LocksLast
    PROVE  TypeOK /\ HoldsLock /\ [Next]_vars => HoldsLock'
<1> SUFFICES ASSUME TypeOK, HoldsLock, [Next]_vars PROVE HoldsLock'
  OBVIOUS
<1> USE SlotsAssumption
<1>1. ASSUME UNCHANGED <<pc, on>>,
             \A r \in Rows : lock[r] # NoSlot /\ jobState[r] = "active"
                             => lock'[r] = lock[r] /\ jobState'[r] = jobState[r]
      PROVE  HoldsLock'
  <2>1. \A t \in Slots : pc[t] \in Working => on[t] \in Rows
    BY DEF TypeOK, Working
  <2> QED
    BY <1>1, <2>1 DEF HoldsLock
<1>2. ASSUME NEW a \in Actors, ActorAction(a) PROVE HoldsLock'
  BY <1>1, <1>2 DEF ActorAction, RequestStep, CommitBatch, EnqueueStep, MarkQueued, AddOk, QueueAdd,
     Exists, SweepStep, ReadPending, ReadQueued, InspectDone, ReadStuck, Probe, ResetDone, Inspect,
     ResetRow, Abandon, InspectTimeout, AddTimeout, slotVars, queueVars, TypeOK
<1>3. ASSUME NEW q \in Rows, RowAction(q) PROVE HoldsLock'
  BY <1>1, <1>3 DEF RowAction, RecordFailed, Promote, Stalled, LateAdd, QueueAdd, Exists, Age, LoseFailed,
     AgeSlowly, slotVars, queueVars, TypeOK
<1>4. ASSUME NEW s \in Slots, NEW r \in Rows, Claim(s, r) PROVE HoldsLock'
  <2>1. \A t \in Slots : pc[t] \in Working => on[t] \in Rows /\ on[t] # r
    BY <1>4 DEF Claim, HoldsLock, TypeOK, Working
  <2> QED
    BY <1>4, <2>1 DEF Claim, HoldsLock, TypeOK
<1>5. CASE RedisLoss
  <2>1. UNCHANGED <<pc, on>> /\ \A s \in Slots : pc[s] = "idle"
    BY <1>5 DEF RedisLoss, Fault, LocksLast, At, slotVars
  <2> QED
    BY <2>1 DEF HoldsLock, Working
<1>6. ASSUME NEW r \in Rows, LoseLock(r) PROVE FALSE
  BY <1>6 DEF LoseLock, Fault, LocksLast
<1>7. CASE UNCHANGED vars
  BY <1>7 DEF vars, slotVars, queueVars, HoldsLock
<1> QED
  BY <1>2, <1>3, <1>4, <1>5, <1>6, <1>7, SlotsHold, StepCases

\* As long as locks last while their slots live, also across crashes, retries,
\* deferrals and sweeps, at most one slot at a time is on its way to send a row
\* (emailWorker.ts 72-160).
THEOREM OneSlotSends ==
    ASSUME LocksLast
    PROVE  Spec => []OneSender
<1>1. Init => HoldsLock
  BY DEF Init, HoldsLock, Working
<1>2. TypeOK /\ HoldsLock => OneSender
  BY DEF HoldsLock, OneSender
<1>3. TypeOK /\ HoldsLock /\ [Next]_vars => HoldsLock'
  BY HoldsLockStep
<1> QED
  BY <1>1, <1>2, <1>3, TypeCorrect, PTL DEF Spec

----------------------------------------------------------------------------
(* What is left of OneSender when locks get lost *)

\* The slots at work on row r, and those about to record it as sent.
Senders(r)   == {s \in Slots : on[s] = r /\ pc[s] \in Working}
Recorders(r) == {s \in Slots : on[s] = r /\ pc[s] = "record"}

\* Each slot that is about to record a row has had a copy of its own accepted.
RecordersPaid == \A r \in Rows : Cardinality(Recorders(r)) <= sends[r]

\* However many locks are lost, each slot at work on a row beyond the first is
\* paid for by a fault of its own.
SendersPaid == \A r \in Rows : Cardinality(Senders(r)) <= 1 + used

\* When only slot s moves, the recorders of r grow by s at most.
LEMMA RecordersGrow ==
    ASSUME NEW r, NEW s \in Slots,
           \A t \in Slots \ {s} : pc'[t] = pc[t] /\ on'[t] = on[t]
    PROVE  /\ Cardinality(Recorders(r)) \in Nat /\ Cardinality(Recorders(r))' \in Nat
           /\ Cardinality(Recorders(r))' <= Cardinality(Recorders(r)) + 1
           /\ on'[s] # r \/ pc'[s] # "record"
              => Cardinality(Recorders(r))' <= Cardinality(Recorders(r))
<1>1. IsFiniteSet(Recorders(r)) /\ Cardinality(Recorders(r)) \in Nat
  BY SlotsAssumption, FS_Subset, FS_CardinalityType DEF Recorders
<1>2. Recorders(r)' \subseteq Recorders(r) \cup {s}
  BY DEF Recorders
<1>3. /\ IsFiniteSet(Recorders(r) \cup {s})
      /\ Cardinality(Recorders(r) \cup {s}) <= Cardinality(Recorders(r)) + 1
  <2>1. /\ IsFiniteSet(Recorders(r) \cup {s})
        /\ \/ Cardinality(Recorders(r) \cup {s}) = Cardinality(Recorders(r))
           \/ Cardinality(Recorders(r) \cup {s}) = Cardinality(Recorders(r)) + 1
    BY <1>1, FS_AddElement
  <2> QED
    BY <1>1, <2>1
<1>4. /\ IsFiniteSet(Recorders(r)') /\ Cardinality(Recorders(r)') \in Nat
      /\ Cardinality(Recorders(r)') <= Cardinality(Recorders(r) \cup {s})
  BY <1>2, <1>3, FS_Subset, FS_CardinalityType
<1>5. Cardinality(Recorders(r) \cup {s}) \in Nat
  BY <1>3, FS_CardinalityType
<1>6. ASSUME on'[s] # r \/ pc'[s] # "record"
      PROVE  Cardinality(Recorders(r)') <= Cardinality(Recorders(r))
  <2>1. Recorders(r)' \subseteq Recorders(r)
    BY <1>6 DEF Recorders
  <2> QED
    BY <1>1, <2>1, FS_Subset
<1> QED
  BY <1>1, <1>3, <1>4, <1>5, <1>6

\* RecordersPaid is inductive: only sendMail leads to the 'sent' write.
LEMMA RecordersStep == TypeOK /\ RecordersPaid /\ [Next]_vars => RecordersPaid'
<1> SUFFICES ASSUME TypeOK, RecordersPaid, [Next]_vars PROVE RecordersPaid'
  OBVIOUS
<1> USE DEF RecordersPaid
<1>1. ASSUME UNCHANGED <<pc, on, sends>>  PROVE RecordersPaid'
  BY <1>1 DEF Recorders
<1>2. ASSUME SendsNothing  PROVE RecordersPaid'
  BY <1>1, <1>2 DEF SendsNothing, Untouched
<1>3. ASSUME NEW s \in Slots, SlotAction(s)  PROVE RecordersPaid'
  <2>1. \A t \in Slots \ {s} : pc'[t] = pc[t] /\ on'[t] = on[t]
    BY <1>3, SlotActionPays DEF SlotPays
  <2>2. \A r \in Rows : sends[r] \in Nat
    BY DEF TypeOK
  <2>3. CASE SendOk(s)
    <3>1. /\ on[s] \in Rows /\ on' = on
          /\ sends' = [sends EXCEPT ![on[s]] = @ + 1]
      BY <2>3 DEF SendOk, At, GoTo, TypeOK
    <3> QED
      BY <2>1, <2>2, <3>1, RecordersGrow DEF TypeOK
  <2>4. CASE ~SendOk(s)
    <3>1. \A r \in Rows : sends'[r] \in Nat /\ sends'[r] >= sends[r]
      BY <1>3, <2>2, <2>4 DEF SlotAction, SlotStep, ReadRow, ReserveGranted, ReserveBlocked, DeferJob, DeferRow,
         Recheck, MarkProcessing, SendFails, RecordSent, Complete, Fail, GiveUp, DbError, DbLosesReply, SendLosesReply,
         CrashSlot, Claim, TypeOK, histVars
    <3>2. pc'[s] # "record"
      <4>1. CASE ReadRow(s) \/ ReserveGranted(s) \/ ReserveBlocked(s) \/ Recheck(s) \/ MarkProcessing(s)
                 \/ SendFails(s) \/ RecordSent(s) \/ DbError(s) \/ DbLosesReply(s) \/ SendLosesReply(s)
        BY <4>1 DEF ReadRow, ReserveGranted, ReserveBlocked, Recheck, MarkProcessing, SendFails, RecordSent,
           DbError, DbLosesReply, SendLosesReply, GoTo, TypeOK
      <4>2. CASE DeferJob(s) \/ DeferRow(s)
        BY <4>2 DEF DeferJob, DeferRow, GoTo, TypeOK
      <4>3. CASE Complete(s) \/ Fail(s) \/ GiveUp(s) \/ CrashSlot(s)
        BY <4>3 DEF Complete, Fail, GiveUp, CrashSlot, Release, TypeOK
      <4>4. CASE \E r \in Rows : Claim(s, r)
        BY <4>4 DEF Claim, TypeOK
      <4> QED
        BY <1>3, <2>4, <4>1, <4>2, <4>3, <4>4 DEF SlotAction, SlotStep
    <3> QED
      BY <2>1, <2>2, <3>1, <3>2, RecordersGrow
  <2> QED
    BY <2>3, <2>4
<1>4. CASE RedisLoss \/ (\E r \in Rows : LoseLock(r)) \/ UNCHANGED vars
  BY <1>1, <1>4 DEF RedisLoss, LoseLock, vars, slotVars, histVars
<1> QED
  BY <1>2, <1>3, <1>4, StepCases, ActorsSendNothing, RowsSendNothing DEF SlotAction

\* With stalls, lost locks and Redis coming back empty in any interleaving, the
\* slots at work on a row are at most one more than the faults so far.
THEOREM SendersArePaidFor == Spec => []SendersPaid
<1>1. Init => RecordersPaid
  <2> SUFFICES ASSUME Init PROVE RecordersPaid
    OBVIOUS
  <2>1. \A r \in Rows : Recorders(r) = {} /\ sends[r] = 0
    BY DEF Init, Recorders
  <2> QED
    BY <2>1, FS_EmptySet DEF RecordersPaid
<1>2. TypeOK /\ CopiesBounded /\ RecordersPaid => SendersPaid
  <2> SUFFICES ASSUME TypeOK, CopiesBounded, RecordersPaid, NEW r \in Rows
               PROVE  Cardinality(Senders(r)) <= 1 + used
    BY DEF SendersPaid
  <2>1. IsFiniteSet(Heading(r)) /\ Cardinality(Heading(r)) \in Nat
    BY HeadingFinite
  <2>2. IsFiniteSet(Recorders(r)) /\ Cardinality(Recorders(r)) \in Nat
    BY SlotsAssumption, FS_Subset, FS_CardinalityType DEF Recorders
  <2>3. Heading(r) \cap Recorders(r) = {}
    BY DEF Heading, Recorders, Ahead
  <2>4. /\ IsFiniteSet(Heading(r) \cup Recorders(r))
        /\ Cardinality(Heading(r) \cup Recorders(r)) = Cardinality(Heading(r)) + Cardinality(Recorders(r))
    <3>1. Cardinality(Heading(r) \cap Recorders(r)) = 0
      BY <2>3, FS_EmptySet
    <3>2. /\ IsFiniteSet(Heading(r) \cup Recorders(r))
          /\ Cardinality(Heading(r) \cup Recorders(r))
             = Cardinality(Heading(r)) + Cardinality(Recorders(r)) - Cardinality(Heading(r) \cap Recorders(r))
      BY <2>1, <2>2, FS_Union
    <3> QED
      BY <2>1, <2>2, <3>1, <3>2
  <2>5. Senders(r) \subseteq Heading(r) \cup Recorders(r)
    BY DEF Senders, Working, Heading, Ahead, Recorders
  <2>6. /\ Cardinality(Senders(r)) <= Cardinality(Heading(r) \cup Recorders(r))
        /\ Cardinality(Senders(r)) \in Nat
    BY <2>4, <2>5, FS_Subset, FS_CardinalityType
  <2> QED
    BY <2>1, <2>2, <2>4, <2>6 DEF TypeOK, CopiesBounded, RecordersPaid, Available
<1> QED
  BY <1>1, <1>2, RecordersStep, TypeCorrect, CopiesStayBounded, PTL DEF Spec
============================================================================
