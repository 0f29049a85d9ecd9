----------------------------- MODULE MailQueue -----------------------------
(***************************************************************************)
(* BullMQ, as the code uses it: one queue per sender, job ids derived from *)
(* the row, a lock per active job, attempts with a delayed retry, and the  *)
(* stalled-job check.  The library is not part of the repository; this     *)
(* module is its contract as queues/emailQueue.ts, enqueueService.ts and   *)
(* emailWorker.ts rely on it.  DEFAULT_JOB_OPTIONS has no removeOnComplete *)
(* and no removeOnFail, so finished jobs are kept and a job id stays taken *)
(* until Redis loses it.                                                   *)
(***************************************************************************)
EXTENDS MailState

Runnable(r) == jobState[r] \in {"delayed", "wait", "active"}
Exists(r)   == jobState[r] # "none"

\* Mutant of QueueAdd: without the deterministic job id every add makes a job.
QueueAddAnew(r) ==
    /\ jobState' = [jobState EXCEPT ![r] = "delayed"]
    /\ UNCHANGED <<made, stalls, lock>>

\* queue.add with jobId email-{row}: a no-op when the id is taken.
QueueAdd(r) ==
    /\ jobState' = [jobState EXCEPT ![r] = IF Exists(r) THEN @ ELSE "delayed"]
    /\ UNCHANGED <<made, stalls, lock>>

\* The delay of a job has passed (also the delay of a retry or of a deferral).
Promote(r) ==
    /\ jobState[r] = "delayed"
    /\ jobState' = [jobState EXCEPT ![r] = "wait"]
    /\ UNCHANGED <<made, stalls, lock, late, rowVars, slotVars, actorVars, histVars>>

\* A slot fetches a job and takes its lock.  A job that stalled too often is
\* handed over only to be failed with an UnrecoverableError.
Claim(s, r) ==
    /\ At(s, "idle") /\ jobState[r] = "wait"
    /\ jobState' = [jobState EXCEPT ![r] = "active"]
    /\ lock' = [lock EXCEPT ![r] = s]
    /\ pc' = [pc EXCEPT ![s] = IF stalls[r] > MaxStalledCount THEN "giveUp" ELSE "read"]
    /\ on' = [on EXCEPT ![s] = r]
    /\ UNCHANGED <<made, stalls, late, failing, rowVars, actorVars, histVars>>

\* Job r leaves the active state; the lock is released.
Leave(r, st) ==
    /\ jobState' = [jobState EXCEPT ![r] = st]
    /\ lock' = [lock EXCEPT ![r] = NoSlot]
    /\ UNCHANGED <<stalls, late>>

\* The stalled-job check finds an active job whose lock has expired.
Stalled(r) ==
    /\ jobState[r] = "active" /\ lock[r] = NoSlot
    /\ jobState' = [jobState EXCEPT ![r] = "wait"]
    /\ stalls' = [stalls EXCEPT ![r] = @ + 1]
    /\ UNCHANGED <<made, lock, late, rowVars, slotVars, actorVars, histVars>>

\* A live worker misses its renewals (a blocked event loop): its lock expires.
LoseLock(r) ==
    /\ jobState[r] = "active" /\ lock[r] # NoSlot
    /\ Fault("stall")
    /\ lock' = [lock EXCEPT ![r] = NoSlot]
    /\ UNCHANGED <<jobState, made, stalls, late, rowVars, slotVars, actorVars,
                   sends, windowCrash>>

\* Redis restarts without its data.
RedisLoss ==
    /\ \/ Fault("redisLoss")
       \/ /\ Fault("coldLoss")
          /\ \A s \in Slots : At(s, "idle")
          /\ failing = {} /\ late = {} /\ \A a \in Sweepers : step[a] = "idle"
    /\ \E r \in Rows : Exists(r)
    /\ jobState' = [r \in Rows |-> "none"]
    /\ made' = [r \in Rows |-> 0]
    /\ stalls' = [r \in Rows |-> 0]
    /\ lock' = [r \in Rows |-> NoSlot]
    /\ UNCHANGED <<late, rowVars, slotVars, actorVars, sends, windowCrash>>

\* A queue.add whose caller has stopped waiting reaches Redis after all.
LateAdd(r) ==
    /\ r \in late
    /\ late' = late \ {r}
    /\ QueueAdd(r)
    /\ UNCHANGED <<rowVars, slotVars, actorVars, histVars>>
============================================================================
