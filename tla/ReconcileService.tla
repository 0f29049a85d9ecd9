-------------------------- MODULE ReconcileService -------------------------
(***************************************************************************)
(* services/reconcileService.ts: one pass reads the pending rows and       *)
(* enqueues them, reads the queued rows, looks each one's job up and       *)
(* enqueues the overdue and the missing ones, reads the rows stuck in      *)
(* 'processing', resets each, looks its job up and enqueues those that     *)
(* have none.  Every set is read once and used after many awaits.          *)
(***************************************************************************)
EXTENDS EnqueueService

RowsIn(st) == {r \in Rows : status[r] = st}

\* reconcilePending, behind the checkRedis of runReconciliation (a pass that
\* finds Redis down does nothing at all).
ReadPending(a) ==
    /\ a \in Sweepers /\ step[a] = "idle"
    /\ todo' = [todo EXCEPT ![a] = RowsIn("pending")]
    /\ step' = [step EXCEPT ![a] = "addPending"]
    /\ UNCHANGED <<rowVars, queueVars, slotVars, ok, look, missing, cur, histVars>>

ReadQueued(a) ==
    /\ step[a] = "readQueued"
    /\ look' = [look EXCEPT ![a] = RowsIn("queued")]
    /\ step' = [step EXCEPT ![a] = "inspect"]
    /\ UNCHANGED <<rowVars, queueVars, slotVars, todo, ok, missing, cur, histVars>>

\* Mutant of Inspect: an unknown job state is taken for a job that is there.
InspectOverdueOnly(a, r) ==
    /\ step[a] = "inspect" /\ r \in look[a]
    /\ look' = [look EXCEPT ![a] = @ \ {r}]
    /\ \/ jobState[r] = "delayed" /\ todo' = [todo EXCEPT ![a] = @ \cup {r}]
       \/ UNCHANGED todo
    /\ UNCHANGED <<rowVars, queueVars, slotVars, step, ok, missing, cur, histVars>>

\* One row of the inspection: no job -> missing; still delayed although its
\* scheduledAt has passed -> to be promoted (into todo); else left alone.
\* Whether scheduledAt has passed is left open.
Inspect(a, r) ==
    /\ step[a] = "inspect" /\ r \in look[a]
    /\ look' = [look EXCEPT ![a] = @ \ {r}]
    /\ \/ ~Exists(r) /\ missing' = [missing EXCEPT ![a] = @ \cup {r}] /\ UNCHANGED todo
       \/ jobState[r] = "delayed" /\ todo' = [todo EXCEPT ![a] = @ \cup {r}] /\ UNCHANGED missing
       \/ Exists(r) /\ UNCHANGED <<todo, missing>>
    /\ UNCHANGED <<rowVars, queueVars, slotVars, step, ok, cur, histVars>>

\* getJobState times out: the rows not inspected yet are left for the next pass.
InspectTimeout(a) ==
    /\ step[a] = "inspect" /\ look[a] # {}
    /\ Fault("redisTimeout")
    /\ look' = [look EXCEPT ![a] = {}]
    /\ UNCHANGED <<rowVars, queueVars, slotVars, step, todo, ok, missing, cur, sends, windowCrash>>

InspectDone(a) ==
    /\ step[a] = "inspect" /\ look[a] = {}
    /\ step' = [step EXCEPT ![a] = "addOverdue"]
    /\ UNCHANGED <<rowVars, queueVars, slotVars, todo, ok, look, missing, cur, histVars>>

ReadStuck(a) ==
    /\ step[a] = "readStuck"
    /\ look' = [look EXCEPT ![a] = {r \in RowsIn("processing") : stale[r]}]
    /\ step' = [step EXCEPT ![a] = "reset"]
    /\ UNCHANGED <<rowVars, queueVars, slotVars, todo, ok, missing, cur, histVars>>

\* The update that takes a stuck row out of 'processing': by id, unconditional.
ResetRow(a, r) ==
    /\ step[a] = "reset" /\ cur[a] = NoRow /\ r \in look[a]
    /\ SetStatus(r, "queued")
    /\ look' = [look EXCEPT ![a] = @ \ {r}]
    /\ cur' = [cur EXCEPT ![a] = r]
    /\ UNCHANGED <<queueVars, slotVars, step, todo, ok, missing, histVars>>

\* jobExistsInRedis after the reset; a time-out counts as "no job" here.
Probe(a) ==
    /\ step[a] = "reset" /\ cur[a] # NoRow
    /\ cur' = [cur EXCEPT ![a] = NoRow]
    /\ \/ ~Exists(cur[a]) /\ todo' = [todo EXCEPT ![a] = @ \cup {cur[a]}] /\ UNCHANGED used
       \/ Exists(cur[a]) /\ UNCHANGED <<todo, used>>
       \/ Fault("redisTimeout") /\ todo' = [todo EXCEPT ![a] = @ \cup {cur[a]}]
    /\ UNCHANGED <<rowVars, queueVars, slotVars, step, ok, look, missing, sends, windowCrash>>

ResetDone(a) ==
    /\ step[a] = "reset" /\ look[a] = {} /\ cur[a] = NoRow
    /\ step' = [step EXCEPT ![a] = "addStuck"]
    /\ UNCHANGED <<rowVars, queueVars, slotVars, todo, ok, look, missing, cur, histVars>>
============================================================================
