--------------------------- MODULE EnqueueService --------------------------
(***************************************************************************)
(* services/enqueueService.ts: queue.add every row, each call with its own *)
(* timeout and all of them concurrent, then mark those that succeeded      *)
(* 'queued' in one transaction.  An actor enters with the rows in todo and *)
(* its step in Adding; nothing it read about a row is looked at again.     *)
(***************************************************************************)
EXTENDS MailQueue

\* One queue.add of the batch is acknowledged.
AddOk(a, r) ==
    /\ step[a] \in Adding /\ r \in todo[a]
    /\ QueueAdd(r)
    /\ todo' = [todo EXCEPT ![a] = @ \ {r}]
    /\ ok' = [ok EXCEPT ![a] = @ \cup {r}]
    /\ UNCHANGED <<late, rowVars, slotVars, step, look, missing, cur, histVars>>

\* One queue.add is given up after ENQUEUE_TIMEOUT_MS; the command is not withdrawn.
AddTimeout(a, r) ==
    /\ step[a] \in Adding /\ r \in todo[a]
    /\ Fault("redisTimeout")
    /\ todo' = [todo EXCEPT ![a] = @ \ {r}]
    /\ late' = late \cup {r}
    /\ UNCHANGED <<jobState, made, stalls, lock, rowVars, slotVars, step, ok, look, missing,
                   cur, sends, windowCrash>>

\* Where an actor goes once its rows are marked.
AfterAdding(st) ==
    CASE st = "addBatch"   -> "done"
      [] st = "addPending" -> "readQueued"
      [] st = "addOverdue" -> "addMissing"
      [] st = "addMissing" -> "readStuck"
      [] st = "addStuck"   -> "idle"

\* The transaction of updates by id: whatever the row has become meanwhile.
MarkAdded(a) ==
    /\ status' = [r \in Rows |-> IF r \in ok[a] THEN "queued" ELSE status[r]]
    /\ stale' = [r \in Rows |-> IF r \in ok[a] THEN FALSE ELSE stale[r]]

\* All calls have settled: mark, return, and let the caller go on.
MarkQueued(a) ==
    /\ step[a] \in Adding /\ todo[a] = {}
    /\ MarkAdded(a)
    /\ step' = [step EXCEPT ![a] = AfterAdding(step[a])]
    /\ ok' = [ok EXCEPT ![a] = {}]
    /\ IF step[a] = "addOverdue"
       THEN /\ todo' = [todo EXCEPT ![a] = missing[a]]
            /\ missing' = [missing EXCEPT ![a] = {}]
       ELSE UNCHANGED <<todo, missing>>
    /\ UNCHANGED <<look, cur, queueVars, slotVars, histVars>>

\* The actor stops where it is: its process dies, or a Postgres call rejects
\* and the exception leaves createBatch or runReconciliation.
Abandon(a) ==
    /\ step[a] \notin {"new", "done", "idle"}
    /\ \E f \in {"dbError", IF a \in Requests THEN "apiCrash" ELSE "crash"} : Fault(f)
    /\ step' = [step EXCEPT ![a] = IF a \in Requests THEN "done" ELSE "idle"]
    /\ todo' = [todo EXCEPT ![a] = {}]
    /\ ok' = [ok EXCEPT ![a] = {}]
    /\ look' = [look EXCEPT ![a] = {}]
    /\ missing' = [missing EXCEPT ![a] = {}]
    /\ cur' = [cur EXCEPT ![a] = NoRow]
    /\ UNCHANGED <<rowVars, queueVars, slotVars, sends, windowCrash>>
============================================================================
