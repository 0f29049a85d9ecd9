---------------------------- MODULE BatchService ---------------------------
(***************************************************************************)
(* services/batchService.ts, the part of createBatch that writes: one      *)
(* transaction inserts the rows as 'pending', and only after the commit    *)
(* are they handed to enqueueEmailJobs.                                    *)
(***************************************************************************)
EXTENDS EnqueueService

CommitBatch(a) ==
    /\ a \in Requests /\ step[a] = "new"
    /\ status' = [r \in Rows |-> IF r \in BatchRows[a] THEN "pending" ELSE status[r]]
    /\ todo' = [todo EXCEPT ![a] = BatchRows[a]]
    /\ step' = [step EXCEPT ![a] = "addBatch"]
    /\ UNCHANGED <<stale, queueVars, slotVars, ok, look, missing, cur, histVars>>
============================================================================
