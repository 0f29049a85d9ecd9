----------------------------- MODULE MailBooks -----------------------------
(***************************************************************************)
(* How the four places that know of a mail fit together: the status of its *)
(* row, the state of its job, the slot that holds the job and the requests *)
(* and sweeps that have read the row.  No code states this; every guard of *)
(* the code relies on it.  It is the inductive invariant behind            *)
(* TerminalStays, NoOrphan, OnlyResidualWindow and the refinement of       *)
(* MailPromise.                                                            *)
(***************************************************************************)
EXTENDS EmailScheduler

\* The row still awaits sending; it shows a final outcome.
Live(r)   == status[r] \in {"pending", "queued", "processing"}
Closed(r) == status[r] \in {"sent", "failed"}

\* The rows an actor will write or add without looking at them again.
Held(a) == todo[a] \cup ok[a] \cup missing[a] \cup {cur[a]}

\* No crash makes a job stall more often than BullMQ redelivers it.
StallsCovered == "crash" \in Faults => MaxFaults <= MaxStalledCount

\* A locked job is active, and the slot that locked it is at work on its row; a
\* slot that has moved its job to 'delayed' holds it no more.
LockKept ==
    \A r \in Rows : lock[r] # NoSlot =>
        jobState[r] = "active" /\ on[lock[r]] = r /\ pc[lock[r]] # "deferRow"

\* A slot past the guards of processJob works on an open row; it completes a job
\* it holds only when the row is sent, and fails it only when the row is open.
\* Only a job redelivered after a crash may find its row sent already.
SlotsFit ==
    \A s \in Slots :
        /\ pc[s] = "giveUp" => ~StallsCovered
        /\ pc[s] # "idle" => jobState[on[s]] # "none"
        /\ pc[s] \in Working \ {"read"} => Live(on[s])
        /\ pc[s] = "read" /\ "crash" \notin Faults => Live(on[s])
        /\ pc[s] = "fail" /\ lock[on[s]] = s => Live(on[s])
        /\ pc[s] = "complete" /\ lock[on[s]] = s => status[on[s]] = "sent"

\* A job that will run again has an open row, a finished one a row that says how
\* it finished or a 'failed' write in flight; and no late command re-creates a
\* job that Redis lost after its row was closed.
RowsFit ==
    \A r \in Rows :
        /\ jobState[r] # "none" \/ r \in late => status[r] # "absent"
        /\ jobState[r] = "delayed" => Live(r)
        /\ jobState[r] = "wait" /\ "crash" \notin Faults => Live(r)
        /\ jobState[r] = "failed" /\ StallsCovered => status[r] # "sent"
        /\ jobState[r] = "completed" => status[r] = "sent"
        /\ status[r] = "failed" => jobState[r] \in {"failed", "none"}
        /\ r \in failing => jobState[r] = "failed" /\ (StallsCovered => Live(r))
        /\ Closed(r) /\ jobState[r] = "none" => r \notin late

\* What a request or a sweep has read is still good when it is used: the rows it
\* will write are open, and those it has yet to look up are open or have a job.
ActorsFit ==
    \A a \in Actors :
        /\ step[a] \notin {"inspect", "reset"} => look[a] = {}
        /\ a \in Requests => step[a] \in {"new", "addBatch", "done"}
        /\ step[a] = "new" => a \in Requests /\ \A r \in BatchRows[a] : status[r] = "absent"
        /\ \A r \in look[a] : status[r] # "absent" /\ (jobState[r] = "none" => Live(r))
        /\ \A r \in Held(a) \cap Rows : Live(r)
        /\ step[a] = "reset" => \A r \in look[a] : Live(r)

\* Each stall of a job, past or about to be found, is paid for by a crash.
Crashes  == IF "crash" \in Faults THEN used ELSE 0
Loose(r) == IF jobState[r] = "active" /\ lock[r] = NoSlot THEN 1 ELSE 0
StallsPaid ==
    /\ used <= MaxFaults
    /\ \A r \in Rows : stalls[r] + Loose(r) <= Crashes

\* The invariant that no reader is misled: neither the guards of processJob, nor
\* the 'failed' handler, nor a sweep acting on rows it read many awaits ago.
Books == LockKept /\ SlotsFit /\ RowsFit /\ ActorsFit /\ StallsPaid
============================================================================
