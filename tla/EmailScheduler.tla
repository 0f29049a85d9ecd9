--------------------------- MODULE EmailScheduler --------------------------
(***************************************************************************)
(* The whole scheduler: requests and sweeps enqueue, BullMQ delivers,      *)
(* worker slots send.  Postgres, Redis and SMTP are three stores nobody    *)
(* updates atomically; every action below is one call to one of them.      *)
(*                                                                         *)
(* With Isolated = TRUE a job does not move while an actor still has to    *)
(* write its row: the assumption under which the bookkeeping of the code   *)
(* is right.  With Isolated = FALSE the steps interleave as they may.      *)
(***************************************************************************)
EXTENDS BatchService, EmailWorker, ReconcileService

\* An actor has read or added row r and will write it (or use it) later.
Busy(r) ==
    \E a \in Actors :
        \/ r \in todo[a] \cup ok[a] \cup missing[a] \cup {cur[a]}
        \/ step[a] = "reset" /\ r \in look[a]

Quiet(r) == Isolated => ~Busy(r)

\* Some slot is between the 'processing' write and the next write of the row.
Sending(r) == \E s \in Slots : on[s] = r /\ pc[s] \in {"send", "record"}

\* A row stays in 'processing' past the threshold because nobody is sending it
\* (its worker died, or its job waits for a retry or for the next hour) ...
Age(r) ==
    /\ status[r] = "processing" /\ ~stale[r]
    /\ ~Sending(r) /\ r \notin failing
    /\ stale' = [stale EXCEPT ![r] = TRUE]
    /\ UNCHANGED <<status, queueVars, slotVars, actorVars, histVars>>

\* ... or although somebody is.
AgeSlowly(r) ==
    /\ status[r] = "processing" /\ ~stale[r]
    /\ Sending(r) \/ r \in failing
    /\ Fault("slow")
    /\ stale' = [stale EXCEPT ![r] = TRUE]
    /\ UNCHANGED <<status, queueVars, slotVars, actorVars, sends, windowCrash>>

----------------------------------------------------------------------------

RequestStep(a) == CommitBatch(a)

EnqueueStep(a) == MarkQueued(a) \/ \E r \in Rows : AddOk(a, r)

SweepStep(a) ==
    \/ ReadPending(a) \/ ReadQueued(a) \/ InspectDone(a)
    \/ ReadStuck(a) \/ Probe(a) \/ ResetDone(a)
    \/ \E r \in Rows : Inspect(a, r) \/ ResetRow(a, r)

SlotStep(s) ==
    /\ ~At(s, "idle") /\ Quiet(on[s])
    /\ \/ ReadRow(s) \/ ReserveGranted(s) \/ ReserveBlocked(s) \/ DeferJob(s) \/ DeferRow(s)
       \/ Recheck(s) \/ MarkProcessing(s) \/ SendOk(s) \/ SendFails(s) \/ RecordSent(s)
       \/ Complete(s) \/ Fail(s) \/ GiveUp(s)

RowStep(r) ==
    \/ Quiet(r) /\ RecordFailed(r)
    \/ Quiet(r) /\ \E s \in Slots : Claim(s, r)
    \/ Promote(r) \/ Stalled(r) \/ LateAdd(r) \/ Age(r)

FaultStep ==
    \/ \E a \in Actors : Abandon(a) \/ InspectTimeout(a) \/ \E r \in Rows : AddTimeout(a, r)
    \/ \E s \in Slots : DbError(s) \/ DbLosesReply(s) \/ SendLosesReply(s) \/ CrashSlot(s)
    \/ \E r \in Rows : LoseLock(r) \/ LoseFailed(r) \/ AgeSlowly(r)
    \/ RedisLoss

Next ==
    \/ \E a \in Actors : RequestStep(a) \/ EnqueueStep(a) \/ SweepStep(a)
    \/ \E s \in Slots : SlotStep(s)
    \/ \E r \in Rows : RowStep(r)
    \/ FaultStep

(***************************************************************************)
(* Fairness.  Promises settle, BullMQ promotes due jobs and checks stalled *)
(* ones, the sweep timer keeps firing, and updatedAt keeps getting older:  *)
(* weak fairness for each.  The queue is FIFO and the hourly counters      *)
(* start again every hour, so a waiting job is fetched and a job that      *)
(* keeps asking gets a slot: strong fairness for those two.  A request     *)
(* need not come, a late command need not arrive, no fault need happen.    *)
(***************************************************************************)
Fairness ==
    /\ \A a \in Actors : WF_vars(EnqueueStep(a)) /\ WF_vars(SweepStep(a))
    /\ \A s \in Slots : WF_vars(SlotStep(s))
    /\ \A s \in Slots : SF_vars(Quiet(on[s]) /\ ReserveGranted(s))
    /\ \A r \in Rows :
          /\ WF_vars(Promote(r)) /\ WF_vars(Stalled(r)) /\ WF_vars(Age(r))
          /\ WF_vars(Quiet(r) /\ RecordFailed(r))
          /\ SF_vars(Quiet(r) /\ \E s \in Slots : Claim(s, r))

Spec     == Init /\ [][Next]_vars
FairSpec == Spec /\ Fairness

----------------------------------------------------------------------------
(* Properties *)

\* The invariant that a row shown as sent was accepted by SMTP at least once:
\* no path of processJob reaches the 'sent' write round the call of sendMail.
SentMeansDelivered == \A r \in Rows : status[r] = "sent" => sends[r] >= 1

\* Deterministic job ids, kept finished jobs and the 'sent' guard bound the
\* harm of any interleaving of requests, overlapping sweeps and slots: every
\* copy of a message beyond the first is paid for by a fault of its own.
DuplicateBound == \A r \in Rows : sends[r] <= 1 + used

\* Why DuplicateBound holds: every copy of a message that was sent or can still
\* be sent without a further fault is counted once.  It was accepted by SMTP, or
\* a slot is on its way to sendMail or to a retry, or the job waits for a slot.
Ahead == {"read", "reserve", "defer", "recheck", "mark", "send", "fail"}
Heading(r) == {s \in Slots : on[s] = r /\ pc[s] \in Ahead}
Available(r) ==
    IF \/ jobState[r] \in {"none", "delayed", "wait"}
       \/ jobState[r] = "active" /\ lock[r] = NoSlot
    THEN 1 ELSE 0
CopiesBounded ==
    \A r \in Rows : sends[r] + Cardinality(Heading(r)) + Available(r) <= 1 + used

\* README 370: apart from a crash between sendMail and the 'sent' write no
\* replay sends a message twice.
OnlyResidualWindow == \A r \in Rows : sends[r] <= 1 + windowCrash[r]

\* BullMQ's lock admits one slot at a time to the part of processJob that
\* sends, also across crashes, retries and deferrals of the same job.
Working == {"read", "reserve", "defer", "recheck", "mark", "send", "record"}
OneSender ==
    \A s, t \in Slots :
        s # t /\ pc[s] \in Working /\ pc[t] \in Working => on[s] # on[t]

\* A row the user sees as failed is not sent any more: the 'failed' handler
\* writes only when BullMQ has no attempt left (emailWorker.ts 186-208).
FailedStopsSending ==
    [][\A r \in Rows : status[r] = "failed" => sends'[r] = sends[r]]_vars

\* README 286: sent and failed are terminal.
TerminalStays ==
    [][\A r \in Rows : status[r] \in {"sent", "failed"} => status'[r] = status[r]]_vars

\* A row is orphaned when it awaits sending, its job is finished, and nobody
\* is left who will write it: the sweep finds the job "present" for ever.
Orphaned(r) ==
    /\ status[r] \in {"pending", "queued", "processing"}
    /\ jobState[r] \in {"completed", "failed"}
    /\ r \notin failing /\ ~Busy(r)
    /\ \A s \in Slots : on[s] # r
NoOrphan == \A r \in Rows : ~Orphaned(r)

\* Every row whose INSERT committed is settled, whatever became of the request
\* that committed it (reconcileService.ts 248-253).
Settles ==
    \A r \in Rows : status[r] # "absent" ~> status[r] \in {"sent", "failed"}

\* A message is sent again only after a slot was hit in mid-job or SMTP's answer
\* was lost, once for every such fault.
Replays == IF Faults \cap {"crash", "dbError", "lostReply"} = {} THEN 0 ELSE MaxFaults

\* What the scheduler promises about each row: MailPromise, with the row's status
\* read as the outcome.
Outcome(st) == IF st \in {"pending", "queued", "processing"} THEN "accepted" ELSE st
Promise == INSTANCE MailPromise
              WITH Mails <- Rows,
                   outcome <- [r \in Rows |-> Outcome(status[r])],
                   delivered <- [r \in Rows |-> sends[r]]
KeepsPromise == Promise!Spec

\* reconcileService.ts 85-87: an overdue delayed job is promoted by the re-add.
OverduePromoted ==
    [][\A a \in Actors, r \in Rows :
         step[a] = "addOverdue" /\ r \notin ok[a] /\ r \in ok'[a]
            => jobState'[r] # "delayed"]_vars
============================================================================
