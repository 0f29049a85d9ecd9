---------------------------- MODULE EmailWorker ----------------------------
(***************************************************************************)
(* workers/emailWorker.ts: processJob and deferJob, one action per await,  *)
(* and the 'failed' event handler.  Rows are never deleted and always have *)
(* a sender (createBatch resolves one or refuses), so the branches for a   *)
(* missing row and for a row without a sender are unreachable.             *)
(***************************************************************************)
EXTENDS MailQueue

\* Mutant of AlreadySent: the guard compares with a status no row has.
NeverSent(r) == status[r] = "SENT"

\* The idempotency guard of processJob, evaluated on a fresh read of the row.
AlreadySent(r) == status[r] = "sent"

\* First await of processJob: findUnique, then the guard.
ReadRow(s) ==
    /\ At(s, "read")
    /\ GoTo(s, IF AlreadySent(on[s]) THEN "complete" ELSE "reserve")
    /\ UNCHANGED <<failing, rowVars, queueVars, actorVars, histVars>>

\* checkAndReserveSlot: a cap is reached or Redis does not answer -> deferJob.
ReserveGranted(s) ==
    /\ At(s, "reserve")
    /\ GoTo(s, "recheck")
    /\ UNCHANGED <<failing, rowVars, queueVars, actorVars, histVars>>

ReserveBlocked(s) ==
    /\ At(s, "reserve")
    /\ GoTo(s, "defer")
    /\ UNCHANGED <<failing, rowVars, queueVars, actorVars, histVars>>

\* Mutant of DeferJob: the caller does not return after the deferral.
DeferJobAndGoOn(s) ==
    /\ At(s, "defer")
    /\ IF lock[on[s]] = s
       THEN Leave(on[s], "delayed") /\ GoTo(s, "recheck")
       ELSE GoTo(s, "fail") /\ UNCHANGED <<jobState, stalls, lock, late>>
    /\ UNCHANGED <<made, failing, rowVars, actorVars, histVars>>

\* deferJob: moveToDelayed needs the job's lock; without it the call throws and
\* so does processJob.  The catch asks again without a token when none was given,
\* which BullMQ's worker always does.  No attempt is consumed.
DeferJob(s) ==
    /\ At(s, "defer")
    /\ IF lock[on[s]] = s
       THEN Leave(on[s], "delayed") /\ GoTo(s, "deferRow")
       ELSE GoTo(s, "fail") /\ UNCHANGED <<jobState, stalls, lock, late>>
    /\ UNCHANGED <<made, failing, rowVars, actorVars, histVars>>

\* Mutant of DeferRow: a status the enum of schema.prisma does not have.
DeferRowByStatus(s) ==
    /\ At(s, "deferRow")
    /\ SetStatus(on[s], "rescheduled")
    /\ GoTo(s, "complete")
    /\ UNCHANGED <<failing, queueVars, actorVars, histVars>>

\* deferJob: scheduledAt and rescheduleCount of the row; its status stays.
\* processJob then returns, so BullMQ is told that the job completed.
DeferRow(s) ==
    /\ At(s, "deferRow")
    /\ stale' = [stale EXCEPT ![on[s]] = FALSE]
    /\ GoTo(s, "complete")
    /\ UNCHANGED <<status, failing, queueVars, actorVars, histVars>>

\* The second read, after the rate-limit round-trip.
Recheck(s) ==
    /\ At(s, "recheck")
    /\ GoTo(s, IF AlreadySent(on[s]) THEN "complete" ELSE "mark")
    /\ UNCHANGED <<failing, rowVars, queueVars, actorVars, histVars>>

MarkProcessing(s) ==
    /\ At(s, "mark")
    /\ SetStatus(on[s], "processing")
    /\ GoTo(s, "send")
    /\ UNCHANGED <<failing, queueVars, actorVars, histVars>>

\* transporter.sendMail resolves.
SendOk(s) ==
    /\ At(s, "send")
    /\ sends' = [sends EXCEPT ![on[s]] = @ + 1]
    /\ GoTo(s, "record")
    /\ UNCHANGED <<failing, rowVars, queueVars, actorVars, windowCrash, used>>

\* Mutant of SendFails: the catch block logs and falls through.
SendFailsQuietly(s) ==
    /\ At(s, "send")
    /\ GoTo(s, "record")
    /\ UNCHANGED <<failing, rowVars, queueVars, actorVars, histVars>>

\* The sender is gone, the transport cannot be built, or SMTP refuses: rethrown.
SendFails(s) ==
    /\ At(s, "send")
    /\ GoTo(s, "fail")
    /\ UNCHANGED <<failing, rowVars, queueVars, actorVars, histVars>>

\* sendMail rejects although the server has taken the message.
SendLosesReply(s) ==
    /\ At(s, "send")
    /\ Fault("lostReply")
    /\ sends' = [sends EXCEPT ![on[s]] = @ + 1]
    /\ GoTo(s, "fail")
    /\ UNCHANGED <<failing, rowVars, queueVars, actorVars, windowCrash>>

RecordSent(s) ==
    /\ At(s, "record")
    /\ SetStatus(on[s], "sent")
    /\ GoTo(s, "complete")
    /\ UNCHANGED <<failing, queueVars, actorVars, histVars>>

\* A Postgres call of processJob rejects and has done nothing; the 'sent' write is
\* in the try block of the send, so it counts as a failed send.
DbError(s) ==
    /\ pc[s] \in {"read", "recheck", "mark", "record", "deferRow"}
    /\ Fault("dbError")
    /\ windowCrash' = [windowCrash EXCEPT ![on[s]] = IF At(s, "record") THEN @ + 1 ELSE @]
    /\ GoTo(s, "fail")
    /\ UNCHANGED <<failing, rowVars, queueVars, actorVars, sends>>

\* The same, although Postgres has done the write.
DbLosesReply(s) ==
    /\ Fault("dbLostReply")
    /\ \/ At(s, "mark") /\ SetStatus(on[s], "processing")
       \/ At(s, "record") /\ SetStatus(on[s], "sent")
       \/ /\ At(s, "deferRow")
          /\ stale' = [stale EXCEPT ![on[s]] = FALSE] /\ UNCHANGED status
    /\ GoTo(s, "fail")
    /\ UNCHANGED <<failing, queueVars, actorVars, sends, windowCrash>>

\* Mutant of Complete: removeOnComplete frees the job id of a finished job.
CompleteAndRemove(s) ==
    /\ At(s, "complete")
    /\ IF lock[on[s]] = s
       THEN Leave(on[s], "none")
       ELSE UNCHANGED <<jobState, stalls, lock, late>>
    /\ Release(s)
    /\ UNCHANGED <<made, failing, rowVars, actorVars, histVars>>

\* processJob returned: moveToCompleted, refused when the lock is not the slot's.
Complete(s) ==
    /\ At(s, "complete")
    /\ IF lock[on[s]] = s
       THEN Leave(on[s], "completed")
       ELSE UNCHANGED <<jobState, stalls, lock, late>>
    /\ Release(s)
    /\ UNCHANGED <<made, failing, rowVars, actorVars, histVars>>

\* Mutants of OnFailed: no look at the attempts left; an off-by-one.
OnAnyFailure(r) == failing' = failing \cup {r}
OnFailedTooLate(r) ==
    failing' = IF made'[r] > MaxAttempts THEN failing \cup {r} ELSE failing

\* The worker.on('failed') handler: only exhausted attempts are final, and the
\* write is started without being awaited.
OnFailed(r) ==
    failing' = IF made'[r] >= MaxAttempts THEN failing \cup {r} ELSE failing

\* processJob threw: moveToFailed retries with backoff while attempts remain,
\* and is refused when the lock is not the slot's (then no event fires).
Fail(s) ==
    /\ At(s, "fail")
    /\ LET r == on[s] IN
       IF lock[r] = s
       THEN /\ made' = [made EXCEPT ![r] = @ + 1]
            /\ Leave(r, IF made[r] + 1 < MaxAttempts THEN "delayed" ELSE "failed")
            /\ OnFailed(r)
       ELSE UNCHANGED <<failing, queueVars>>
    /\ Release(s)
    /\ UNCHANGED <<rowVars, actorVars, histVars>>

\* The job stalled more than maxStalledCount times: failed for good, whatever
\* attempts are left; processJob does not run.
GiveUp(s) ==
    /\ At(s, "giveUp")
    /\ LET r == on[s] IN
       IF lock[r] = s
       THEN /\ made' = [made EXCEPT ![r] = @ + 1]
            /\ Leave(r, "failed")
            /\ OnFailed(r)
       ELSE UNCHANGED <<failing, queueVars>>
    /\ Release(s)
    /\ UNCHANGED <<rowVars, actorVars, histVars>>

RecordFailed(r) ==
    /\ r \in failing
    /\ SetStatus(r, "failed")
    /\ failing' = failing \ {r}
    /\ UNCHANGED <<pc, on, queueVars, actorVars, histVars>>

\* The 'failed' write is lost: it rejects and is only logged, or the process
\* ends first (shutdown waits for the jobs, not for this write).
LoseFailed(r) ==
    /\ r \in failing
    /\ Fault("lostFailure")
    /\ failing' = failing \ {r}
    /\ UNCHANGED <<pc, on, rowVars, queueVars, actorVars, sends, windowCrash>>

\* The process of slot s dies; the lock it holds expires.
CrashSlot(s) ==
    /\ ~At(s, "idle")
    /\ Fault("crash")
    /\ windowCrash' = [windowCrash EXCEPT ![on[s]] = IF At(s, "record") THEN @ + 1 ELSE @]
    /\ lock' = [lock EXCEPT ![on[s]] = IF @ = s THEN NoSlot ELSE @]
    /\ Release(s)
    /\ UNCHANGED <<jobState, made, stalls, late, failing, rowVars, actorVars, sends>>
============================================================================
