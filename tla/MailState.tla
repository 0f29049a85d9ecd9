----------------------------- MODULE MailState -----------------------------
(***************************************************************************)
(* The state the parts of the e-mail scheduler share: the email_jobs rows  *)
(* in Postgres, the BullMQ jobs in Redis, the concurrency slots of the     *)
(* worker processes, and the actors that enqueue (HTTP requests and        *)
(* reconciliation sweeps).  MailQueue, EnqueueService, BatchService,       *)
(* EmailWorker and ReconcileService each own some of the actions;          *)
(* EmailScheduler composes them.                                           *)
(***************************************************************************)
EXTENDS Integers, FiniteSets

CONSTANTS
    Rows,            \* email_jobs rows, each addressed to one recipient
    NoRow,           \* "no row"
    Slots,           \* concurrency slots of all the running worker processes
    NoSlot,          \* "nobody holds the job's lock"
    Sweepers,        \* reconciliation runs: start-up, timer or manual ones
    Requests,        \* POST /api/batches requests
    BatchRows,       \* the rows each request creates
    MaxAttempts,     \* DEFAULT_JOB_OPTIONS.attempts
    MaxStalledCount, \* maxStalledCount of createWorker
    Faults,          \* the kinds of fault the environment may produce
    MaxFaults,       \* how many faults it may produce altogether
    Isolated         \* TRUE: no job runs while an actor still has to write its row

FaultKinds ==
    {"crash",        \* a worker process dies, or cannot reach Redis to finish a job
     "apiCrash",     \* the API process dies inside a request
     "redisLoss",    \* Redis comes back empty
     "coldLoss",     \* the same, while the workers rest and no command is late
     "stall",        \* a live worker misses its lock renewals
     "dbError",      \* a Postgres call of a worker or of an actor rejects
     "dbLostReply",  \* a Postgres write of a worker is done, the call rejects all the same
     "redisTimeout", \* a Redis call of an actor times out
     "lostFailure",  \* the write of a final failure rejects or dies with its process
     "lostReply",    \* SMTP accepts the message, sendMail rejects all the same
     "slow"}         \* a send outlives STUCK_PROCESSING_THRESHOLD_MS

ASSUME RowsAssumption == NoRow \notin Rows
ASSUME SlotsAssumption == NoSlot \notin Slots /\ IsFiniteSet(Slots)
ASSUME ActorsAssumption ==
    /\ Sweepers \cap Requests = {}
    /\ BatchRows \in [Requests -> SUBSET Rows]
    /\ \A a, b \in Requests : a # b => BatchRows[a] \cap BatchRows[b] = {}
ASSUME LimitsAssumption ==
    /\ MaxAttempts \in Nat \ {0} /\ MaxStalledCount \in Nat
    /\ Faults \subseteq FaultKinds /\ MaxFaults \in Nat
    /\ Isolated \in BOOLEAN

Actors == Sweepers \cup Requests

VARIABLES
    status,      \* email_jobs.status of each row; "absent" before its INSERT
    stale,       \* updatedAt is older than STUCK_PROCESSING_THRESHOLD_MS
    jobState,    \* state of job email-{row}; "none" when Redis has no such job
    made,        \* job.attemptsMade
    stalls,      \* how often the job was found stalled
    lock,        \* the slot whose token holds the job's lock
    late,        \* rows whose queue.add timed out but may still reach Redis
    pc,          \* where each slot is inside processJob
    on,          \* the row each slot works on
    failing,     \* rows whose 'failed' write is in flight, not awaited
    step,        \* where each actor is
    todo,        \* rows the actor still has to queue.add
    ok,          \* rows it added and will mark 'queued'
    look,        \* rows it read and still has to inspect or reset
    missing,     \* rows it found without a job
    cur,         \* the row it has reset and not yet probed
    sends,       \* (history) messages SMTP accepted for each row
    windowCrash, \* (history) faults between sendMail's success and the 'sent' write
    used         \* (history) faults so far

rowVars   == <<status, stale>>
queueVars == <<jobState, made, stalls, lock, late>>
slotVars  == <<pc, on, failing>>
actorVars == <<step, todo, ok, look, missing, cur>>
histVars  == <<sends, windowCrash, used>>
vars      == <<rowVars, queueVars, slotVars, actorVars, histVars>>

Statuses  == {"absent", "pending", "queued", "processing", "sent", "failed"}
JobStates == {"none", "delayed", "wait", "active", "completed", "failed"}
SlotSteps == {"idle", "read", "reserve", "defer", "deferRow", "recheck", "mark",
              "send", "record", "complete", "fail", "giveUp"}
Adding    == {"addBatch", "addPending", "addOverdue", "addMissing", "addStuck"}
ActorSteps == {"new", "done", "idle", "readQueued", "inspect", "readStuck", "reset"}
                \cup Adding

TypeOK ==
    /\ status \in [Rows -> Statuses]
    /\ stale \in [Rows -> BOOLEAN]
    /\ jobState \in [Rows -> JobStates]
    /\ made \in [Rows -> Nat]
    /\ stalls \in [Rows -> Nat]
    /\ lock \in [Rows -> Slots \cup {NoSlot}]
    /\ late \subseteq Rows
    /\ pc \in [Slots -> SlotSteps]
    /\ on \in [Slots -> Rows \cup {NoRow}]
    /\ \A s \in Slots : pc[s] = "idle" <=> on[s] = NoRow
    /\ failing \subseteq Rows
    /\ step \in [Actors -> ActorSteps]
    /\ todo \in [Actors -> SUBSET Rows]
    /\ ok \in [Actors -> SUBSET Rows]
    /\ look \in [Actors -> SUBSET Rows]
    /\ missing \in [Actors -> SUBSET Rows]
    /\ cur \in [Actors -> Rows \cup {NoRow}]
    /\ sends \in [Rows -> Nat]
    /\ windowCrash \in [Rows -> Nat]
    /\ used \in Nat

Init ==
    /\ status = [r \in Rows |-> "absent"]
    /\ stale = [r \in Rows |-> FALSE]
    /\ jobState = [r \in Rows |-> "none"]
    /\ made = [r \in Rows |-> 0]
    /\ stalls = [r \in Rows |-> 0]
    /\ lock = [r \in Rows |-> NoSlot]
    /\ late = {}
    /\ pc = [s \in Slots |-> "idle"]
    /\ on = [s \in Slots |-> NoRow]
    /\ failing = {}
    /\ step = [a \in Actors |-> IF a \in Requests THEN "new" ELSE "idle"]
    /\ todo = [a \in Actors |-> {}]
    /\ ok = [a \in Actors |-> {}]
    /\ look = [a \in Actors |-> {}]
    /\ missing = [a \in Actors |-> {}]
    /\ cur = [a \in Actors |-> NoRow]
    /\ sends = [r \in Rows |-> 0]
    /\ windowCrash = [r \in Rows |-> 0]
    /\ used = 0

\* prisma.emailJob.update on one row; updatedAt is @updatedAt, so every write refreshes it.
SetStatus(r, st) ==
    /\ status' = [status EXCEPT ![r] = st]
    /\ stale' = [stale EXCEPT ![r] = FALSE]

\* One more fault of kind f.
Fault(f) ==
    /\ f \in Faults /\ used < MaxFaults
    /\ used' = used + 1

At(s, point) == pc[s] = point
GoTo(s, point) == pc' = [pc EXCEPT ![s] = point] /\ UNCHANGED on
Release(s) == pc' = [pc EXCEPT ![s] = "idle"] /\ on' = [on EXCEPT ![s] = NoRow]
============================================================================
