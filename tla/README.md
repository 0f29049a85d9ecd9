# The e-mail scheduler in TLA+

A verification project for the bulk e-mail scheduler of this repository: a user
submits a batch, each recipient becomes a row of `email_jobs` in Postgres and a
delayed BullMQ job in Redis, worker processes send the messages under hourly
caps, and a reconciliation sweep repairs what Postgres and Redis disagree about.
No store is updated together with another, so nearly everything that can go
wrong happens between two awaits. That is what the modules model: one action per
call to Postgres, Redis or SMTP, in any interleaving, with the failures the code
handles.

Paths below are relative to the repository's root as it is kept in `src/`: the
back end is `src/src`, the front end `src/frontend`.

## 1. Inventory

### Back end

| part | state | operations | what makes it correct |
|---|---|---|---|
| `email_jobs` (`prisma/schema.prisma` 65-83) | status, scheduledAt, updatedAt per row | updates by id, none conditional | `sent` and `failed` are terminal; `sent` only after delivery |
| BullMQ queues (`queues/emailQueue.ts`) | job per row under the id `email-{row}`, lock, attempts, stall count | add (no-op on a taken id), claim, retry, delay, complete, stalled check | one holder of a job's lock; finished jobs keep their id |
| batch creation (`services/batchService.ts`) | `batches`, the rows | parse recipients, resolve a sender, look up the idempotency key, one transaction, enqueue | one batch per key; every committed row is eventually settled |
| enqueue (`services/enqueueService.ts`) | none | `queue.add` per row with a time-out, then one transaction marks the added rows `queued` | does not undo what a worker did meanwhile |
| worker (`workers/emailWorker.ts`) | local variables of up to `WORKER_CONCURRENCY` jobs per sender, caches | `processJob`, `deferJob`, the `failed` handler, start-up, heartbeat, shutdown | no duplicate beyond the documented window; no row left unsettled |
| rate limiter (`services/rateLimiter.ts`) | three counters per hour with an expiry | one script checks and reserves | caps hold in every hour; all three counters move or none |
| sweep (`services/reconcileService.ts`) | the sets it has read | pending, queued and stuck passes | repairs what a crash or a Redis loss leaves; harmless beside live workers |
| listing (`services/emailJobService.ts`), routes | none | queries scoped to the user; validation of requests and attachments | tabs partition the statuses, pages partition the rows; limits of requests |
| accounts (`services/authService.ts`, `routes/auth.ts`) | `users`, signed tokens, the state cookie | register, log in, Google upsert | one account per address, which keeps its way to sign in |
| health and life cycle (`routes/health.ts`, worker `main`/`startHeartbeat`/`shutdown`) | a heartbeat key that all worker processes share, timers, the connection's queue of commands | start, beat, sweep, probe, shut down | the key tells whether some worker lives; a shutdown takes no job with it and ends |
| mail transport (`lib/mailer.ts`), API start-up (`server.ts`), connections | caches | set-up | not modelled, see section 6 |

### Front end

| part | state | hard part |
|---|---|---|
| session (`lib/auth-context.tsx`, `lib/api.ts`, login, callback and protected pages) | token and user in localStorage, user in each tab | the `/auth/me` of the page load racing a login or the OAuth hand-off; several tabs over one localStorage and one state cookie |
| mailbox (`hooks/useMailbox.ts`, dashboard) | rows, counts, box | answers out of order |
| compose form (`hooks/useComposeEmail.ts`, `lib/recipientParser.ts`, `components/compose`) | form, attachments, limits, lead file, submission | reads that end while the form changes; requests the page gave up on; rules written twice |
| views (`components/`, `app/`) | none of their own | their buttons and redirects are guards of the actions above |

### How the parts interact

```
 POST /api/batches --> createBatch --commit--> Postgres rows 'pending'
                           |
                           +--> enqueueEmailJobs --queue.add--> Redis jobs
                           |            \--mark 'queued'--> Postgres
 compose page --POST, 15 s--> /api/batches      (gives up, repeats)
 tabs --/auth/*--> accounts;  tabs --GET lists--> rows of the token's account
 worker process: heartbeat SET / shutdown DEL --> one Redis key --> GET /health
 sweep (start, timer, script): reads rows, looks jobs up, resets, enqueueEmailJobs
 worker slot: claim job -> read row -> reserve slot (Redis script)
              -> [defer: moveToDelayed, update row]
              -> read row again -> mark 'processing' -> sendMail -> mark 'sent'
              -> BullMQ complete / retry / fail --'failed' event--> mark 'failed'
```

Shared state is the rows, the jobs and the counters. Every actor keeps local
variables (what it read) over awaits. The hard behaviours are listed, each at
its line, under `hazards` in `PROJECT.json`: late writes by id, reads used after
other awaits, a write that is not awaited, commands that run after their caller
gave up, redelivery after crashes and stalls, Redis coming back empty,
overlapping sweeps, the hour passing between a check and a deferral, a signal
during start-up, answers that come late or after a newer one, a page that gave up
on a request the API still serves.

## 2. Modules

| module | models | state and actions |
|---|---|---|
| `MailState` | the state all parts share, the fault kinds | `status`, `stale` (updatedAt older than the threshold); `jobState`, `made`, `stalls`, `lock`, `late`; `pc`, `on`, `failing`; `step`, `todo`, `ok`, `look`, `missing`, `cur` |
| `MailQueue` | BullMQ and Redis as the code uses them (external) | `QueueAdd`, `Claim`, `Promote`, `Leave`, `Stalled`, `LoseLock`, `RedisLoss`, `LateAdd` |
| `EnqueueService` | `enqueueEmailJobs` and where its callers go on | `AddOk`, `AddTimeout`, `MarkQueued`, `Abandon` |
| `BatchService` | the transaction of `createBatch` | `CommitBatch` |
| `EmailWorker` | `processJob`, `deferJob`, the `failed` handler | one action per await: `ReadRow`, `ReserveGranted`/`ReserveBlocked`, `DeferJob`, `DeferRow`, `Recheck`, `MarkProcessing`, `SendOk`/`SendFails`/`SendLosesReply`, `RecordSent`, `Complete`, `Fail`, `GiveUp`, `RecordFailed`, `LoseFailed`, `DbError`, `DbLosesReply`, `CrashSlot` |
| `ReconcileService` | one pass of `runReconciliation` | `ReadPending`, `ReadQueued`, `Inspect`, `InspectTimeout`, `InspectDone`, `ReadStuck`, `ResetRow`, `Probe`, `ResetDone` |
| `EmailScheduler` | the composition, time (`Age`), fairness, the properties | `Next`, `Spec`, `FairSpec` |
| `MailPromise` | what a user is promised, without queue or workers, and how many copies faults may cost (`Replays`) | `Accept`, `Deliver`, `Confirm`, `Refuse` |
| `RateLimiter` | `checkAndReserveSlot`, `hourBucket`, `startOfNextHour`, `deferJob` with a clock | `Ask`, `Grant`, `Block`, `FailClosed`, `LateEval`, `Finish`, `SendFails`, `StartDefer`, `Defer`, `DeferFails`, `DeferShort`, `BecomeDue`, `Tick` |
| `BatchCreation` | `POST /api/batches` and `createBatch` of concurrent requests: checks, `parseRecipients`, `idempotencyKeyFor`, look-up, create, enqueue, answer, and the deferrals that move the rows of a batch | `Receive`, `Reject`, `ResolveSender`, `NoSender`, `FindExisting`, `FindNothing`, `Summarise`, `Create`, `Enqueue`, `DbRejects`, `Dies`, `Defer`, `Tick` |
| `Addresses` | what form, lead parser and API take for an address: `trim().toLowerCase()` and `EMAIL_REGEX` | constants only |
| `RecipientParser` | `lib/recipientParser.ts` (pure) | `NormalizeEmails`, `ParseCsv`, `ParseLeadText`, `LeadsOf` |
| `ComposeForm` | `useComposeEmail` and the compose components over `BatchCreation` | `SetField`, `AddRecipient`, `RemoveRecipient`, `ChooseLeadFile`/`MergeLeads`/`LeadFileFails`, `PickAttachments`/`AttachPick`/`PickFails`, `RemoveAttachment`, `LoadData`/`LoadFails`/`RetryLoad`, `Submit`/`SubmitRefused`/`Scheduled`/`SubmitFails`, `Reset`, `Leave`, and the steps of the requests |
| `Accounts` | `users` as `authService.ts` uses it | `CreateUser`, `VerifyEmailPassword`, `UpsertGoogleUser` |
| `AuthContext` | `AuthProvider`, `localStorage`, login and callback pages, the auth routes, of several tabs | `Load`, `Open`, `StartAnswers`/`StartFails`, `SignIn`, `LoginAnswers`/`LoginFails`, `RegisterLooksUp`/`RegisterCreates`/`RegisterAnswers`/`RegisterFails`/`RegisterTimesOut`, `Logout`, `StartGoogle`/`BackToGoogle`/`CallbackArrives`/`GoogleUpserts`/`GoogleReturns`/`GoogleRefused`/`GoogleAnswers`/`GoogleFails`, `Redirect`, `BackToLogin` |
| `EmailListing` | the lists of `emailJobService.ts` and their routes (pure) | `Matching`, `Orders`, `Limit`, `Skip`, `Page`, `Visible`, `ListedOnce` |
| `Mailbox` | `useMailbox` in each tab | `MountMailbox`, `ChangeTab`, `Refetch`, `MailAnswers`, `MailFails`, `Remount` |
| `FrontEnd` | the composition of session, mailboxes and accounts, fairness, the properties | `Next`, `Spec` |
| `WorkerLifecycle` | `main`, the heartbeat and sweep timers and the passes the latter starts, the commands of a process's connection, `shutdown`, `/health`, of several processes | `Start`, `LoadSenders`, `Reconciled`, `Fails`, `Beat`, `PassStarts`, `PassEnds`, `TakeJob`, `JobEnds`, `Land`, `Signal`, `Closed`, `Exit`, `RedisGoes`, `RedisReturns`, `Tick` |
| `MCEmailScheduler`, `MCRateLimiter`, `MCBatchCreation`, `MCComposeForm`, `MCFrontEnd`, `MCWorkerLifecycle` | values of the constants for TLC | |
| `MailBooks` | the inductive invariant `Books` of the delivery core: how row, job, slot and reader fit together | no state of its own |
| `EmailSchedulerProofs`, `MailPromiseProofs`, `RateLimiterProofs`, `BatchCreationProofs`, `ComposeFormProofs`, `FrontEndProofs`, `WorkerLifecycleProofs` | theorems checked by TLAPS | |
| `FoldLemmas` | lemmas on the folds of the community modules: induction over a finite set, what a fold, a sum, a maximum and a flattened list are | |

Definitions named "Mutant of ..." stand next to the one they vary; no action uses
them. They are what a plausible mistake in the code would look like, and each
property is known to fail under one of them (`mutants` in `PROJECT.json`).

The component modules extend each other in the order `MailState`, `MailQueue`,
`EnqueueService`, then `BatchService` and `ReconcileService`; `EmailWorker`
extends `MailQueue`. Extending, rather than instantiating, lets each action
state all of its frame, since all of them write the same rows. Scheduler, rate
limiter and batch creation are separate models: `EmailScheduler` lets a
reservation be granted or refused at will (every behaviour of the limiter is one
of those), `RateLimiter` opens that step up and adds the clock. `BatchService` is
the one write of a request that the delivery core sees; `BatchCreation` has the
rest of it, and of what happens to the rows only that `deferJob` moves their times
(`Defer`); the rest of it is in `EmailScheduler`.

`ComposeForm` extends `BatchCreation`: what a page posts becomes the input of a
request there, and the answers of the requests come back to the page. That is the
whole way of a mail from the form to its batch, with the page's time-out in
between. `FrontEnd` extends `Mailbox` (with `EmailListing`) over `AuthContext`
over `Accounts`: the mailbox is mounted by the session's `user`, its calls carry
the session's token. `WorkerLifecycle` has the processes whose slots
`EmailScheduler` describes; of a job it knows only that one is in hand.

### How the code is read

* A slot's `pc` names the await `processJob` is at. The decision taken after the
  await is part of the action, so the row may change between two actions but not
  within one.
* `enqueueEmailJobs` runs its `queue.add` calls concurrently: `AddOk` and
  `AddTimeout` come in any order, and `MarkQueued` when all have settled. An
  actor that is abandoned keeps what it has already written.
* Writes are by id and unconditional in the code, and so in the model.
* A deferral returns from `processJob` normally. BullMQ then tries to complete a
  job that is no longer active; the model lets it, and the lock refuses it.
* `Age` stands for `updatedAt` getting old while nobody works on the row, and
  `AgeSlowly`, a fault, for a send slower than `STUCK_PROCESSING_THRESHOLD_MS`.
* Whether `scheduledAt` has passed is left open wherever the code compares it
  (`Inspect`), as the scheduler model has no clock.
* In the browser an action is one event (a click, an answer, a time-out), as React
  and JavaScript run one to its end before the next. Effects that React runs
  after a render are part of the event (`Remount`) when nothing can come between,
  and actions of their own (`Redirect`, `MountMailbox`) when something can.
* A time-out of `apiFetch` ends the page's waiting and not the request. An answer
  of a page that was left, or closed, still sets what is shared (localStorage).
* A connection's commands are a sequence that lands in order; while Redis is away
  they wait. `/health` is the operator `CheckWorker`, as it only reads.
* The Google callback is three actions: the check of the state (`CallbackArrives`), the
  exchange and the upsert (`GoogleUpserts`), and the arrival of the answer
  (`GoogleReturns`), which is what clears the cookie. Meanwhile the browser may start
  another sign-in or ask for the callback again.
* The catch of `deferJob` (`emailWorker.ts` 72-79) repeats `moveToDelayed` for the
  messages "Missing lock token" and "Lock not found" only. BullMQ's worker always passes
  a token, and a lock that was lost has other messages ("Missing lock for job", "Lock
  mismatch"), which are rethrown: the attempt fails, and the repetition has no action.
* Two branches of `processJob` cannot be reached and have no action: a missing
  row (nothing deletes rows) and a row without a sender (`createBatch` resolves
  one or refuses).

### Faults

`Faults` says which kinds may happen and `MaxFaults` how many in a behaviour.
`crash` and `apiCrash` end a process (also one that cannot reach Redis to
finish a job), `stall` expires the lock of a live worker, `redisLoss` empties
Redis at any moment and `coldLoss` only while workers and sweeps rest,
`redisTimeout` gives up a call (a `queue.add` may still arrive later: `late`),
`dbError` rejects a Postgres call that has done nothing and `dbLostReply` one that
Postgres has carried out (of a slot; for a request or a sweep that is the write followed by
`Abandon`), `lostFailure` loses the write of a final
failure, `lostReply` loses the answer of the SMTP server and `slow` is a send
beyond the threshold. A refused SMTP delivery (`SendFails`) is ordinary
behaviour and not counted.

### Isolation

Most of what the code's comments promise holds only if no job of a row moves
between an actor's read (or add) of the row and its write. `Isolated = TRUE` is
that assumption, made explicit (`Busy`, `Quiet`); in practice it is the delay
before a job is due. The runs with `Isolated = FALSE` show which properties do
not need it, and the runs named `doc_*` what happens to a documented claim
when it, or another silent assumption, is dropped.

## 3. Runs

All constants of a run are in its `.cfg`. One row and two slots suffice for
everything about a single row: the rows meet only in the slots and in the sets
an actor carries, and all properties but the promise are about one row at a
time. `core_promise` takes two rows and one slot so that they compete. Two
attempts distinguish a retry from a final failure; two stalls (`MaxStalledCount`
1 or 2) a redelivery from giving up.

| run | question | result |
|---|---|---|
| `core_faults` | any two faults of ten kinds, no isolation: `TypeOK`, `SentMeansDelivered`, `DuplicateBound` and the inductive `CopiesBounded` | hold (2,508,323 states) |
| `core_interleavings` | two overlapping sweeps, one fault that leaves locks and jobs alone, no isolation: `OneSender`, `FailedStopsSending` | hold (2,683,461 states) |
| `core_recovery` | isolated; up to `maxStalledCount` crashes, API crashes, time-outs, cold losses: the inductive `Books`, `OnlyResidualWindow`, `NoOrphan`, `TerminalStays`, and under fairness `Settles` | hold |
| `core_promise` | isolated; two rows, one slot: `EmailScheduler` implements `MailPromise`, liveness included | holds |
| `limiter_caps` | three jobs, two batches, one sender, hours of two ticks: `CapsHold`, `AllOrNothing`, `StaggerSpaced`, `BlockedOncePerHour` | hold |
| `batch_creation` | two requests, one mail typed in several ways, window of two ticks, rows that are deferred: `CopiesOverlap`, `AnswerMatches`, `AnswerIsTrue` | hold (2,613,396 states) |
| `compose_form` | one page, two submissions into the API, edits, a lead file, overlapping picks of attachments, limits that arrive late: `OneInFlight`, `CopiesOnlyAfterGivingUp`, `ChecksAgree`, `ShownIsStored`, `TotalKept`, `NothingLost`, `OnlyLateReadsLeak`, `LeadCountsAddUp` | hold (668,757 states) |
| `session` | two tabs, two accounts, four acts of the user, answers in any order: `ShownIsTokens`, `MailIsOfTheBox`, `EachListedOnce`, `AccountsStay`, `CallbackOnce`, and under fairness `WaitingEnds` | hold (987,001 states) |
| `worker_lifecycle` | two processes over one key, Redis away once, a signal at any moment: `StaleMeansSilent`, `OkMeansRunning`, `JobsEndFirst`, and under fairness `StopEnds` | hold (1,416,687 states) |
| `doc_terminal` | "`sent`/`failed` (terminal)" without isolation | violated: the late `queued` write of an enqueue |
| `doc_overdue` | an overdue job is promoted by the re-add | violated: the id is taken, the add does nothing |
| `doc_sweep_lost_failure` | the sweep repairs what would otherwise be left forever | violated: after a lost `failed` write |

The quotations and the lines of the code are under `findings` in
`PROJECT.json`. Read together with `core_recovery`, `doc_sweep_lost_failure`
draws the line: what the sweep and redelivery do repair, and a way a row stays
in `processing` for good, because a finished job keeps its id and the sweep takes
"a job exists" for "a job will run". More stalls than `maxStalledCount` and a
Redis loss under an active job are two others (put `stall` with `MaxFaults` one
more than `MaxStalledCount`, or `redisLoss`, for the fault). The late write of
`doc_terminal` is the enqueue's; without isolation a sweep's reset of a row that a
live worker settles has the same effect.

What the properties say about the front end needs its exceptions read:
`ShownIsTokens` and, for the account, `MailIsOfTheBox` except the tabs in `raced`, those whose
session was changed after they loaded, or their user signed in, by another tab or
by a call that was late: in the code a tab keeps its `user` while its calls carry
whatever token localStorage holds. `CallbackOnce` is about the check of the state, which
only the sign-in started last passes, and about the end, which each reaches once; that
an older sign-in ends after a newer one was started, and takes its cookie away, is what
the code does and the model shows (a newer one that comes back then is refused).
`TotalKept` says how the total of the attachments may be exceeded in the form: by files
read beside each other, and in no other way. `AnswerIsTrue` takes a deferral of a row
for what it is: the answers do not know of it (section 7). `JobsEndFirst` leaves a
reconciliation pass under way to its fate, as `shutdown` does. `StaleMeansSilent` names the two ways a living
worker is reported `stale` (another process's shutdown deleted the shared key, or
a heartbeat that had waited put back an older time), `OkMeansRunning` the time in
which nobody runs and `/health` says ok.

Bounds. `MaxFaults` is 2 in `core_faults` because the interesting duplicates
need a fault in one execution and another in the redelivery; `core_interleavings`
spends its states on a second sweep instead. The liveness runs take
`MaxStalledCount` 2, as the code does, so that two crashes stay within it. Sweeps
repeat for ever; a request comes at most once. In `RateLimiter` the clock stops at `Horizon` (three ticks
of a two-tick hour: the first hour, its end, the next one and the moment a key
expires), so deferred jobs may be left asleep: that run does not check
deadlock. `Attempts` is 1 there, `LateEvals` (abandoned scripts that still run)
1. `Ttl` 3 against an hour of 2 and a time-out of 1 is the tightest choice
`TimesAssumption` allows, where the code has 3700 s against 3600 s and 3 s.

In `batch_creation` two requests suffice for properties about pairs; what needs
three (a repeat answered with either of two copies) is covered for
`CopiesOverlap` by its proof. The clock runs to twice the window, so that batches
expire. The window is inclusive on both sides, as `gte` is. One input has a
start that passes before the clock stops: a repeat that late is refused, although
its batch exists. Rows are put off by two ticks (`Shifts`), so that a row may be deferred
in the window and a repeat ask after it. `README.md` of the repository (441) documents that two requests
with one key may both create; `CopiesOverlap` is the exact extent of that race.

`compose_form`: two submissions for the pairs of `CopiesOnlyAfterGivingUp`, two
files of which each fits the limits and both do not, a server stricter than the
fallback in the sizes and types of attachments, in the delay and in the hourly limit
(the number of files and of recipients is the same), and three inputs of the user, enough to choose a lead
file, edit while it is read, and submit or remove. Two lead files stand for the
text and the table format, with repetitions, blanks and a wrong entry.
`LeadCountsAddUp` takes all lists of up to three entries (`MaxCells`) and is
evaluated in the states of an untouched form only, as it is about an operator;
likewise `EachListedOnce`, over all tables of up to four of eleven rows (`Tables`)
and pages of one and two, and a limit of none, which the code raises to one
(`PageSizes`); its proof has no such bounds. The clock
makes one step here, so a batch never leaves the window: the look-up's cut-off is
`batch_creation`'s concern, and the pairs a window apart that of
`CopiesNeedGivingUp`, which is proved. Deferrals are left out of this run, as no answer
the page shows depends on the times of rows.

`session`: races need two calls, or two tabs, and what a user did before; four
acts (`MaxEvents`) allow a login or sign-in in each of two tabs and two more acts
around them, two Google flows (`MaxFlows`) so that one overtakes the other.
`worker_lifecycle`: an expiry of two heartbeats (the code has three) is the least
that a single late heartbeat survives; the clock stops there (`Horizon`), one
command may wait in a connection (`MaxQueue`) beside the first heartbeat and the
DEL, Redis goes away once (`MaxAways`), each process is started and signalled at
most once.

Fairness. `FairSpec` of the scheduler: promises settle, timers fire and BullMQ promotes due jobs
and checks stalled ones: weak fairness of the actors' steps, the slots' steps,
`Promote`, `Stalled`, `Age` and the final write. BullMQ's waiting list is first
in, first out, and the counters start again every hour: strong fairness of
claiming a waiting job and of being granted a slot. Nothing makes a request
come, a fault happen or a late command arrive. `FrontEnd`: a call of a page ends,
if only because `apiFetch` aborts it after fifteen seconds (weak fairness of
`CallEnds` and `MailEnds`; the abort covers the wait for the headers,
`api.ts:70`, so that a body which never ends is assumed away), and React runs the
effects of what it rendered (`Redirect`, `MountMailbox`); nothing makes the user or
Google act. `WorkerLifecycle`: Redis comes back (`RedisReturns`) and what a
shutdown waits for goes on (`ShutdownGoesOn`: the jobs of the workers it closes end,
commands land, the next statement runs); nothing makes a signal come. That Redis
returns is needed: the DEL of a shutdown has no time limit.

## 4. Proofs

TLAPS checks the following for every value of the constants that satisfies the
named assumptions of the modules: any sets of rows, slots, sweeps and requests
(slots finite), any limits, any kinds and any number of faults, isolated or not.

Delivery core (`EmailSchedulerProofs`)

* `TypeCorrect`: `TypeOK` is inductive.
* `SentIsDelivered`: `SentMeansDelivered`. The invariant is strengthened by "a
  slot at `record` works on a row whose message was accepted" (`Delivered`), as
  the `sent` write comes one await after the send.
* `CopiesStayBounded` and `DuplicatesPaidFor`: at most one copy of a message per
  fault beyond the first. `DuplicateBound` is not inductive: a slot that is about to
  send breaks it in one step. `CopiesBounded` counts each copy once wherever it is:
  accepted by SMTP, in a slot heading for `sendMail` or for a retry, or available
  as a job that can be claimed. `ActorsSendNothing` and `RowsSendNothing` show that
  requests, sweeps and the queue add no copy, which rests on deterministic job ids
  and on finished jobs being kept; `SlotActionPays` goes through the actions of
  a slot; `HeadingStep` turns the slot's change into a change of the sum.
* `OneSlotSends`: `OneSender`, from the assumption `LocksLast` that neither
  `stall` nor `redisLoss` is among the faults; with either of them the property is
  false, and `DuplicateBound` is what remains. The invariant `HoldsLock` says that a
  slot at work holds the lock of its job, which is active; claiming needs a free
  lock, and each way out of the working part gives the lock up with the part.
* `SendersArePaidFor`: with stalls and losses of Redis, the slots at work on a row are
  at most one more than the faults so far (`SendersPaid`). A slot at work either
  heads for `sendMail` and is counted in `CopiesBounded`, or is about to write
  `sent` and has had a copy of its own accepted (`RecordersPaid`).

The scheduler against its promise (`MailPromiseProofs`, on `MailBooks`)

What the code's comments promise of a mail is a matter of four places that know of
it: the row, the job, the slot that holds the job, and the requests and sweeps that
have read the row. None of the properties `TerminalStays`, `NoOrphan` and
`OnlyResidualWindow` is inductive, and all of them rest on one invariant that no
code states, `Books`: a locked job is active and its slot is at work on it
(`LockKept`); a slot past the guards of `processJob` works on an open row
(`SlotsFit`); a job that will run again has an open row, and a finished one a row
that says how it finished, or a `failed` write in flight (`RowsFit`); what a request
or a sweep has read is still good when it is used (`ActorsFit`); every stall was paid
for by a crash (`StallsPaid`). TLC checks it in `core_recovery`.

The assumption is `Orderly`: isolation; neither `stall`, `redisLoss` nor `dbLostReply`
among the faults; and not both `crash` and `dbError`. Crashes may be as many as they
like.
What needs that jobs are not given up for stalling says so: `StallsCovered` is that,
if `crash` is among the faults, they are no more than `maxStalledCount`.

The attempts to do without these parts failed for good reasons. A crash between the
`sent` write and the completion of the job brings back a job whose row is `sent`.

* If it stalls once too often with its attempts used up, or uses up its last attempt
  on a rejected read, the `failed` handler, which looks at the attempts alone,
  writes `failed` over `sent`. To see it, take `doc_terminal` with no sweeper,
  `Faults = {"crash", "dbError"}`, `MaxFaults = 2`, `Isolated = TRUE` and no deadlock
  check. (`StallsCovered`, and not both faults, in `TerminalIsFinal`.)
* If it has an attempt left after the rejected read, it waits for its retry, and a
  sweep that had read the row as `queued` before it was sent finds an overdue delayed
  job, adds it to its list and marks the row `queued`: the message goes out again
  with no crash in the window of `README.md` 370, although no job moved between an
  actor's look at it and the write of its row. To see it, take `core_recovery` with
  `Faults = {"crash", "dbError"}`, `SPECIFICATION Spec` and `OnlyResidualWindow` alone.
  (Not both faults, in `Books` and in all that follows.)

A `sent` write that Postgres has done although it was rejected (`dbLostReply`) has the same
effect without any crash: the attempt fails, and if it was the last, the `failed` handler
writes over `sent` (section 7). `TypeCorrect`, `SentIsDelivered`, `DuplicatesPaidFor`,
`CopiesStayBounded`, `OneSlotSends`, `FailedIsFinal` and `NoJobEndsEarly` allow for it.

* `BooksAreKept`: `TypeOK`, `HoldsLock` and `Books` in every state. There is one
  lemma for the steps of the actors, of the rows, of a cold loss, of claiming and of
  the slots.
* `TerminalIsFinal`: `TerminalStays`, if `StallsCovered`, by going through the writes
  to a row.
* `NothingOrphaned`: `NoOrphan`, if `StallsCovered` and `lostFailure` is not among the
  faults, from `FailuresKnown`: a job that BullMQ gave up has its `failed` write done or
  in flight. It is the part of `Settles` that needs no fairness: an open row always
  has a job that will run, a slot, a write in flight, or a sweep to find it.
* `ReplaysOnlyInWindow`: `OnlyResidualWindow`, if `lostReply` is not (an answer of
  the SMTP server that is lost makes an accepted message look refused). `SendsExplained`
  accounts for every accepted copy: recorded, about to be, or lost in the window. It
  needs no bound on the crashes.
* `NoJobEndsEarly`: `JobsEndInTime`, isolated or not and whatever fails: a job that
  BullMQ counts as completed has had its message accepted, and one that it counts as
  failed has no attempt left or has stalled too often. `EndsInTime` gives each slot that
  is about to finish its job the same reason, and `LockKept` sees to it that a slot that
  deferred its job no longer holds it.
* `FailedIsFinal`: `FailedStopsSending`, isolated or not, as long as neither locks nor
  jobs are lost (`JobsLast`). A cold loss has to be excluded, too: a
  request or a sweep that still holds the row adds it again after the loss.
* `PromiseKept`: the refinement, under `Orderly` and `StallsCovered`. Every step of the
  scheduler is an acceptance, a delivery, a confirmation, a refusal or a stutter of
  `MailPromise`. Its constant `Replays` is how many copies of one mail beyond the first
  it allows: none without a crash, a rejected write or a lost reply, as in
  `core_promise`, and otherwise one for each fault. `Account` carries the two
  arguments, `SendsExplained` for the exact promise and `CopiesBounded` with
  `FailuresPaid` for the other: a copy of a mail that is sent again, or shown as failed,
  has cost a fault. The liveness of the promise stays with TLC.

Rate limiter (`RateLimiterProofs`)

* `LimiterTypeCorrect`: the types of the limiter.
* `CapsAreKept`: no hour hands out more than a cap. `CapsHold` is not
  inductive: that the next grant fits follows from the counters, and only while
  their keys live. `CapsInv` adds that counters stay below the caps, that a
  counter's key outlives its hour by the time-out (this is where `HourLen +
  Timeout <= Ttl` is used), and that as long as a caller may be waiting every
  slot of the hour is counted (`GrantsCounted`).
* `BlockedJobsWait`: a capped job asks again only in a later hour, from
  `PastBlockedHour`, which follows the job through the deferral.
* `StaggerIsSpaced`: jobs of a batch that are put off in one hour keep its delay
  between them. `InLine` relates each job's place to the counter of that hour:
  places are handed out once, and the time a job is put off to is the start of the
  next hour plus its place times the delay.
* `SlotsInAllScopes`: `AllOrNothing`, for finite sets of senders and batches. The
  invariant `Balanced` says of each hour that is not over that the counters of the
  senders, and of the batches, add up to the global one; `FoldLemmas` has
  what a sum over a set does when one member changes.

Batch creation and the compose form (`BatchCreationProofs`, `ComposeFormProofs`)

* `RepeatsCollapse`: `CopiesOverlap`, for any number of requests and inputs. The
  invariant `LookUpInv` says that a request that creates a batch has seen only
  committed ones, and those under its key before its cut-off (`OldOnly`), and that
  the cut-off lies a window before the time of its create (`Order`); nothing about
  the parser or the key is used.
* `BatchTypeCorrect`, `AnswersMatch` and `AnswersAreTrue`: the types, `AnswerMatches`
  and `AnswerIsTrue`, for lists of recipients of any length. They rest on
  `ParseFinds` (the parser returns each valid address of a list once) and
  `PlanIsPlan` (the last row of a plan is the latest). `Traced` follows each answer back to the
  input that made its batch and `KeyMeans` reads the key backwards; `Said` adds the
  times and the rows that went to the queue, and `OnlyLater` that deferrals move rows in
  one direction.
* `OneSubmission`: `OneInFlight`, from `OneWaits`: besides the flag that disables
  the button, the error and the success view are up only while nothing is awaited.
* `CopiesNeedGivingUp`: `CopiesOnlyAfterGivingUp`. `LookUpInv` is carried over from
  `BatchCreationProofs`, as every step of the form is one of `BatchCreation` or
  leaves its variables alone; `InTurn` says of two requests which the page did not
  give up on that one ended before the other was posted. Together: the later one
  saw the earlier's batch, and would have answered with it.
* `TotalIsKept`: `TotalKept`. The property is not inductive, as a removal may take away
  the very file whose check it names. `AllWithin` says the same of every set of files
  that are in the form or being read: one of them was checked against a total that the
  whole set is within, namely the one picked last, or two of them were read beside each
  other. `TotalsGrow` (fewer files are not more bytes) rests on the lemmas of
  `FoldLemmas` about sums (`AddsUnfold`, `AddsGrow`).
* `LeaksAreLate`: `OnlyLateReadsLeak`, from `Accounted`, which adds the reads under
  way.
* `FormTypeCorrect` and `ReadsOnlyAdd`: the types of the form, and `NothingLost`,
  which is about single steps but needs to know what a lead file may contain
  (`LeadsList`).
* `ChecksHold` and `ShownIsAsked`: `ChecksAgree` and `ShownIsStored`. `Postings` says
  that what is posted parses to itself: the recipients of the form are a list of
  valid addresses without repetition. `Answering` carries the
  invariants of `BatchCreationProofs` into the form.
* `LeadsAddUp`: `LeadCountsAddUp`, from the lemma `LeadsCounted`, which is about
  `normalizeEmails` and lists of any length, where the run takes `MaxCells`.

The induction over lists. No lemma may take a predicate as a parameter, so
`FoldLemmas` states induction over a set that is named (`SetInduction`: a set of
subsets of S that has the empty set, and has each subset which without its chosen
member it has, has all of them),
from the well-foundedness of the natural numbers. `FoldExists` says that the
recursive function behind `FoldLeft` exists and unfolds; the rest (`ConcatAdds`,
`FlattenTypes`, `TotalAdds`) are consequences.

The browser (`FrontEndProofs`)

* `AccountsAreKept`: `AccountsStay`, action by action; it needs the unique
  address, not the look-up before it.
* `CallbackIsNewest`: `CallbackOnce`, from `FlowsInOrder`: the cookie is the
  newest flow's or empty, a tab away at Google has a flow, and neither the cookie nor a
  callback that somebody waits for is of a flow that has signed somebody in.
* `ShownIsTheTokens`: `ShownIsTokens`. `CallsInPlace` (a call under way belongs to
  the page its tab is on) and `OneAtATime` are needed: without them an answer could
  set the user of a page that is past it.
* `MailIsTheUsers`: `MailIsOfTheBox`, from `MailInv`: effects are numbered in
  order, and a fetch is current (same box, and the account on display) or ignored
  by the `active` flag.
* `FrontEndTypeCorrect`: `TypeOK`, whose bound on the effects is more than a type:
  `useMailbox` runs at most as often as the user acts. `Spent` says that what a tab has
  run and what it still owes (`Owed`: a sign-in or a validation under way, a
  visit to Google, a mailbox that is mounted and has not run) is at most the
  number of acts so far. No end of a call and no effect adds to that.
* `WaitingIsForSomething`: `NobodyWaitsInVain`, the part of `WaitingEnds` that needs no
  fairness: a tab that shows a spinner has a call or a fetch under way that counts, or
  an effect or a redirect about to run. `Attended` follows the validation of a page that
  is initializing and the newest effect of a mailbox that loads.
* `TablesAreListed` and `ListsAreComplete`: `EachListedOnce`, for tables of any finite
  number of rows, any page sizes and any order Postgres may choose, where no two rows of
  a list have the same time. Every such list has an order and only one
  (`OrderExists`, by the set induction of `FoldLemmas`; `OrdersList`: it is a
  sequence of its rows, each once); the pages from `Skip` and `Limit` cut it without
  gap or overlap (`PageHolds`, `OnOnePage`), and a row of the other list is on no page.

Worker processes (`WorkerLifecycleProofs`)

* `LifecycleTypes`: types, with the bound on a connection's queue (`QueueBounded`:
  the first heartbeat and the DEL come on top of the timer's).
* `StaleIsExplained`: `StaleMeansSilent`, from `Kept`: the last heartbeat of a
  running process that nobody wiped out is in the key, or a newer one is.
* `OkIsExplained`: `OkMeansRunning`, from `Accounted`: a key that is there belongs to
  a process that has still to delete it or may leave it behind, or is older than an
  unclean end; `DelIsLast` says that nothing follows the DEL in a connection.
* `ShutdownIsOrderly`: `JobsEndFirst`, from `OrderlyStop`: no exit over a job in hand, and
  no pass of the reconciliation started after the signal. The signal during
  start-up is excepted, and the exception is real: `main` goes on and opens workers
  that no one closes.
* `ShutdownRunsOut`: `StopShrinks`, the part of `StopEnds` that needs no fairness: what
  a shutdown has to wait for (`StepsLeft`: the close of the workers with the DEL, the
  job in hand, the replies) never grows, and each step of its own makes it less; a
  reconciliation pass that ends meanwhile counts for nothing, as nobody waits for it. For
  a signal during start-up this does not hold, as `main` sets the heartbeat's timer
  after it; there `StopEnds` is known from its run only, whose clock stops.

Only model-checked: liveness (`Settles`, `WaitingEnds`, `StopEnds` and the liveness of
`MailPromise`), which needs fairness and ENABLED, and with it `KeepsPromise` as a
whole, of which `PromiseKept` is the safety. `NothingOrphaned`, `WaitingIsForSomething`
and `ShutdownRunsOut` are what can be said of the first three without fairness. All other
properties of the passing runs have a theorem. The properties that
the `doc_*` runs refute have no theorem, of course; `TerminalStays` and
`Settles` are among them, without the assumptions named above.

## 5. Abstractions to know about

* Messages, addresses, subjects and errors are left out; a row is a model value.
* The pacing limiter of a queue (`limiter: {max: 1, ...}`) only delays claims.
* All workers share one clock with Redis in `RateLimiter`, `MaxAttempts` failures
  are counted per job and backoff is immediate. Counters are not lost: a Redis
  that comes back empty starts its hour again, and `CapsHold` does not hold over
  such a loss.
* ioredis repeats commands over a reconnect; the repetition of a reservation
  script only counts a slot too many and is not modelled.
* `BatchCreation`: subject and body are one model value, up to the outer blanks that the
  key trims (`batchService.ts` 98-99), so mails that differ in those only are one; an address is one with
  a table for `trim().toLowerCase()`; the schema and the attachment limits are
  one flag of the input. Senders are changed by scripts only and read as
  constants. A hash collision of the fallback key is left out. API processes and
  Postgres share one clock. Reads of `senders` take one step.
* `RESCHED_KEY_TTL_SECONDS` is left out: a stagger key is used during one hour
  and lives longer than that.
* The caps of `RateLimiter` are constants, while the code reads them per call; a
  cap that an operator lowers in mid-hour is not modelled.
* `ComposeForm`: a file is read or fails as a whole; names, sizes and types are
  small values; a lead file is its rows of cells. `SchemaAccepts` has no check that the
  start is a date (`batches.ts` 32), as the form posts the `toISOString` of one. The counters the form only
  displays and the wording of errors are left out. One tab: forms of several tabs
  share nothing before the API.
* `Accounts`: an identity of Google keeps its address, and Google writes it in small
  letters. The update of the upsert (`authService.ts` 55-56) would store another one as
  it is, and `registerWithEmail` looks for the lower-cased one.
* `RateLimiter`: a worker that dies between the refusal of a slot and `moveToDelayed` is
  left out; its job is delivered again and asks a second time in the hour, so that
  `BlockedOncePerHour` is about refusals whose deferral is carried out or rejected.
* `AuthContext`: the callback page is not reloaded with the token still in its address (it
  would hand over the same token again); the answer of a navigation that the browser has
  given up is taken as not processed, its cookies included.
* `AuthContext`: a token is the account it names, and does not expire; the session
  cookie, which `requireAuth` takes when there is no token, is any account or none;
  "dashboard" stands for every page behind `ProtectedRoute`. Passwords match when the
  account has one.
* `Mailbox`: the three requests of an effect are one fetch, as the page waits for
  all of them. The rows themselves are in `EmailListing`.
* `WorkerLifecycle`: a job is in hand or not; time is counted in heartbeats. The
  sweep and the jobs themselves are in the delivery core. A second signal, which
  runs `shutdown` a second time, is not modelled. Neither is a close, `quit` or
  `$disconnect` that rejects (`emailWorker.ts` 289, 295-296): it ends `shutdown` without
  an exit (`void shutdown`, 307-308; the rejection is only logged, 300-302) and leaves a
  process that runs on without workers or timers. `StopEnds` is about shutdowns whose
  calls succeed.

## 6. Not modelled, and why

* The API process (`server.ts`, `app.ts`): a bounded retry of two probes and the
  wiring of Express; that the process may die under a request is `Dies` and
  `apiCrash`. Connections, configuration and logging are set-up; that Redis or
  Postgres cannot be reached is a fault of their callers.
* The size limits of the request itself: `express.json`'s 1 MB (`app.ts` 27) and multer's
  limit on the size of a field. A batch beyond them is refused before the handler.
* The transport cache (`mailer.ts`): `sendMail` is the `SendOk`, `SendFails` and
  `SendLosesReply` of `EmailWorker`. The cache keeps a sender's credentials for the
  life of the process; senders are changed by scripts only, so that nothing in the
  system depends on it.
* Seed, migration and set-up scripts, the schema beyond its enum and fields,
  rendering and styling, the docker files.

## 7. Where the code and its documents differ without a run

Each was met while modelling. The first three are variants of what the runs above
show, the others are plain from the line.

* The residual window (`README.md` 370) is a crash after `sendMail`; a lock lost by
  a live worker at `emailWorker.ts` 155 duplicates a message, too.
* `emailWorker.ts` 189-195: the `failed` handler asks how many attempts were made, and
  not what the row says. A worker that dies after the `sent` write leaves a job that
  is redelivered; if the last attempt of it fails at the read of the row (98), the row
  of a delivered mail becomes `failed`, against `README.md` 286 (section 4, `Orderly`).
  If an attempt is left, a sweep that had read the row before it was sent takes the job
  that waits for its retry for an overdue one (`reconcileService.ts` 112-126) and the
  `queued` write (`enqueueService.ts` 69-78) makes it send the message again.
* `emailWorker.ts` 162-175 takes a rejected `sent` write for a failed send. If Postgres has
  committed it and only the answer was lost, the row is `sent` while the attempt fails:
  a next attempt stops at the check of the row (`emailWorker.ts` 103), but on the last
  one the `failed` handler shows a delivered mail as failed.
* `emailWorker.ts` 83-86 moves `scheduledAt` of a row while `summaryFor` (`batchService.ts`
  122) computes the last time from the batch: a repeat inside the window of the key is
  told the time of the plan, which is too early once the last row was deferred.
* `emailWorker.ts` 285-298 clears the sweep timer and waits for the jobs, but not for a
  pass the timer has started (`reconcileService.ts` 256-257): `process.exit(0)` cuts it
  off between two of its writes. What it leaves is what a dead caller leaves (`Abandon`),
  which the next pass repairs.
* `routes/auth.ts` 78-87 clears the state cookie with the answer and whatever it is by
  then: a sign-in that was overtaken during the awaits takes the cookie of the newer one,
  which is then refused. Until the answer has come, a callback that is requested again
  passes the check again; Google's code, good for one exchange, is what refuses it.
* `reconcileService.ts` 165-172 finds a job that failed by too many stalls and leaves
  its row alone for good.
* `emailWorker.ts` 36-39 says that the stagger keeps the order of a batch; it is the
  order in which the INCRs arrive.
* `README.md` 79: "stale" is a heartbeat older than 90 s, also after another
  process's shutdown deleted the key.
* `README.md` 180: a 401 clears the storage; any error of the start-up validation
  does (also a time-out), and a 401 of the mailbox does not.
* `useComposeEmail.ts` 431: `d.field in mapped` asks an object that has none of the other
  fields yet, so the server's details about them are dropped.
* In the form: one unreadable file loses the whole pick (330); submitting does not
  wait for attachments that are being read (405); removing goes by name, and takes
  files of one name together (348); limits that arrive late overwrite a delay the
  user typed if it equals the default (175).
* `emailJobService.ts` 59: rows and total are two queries, and may differ.
* `batchService.ts` 80: `duplicatesRemoved` counts blank entries as well.
* `emailWorker.ts` 278 and 310: a failing start-up reconciliation exits the process
  with jobs in hand, which is a crash for them.

## 8. Plan

Built: the delivery core, the limiter, batch creation, the compose form over it, the
session with its mailboxes and accounts, the worker processes, their runs and the
theorems above. What is left, in the order of what it would add:

1. What `Books` becomes without isolation: besides `LockKept`, `FailedForGood` and
   `JobsEndInTime`, which of its parts hold, and which writes break the others.
2. `ComposeForm` as an implementation of `BatchCreation` with its requests fixed in
   advance: the form chooses them as it goes, so that a prophecy is needed.
3. `WorkerLifecycle` with a second signal, and its processes composed with the
   slots of `EmailScheduler`, so that a shutdown meets the sweep.
4. The session with expiring tokens.
