---------------------------- MODULE RateLimiter ----------------------------
(***************************************************************************)
(* services/rateLimiter.ts and deferJob of workers/emailWorker.ts: the     *)
(* three hourly caps, reserved by one atomic script, and what happens to a *)
(* job that gets no slot.  Time passes between any two steps; a tick       *)
(* stands for a fraction of an hour.  Workers and Redis share the clock.   *)
(***************************************************************************)
EXTENDS Integers, FiniteSets, Folds

CONSTANTS
    Jobs,       \* the jobs of all batches, numbered in the order of their scheduledAt
    Senders, Batches, Global,   \* the scopes a cap applies to
    SenderOf, BatchOf,          \* the sender and the batch of each job
    Cap,        \* the limit of each scope (checkAndReserveSlot resolves it per call)
    HourLen,    \* ticks in an hour
    Ttl,        \* RATE_LIMIT_TTL_SECONDS
    Timeout,    \* CHECK_TIMEOUT_MS
    RetryDelay, \* REDIS_UNAVAILABLE_RETRY_MS
    BatchDelay, \* batch.delayMs
    Attempts,   \* the job option attempts: a deferral is none, a failure is one
    Horizon,    \* bound: the clock stops here
    LateEvals   \* bound: how many commands may outlive their caller

Scopes == {Global} \cup Senders \cup Batches
Hours  == 0 .. (Horizon \div HourLen)

ASSUME JobsAssumption ==
    /\ Jobs \subseteq Nat
    /\ SenderOf \in [Jobs -> Senders] /\ BatchOf \in [Jobs -> Batches]
    /\ Cap \in [Scopes -> Nat]
    /\ Global \notin Senders \cup Batches /\ Senders \cap Batches = {}
\* 3600 s + 3 s < 3700 s
ASSUME TimesAssumption ==
    /\ HourLen \in Nat \ {0} /\ Horizon \in Nat /\ Timeout \in Nat
    /\ Ttl \in Nat /\ HourLen + Timeout <= Ttl
    /\ RetryDelay \in Nat /\ BatchDelay \in Nat
    /\ Attempts \in Nat \ {0} /\ LateEvals \in Nat

VARIABLES
    now,       \* the clock
    phase,     \* where the job's slot is between processJob's start and its end
    since,     \* when the check took its bucket; in a deferral, its 'now'; else 0
    tries,     \* failed attempts of the job
    sched,     \* scheduledAt of a deferred job; else 0
    count,     \* the counters: rl:{scope}:{hour}
    expires,   \* when each counter's key expires
    resched,   \* resched:{batch}:{hour}
    late,      \* scripts sent by callers that timed out, as <<job, hour>>
    grants,    \* (history) slots handed to a caller, per scope and hour
    blockedIn, \* (history) the hour whose cap turned the job away; -1 when none
    turnedIn   \* (history) the hour whose cap deferral the job waits out; else -1

limits == <<count, expires, late, grants>>
vars   == <<now, phase, since, tries, sched, resched, blockedIn, turnedIn, limits>>

HourOf(t) == t \div HourLen
\* Mutant of NextHour: setUTCMinutes(0, 0, 0) without the hour added.
ThisHour(t) == HourOf(t) * HourLen
NextHour(t) == (HourOf(t) + 1) * HourLen
ScopesOf(j) == {Global, SenderOf[j], BatchOf[j]}

TypeOK ==
    /\ now \in 0 .. Horizon
    /\ phase \in [Jobs -> {"due", "asked", "granted", "capped", "unavailable",
                           "deferring", "delayed", "done"}]
    /\ since \in [Jobs -> 0 .. Horizon]
    /\ tries \in [Jobs -> Nat]
    /\ sched \in [Jobs -> Nat]
    /\ count \in [Scopes -> [Hours -> Nat]]
    /\ expires \in [Scopes -> [Hours -> Nat]]
    /\ resched \in [Batches -> [Hours -> Nat]]
    /\ late \subseteq Jobs \X Hours
    /\ grants \in [Scopes -> [Hours -> Nat]]
    /\ blockedIn \in [Jobs -> Hours \cup {-1}]
    /\ turnedIn \in [Jobs -> Hours \cup {-1}]

Init ==
    /\ now = 0
    /\ phase = [j \in Jobs |-> "due"]
    /\ since = [j \in Jobs |-> 0]
    /\ tries = [j \in Jobs |-> 0]
    /\ sched = [j \in Jobs |-> 0]
    /\ count = [sc \in Scopes |-> [h \in Hours |-> 0]]
    /\ expires = [sc \in Scopes |-> [h \in Hours |-> 0]]
    /\ resched = [b \in Batches |-> [h \in Hours |-> 0]]
    /\ late = {}
    /\ grants = [sc \in Scopes |-> [h \in Hours |-> 0]]
    /\ blockedIn = [j \in Jobs |-> -1]
    /\ turnedIn = [j \in Jobs |-> -1]

\* The local variables of a call (since) are forgotten with the call.
Moves(j, from, to, t) ==
    /\ phase[j] = from
    /\ phase' = [phase EXCEPT ![j] = to]
    /\ since' = [since EXCEPT ![j] = t]
    /\ tries' = tries

\* Mutant of Fails: a failure gives an attempt back, as skipAttempt would.
FailsForFree(j, from) ==
    /\ phase[j] = from
    /\ tries' = [tries EXCEPT ![j] = @ - 1]
    /\ phase' = [phase EXCEPT ![j] = IF tries'[j] < Attempts THEN "due" ELSE "done"]
    /\ since' = [since EXCEPT ![j] = 0]

\* The processor throws: BullMQ retries the job while it has attempts left.
Fails(j, from) ==
    /\ phase[j] = from
    /\ tries' = [tries EXCEPT ![j] = @ + 1]
    /\ phase' = [phase EXCEPT ![j] = IF tries'[j] < Attempts THEN "due" ELSE "done"]
    /\ since' = [since EXCEPT ![j] = 0]

----------------------------------------------------------------------------
(* checkAndReserveSlot *)

\* GET of a counter whose key may have expired.
Value(sc, h) == IF now < expires[sc][h] THEN count[sc][h] ELSE 0

\* RESERVE_SCRIPT: no counter moves unless all three caps have room.
HasRoom(j, h) == \A sc \in ScopesOf(j) : Value(sc, h) + 1 <= Cap[sc]

\* Mutants of Reserve: the batch counter is left out; the keys expire in a tick.
ReserveWithoutBatch(j, h) ==
    /\ count' = [sc \in Scopes |-> [i \in Hours |->
                    IF sc \in ScopesOf(j) \ Batches /\ i = h THEN Value(sc, h) + 1
                                                           ELSE count[sc][i]]]
    /\ expires' = [sc \in Scopes |-> [i \in Hours |->
                    IF sc \in ScopesOf(j) /\ i = h THEN now + Ttl ELSE expires[sc][i]]]
ReserveBriefly(j, h) ==
    /\ count' = [sc \in Scopes |-> [i \in Hours |->
                    IF sc \in ScopesOf(j) /\ i = h THEN Value(sc, h) + 1 ELSE count[sc][i]]]
    /\ expires' = [sc \in Scopes |-> [i \in Hours |->
                    IF sc \in ScopesOf(j) /\ i = h THEN now + 1 ELSE expires[sc][i]]]
Reserve(j, h) ==
    /\ count' = [sc \in Scopes |-> [i \in Hours |->
                    IF sc \in ScopesOf(j) /\ i = h THEN Value(sc, h) + 1 ELSE count[sc][i]]]
    /\ expires' = [sc \in Scopes |-> [i \in Hours |->
                    IF sc \in ScopesOf(j) /\ i = h THEN now + Ttl ELSE expires[sc][i]]]

\* The limits are read and the bucket is taken from the clock; the script is sent.
Ask(j) ==
    /\ Moves(j, "due", "asked", now)
    /\ UNCHANGED <<now, sched, resched, blockedIn, turnedIn, limits>>

\* Redis runs the script while the caller still waits, and grants ...
Grant(j) ==
    /\ now <= since[j] + Timeout /\ HasRoom(j, HourOf(since[j]))
    /\ Moves(j, "asked", "granted", 0)
    /\ Reserve(j, HourOf(since[j]))
    /\ grants' = [sc \in Scopes |-> [h \in Hours |->
                     IF sc \in ScopesOf(j) /\ h = HourOf(since[j]) THEN grants[sc][h] + 1
                                                            ELSE grants[sc][h]]]
    /\ UNCHANGED <<now, sched, resched, late, blockedIn, turnedIn>>

\* ... or blocks: a cap is reached and no counter moves.
Block(j) ==
    /\ now <= since[j] + Timeout /\ ~HasRoom(j, HourOf(since[j]))
    /\ Moves(j, "asked", "capped", 0)
    /\ blockedIn' = [blockedIn EXCEPT ![j] = HourOf(since[j])]
    /\ UNCHANGED <<now, sched, resched, turnedIn, limits>>

\* Redis is unreachable: the caller fails closed; its command may run later.
FailClosed(j) ==
    /\ Moves(j, "asked", "unavailable", 0)
    /\ \/ late' = late
       \/ Cardinality(late) < LateEvals /\ late' = late \cup {<<j, HourOf(since[j])>>}
    /\ UNCHANGED <<now, sched, resched, count, expires, grants,
                   blockedIn, turnedIn>>

\* A command nobody waits for any more reaches Redis.
LateEval(j, h) ==
    /\ <<j, h>> \in late
    /\ late' = late \ {<<j, h>>}
    /\ IF HasRoom(j, h) THEN Reserve(j, h) ELSE UNCHANGED <<count, expires>>
    /\ UNCHANGED <<now, phase, since, tries, sched, resched, grants, blockedIn, turnedIn>>

----------------------------------------------------------------------------
(* processJob after the reservation, and deferJob *)

\* The message is sent, or the row turns out to be sent already.
Finish(j) ==
    /\ Moves(j, "granted", "done", 0)
    /\ UNCHANGED <<now, sched, resched, blockedIn, turnedIn, limits>>

\* The send fails; a retry asks for a slot of its own.
SendFails(j) ==
    /\ Fails(j, "granted")
    /\ UNCHANGED <<now, sched, resched, blockedIn, turnedIn, limits>>

\* deferJob reads the clock: the stagger key is that of the current hour.
StartDefer(j) ==
    /\ Moves(j, "capped", "deferring", now)
    /\ UNCHANGED <<now, sched, resched, blockedIn, turnedIn, limits>>

\* Mutant of Defer: the index is read with GET and never counted up.
DeferWithGet(j) ==
    LET b == BatchOf[j]  h == HourOf(since[j])  index == resched[b][h] + 1 IN
    /\ Moves(j, "deferring", "delayed", 0)
    /\ sched' = [sched EXCEPT ![j] = NextHour(since[j]) + (index - 1) * BatchDelay]
    /\ turnedIn' = [turnedIn EXCEPT ![j] = h]
    /\ UNCHANGED <<now, resched, blockedIn, limits>>

\* The stagger counter of the batch: INCR returns the index, starting from 1.
Defer(j) ==
    LET b == BatchOf[j]  h == HourOf(since[j])  index == resched[b][h] + 1 IN
    /\ Moves(j, "deferring", "delayed", 0)
    /\ resched' = [resched EXCEPT ![b][h] = index]
    /\ sched' = [sched EXCEPT ![j] = NextHour(since[j]) + (index - 1) * BatchDelay]
    /\ turnedIn' = [turnedIn EXCEPT ![j] = h]
    /\ UNCHANGED <<now, blockedIn, limits>>

\* A call of deferJob rejects, before or after the INCR: the attempt fails.  A
\* worker that dies here instead, between the refusal and moveToDelayed, is not
\* modelled: its job is delivered again and asks again in the same hour.
DeferFails(j) ==
    LET b == BatchOf[j]  h == HourOf(since[j]) IN
    /\ Fails(j, "deferring")
    /\ resched' \in {resched, [resched EXCEPT ![b][h] = @ + 1]}
    /\ blockedIn' = [blockedIn EXCEPT ![j] = -1]
    /\ UNCHANGED <<now, sched, turnedIn, limits>>

\* Fail-closed: a short fixed delay instead of the next hour.
DeferShort(j) ==
    /\ Moves(j, "unavailable", "delayed", 0)
    /\ sched' = [sched EXCEPT ![j] = now + RetryDelay]
    /\ UNCHANGED <<now, resched, blockedIn, turnedIn, limits>>

BecomeDue(j) ==
    /\ now >= sched[j]
    /\ Moves(j, "delayed", "due", 0)
    /\ sched' = [sched EXCEPT ![j] = 0]
    /\ turnedIn' = [turnedIn EXCEPT ![j] = -1]
    /\ UNCHANGED <<now, resched, blockedIn, limits>>

Tick ==
    /\ now < Horizon
    /\ now' = now + 1
    /\ UNCHANGED <<phase, since, tries, sched, resched, blockedIn, turnedIn, limits>>

Next ==
    \/ \E j \in Jobs :
          \/ Ask(j) \/ Grant(j) \/ Block(j) \/ FailClosed(j) \/ Finish(j) \/ SendFails(j)
          \/ StartDefer(j) \/ Defer(j) \/ DeferFails(j) \/ DeferShort(j)
          \/ BecomeDue(j)
          \/ \E h \in Hours : LateEval(j, h)
    \/ Tick

Spec == Init /\ [][Next]_vars

----------------------------------------------------------------------------
(* Properties *)

\* No hour hands out more slots than any of its three caps allows, although
\* every key expires by itself and abandoned commands go on counting.
CapsHold == \A sc \in Scopes, h \in Hours : grants[sc][h] <= Cap[sc]

\* A slot is reserved in all three scopes or in none: in the current hour the
\* counters of the senders, and those of the batches, add up to the global one.
SumOver(S, h) ==
    MapThenFoldSet(LAMBDA m, n : m + n, 0, LAMBDA sc : Value(sc, h),
                   LAMBDA T : CHOOSE sc \in T : TRUE, S)
AllOrNothing ==
    LET h == HourOf(now) IN
    /\ SumOver(Senders, h) = Value(Global, h)
    /\ SumOver(Batches, h) = Value(Global, h)

\* A job that a cap turned away does not ask again in the hour whose cap it was,
\* also when the clock passes the hour between the check and the deferral.
BlockedOncePerHour ==
    [][\A j \in Jobs : phase[j] = "due" /\ phase'[j] = "asked"
                          => blockedIn[j] < HourOf(now)]_vars

\* Jobs of a batch put off in the same hour keep batch.delayMs between them.
StaggerSpaced ==
    \A j, k \in Jobs :
        /\ j # k /\ BatchOf[j] = BatchOf[k]
        /\ phase[j] = "delayed" /\ phase[k] = "delayed"
        /\ turnedIn[j] = turnedIn[k] /\ turnedIn[j] # -1
        => sched[j] >= sched[k] + BatchDelay \/ sched[k] >= sched[j] + BatchDelay
============================================================================
