---------------------------- MODULE BatchCreation --------------------------
(***************************************************************************)
(* POST /api/batches (routes/batches.ts) and createBatch                   *)
(* (services/batchService.ts) of concurrent requests: validation, parsing  *)
(* of the recipients, the idempotency look-up, the create that follows it  *)
(* in a call of its own, the enqueue and the answer.  A client that        *)
(* repeats itself (double click, lost answer) is one more request with the *)
(* same input.  A tick of the clock stands for hours.                      *)
(***************************************************************************)
EXTENDS Addresses, Integers, Sequences, SequencesExt

CONSTANTS
    Requests, \* the POST requests, of any user
    Inputs,   \* what they may ask for
    NoKey,    \* no idempotencyKey in the request
    Window,   \* IDEMPOTENCY_WINDOW_MS
    Skew,     \* how far in the past startTime may lie
    Shifts,   \* newDelayMs of deferJob: from the clock to the next hour, or more
    Horizon   \* bound: the clock stops here

ASSUME InputsAssumption ==
    \A i \in Inputs : /\ i.recipients \in Seq(Entries)
                      /\ i.startTime \in Nat /\ i.delayMs \in Nat
                      /\ {i.wellFormed, i.knownSender} \subseteq BOOLEAN
ASSUME ClockAssumption == Window \in Nat /\ Skew \in Nat /\ Horizon \in Nat
ASSUME ShiftsAssumption == Shifts \subseteq Nat \ {0}

Never == -1

VARIABLES
    now,     \* the clock of the API processes
    req,     \* the input of each request
    phase,   \* the await each request is at
    cutoff,  \* createdAt of the oldest batch its look-up takes; may be negative
    found,   \* the batch the request answers with, named by its creator
    created, \* createdAt of the batch each request has created, or Never
    due,     \* scheduledAt of the rows of that batch, none before the commit
    added,   \* recipients of that batch whose row went to Redis
    answer,  \* what the client is told
    until,   \* lastScheduledAt of the answer, or Never
    saw      \* (history) the batches committed when the request looked up

vars == <<now, req, phase, cutoff, found, created, due, added, answer, until, saw>>

Phases  == {"new", "sender", "lookup", "count", "create", "enqueue", "end"}
Answers == {"none", "rejected", "error", "existing", "scheduled", "partially_enqueued"}
Named   == {"existing", "scheduled", "partially_enqueued"}

----------------------------------------------------------------------------
(* parseRecipients and the key *)

\* The addresses that pass, each once, in the order of their first appearance.
ParseRecipients(raw) ==
    LET take(acc, e) == IF Normal(e) \notin Valid \/ Normal(e) \in ToSet(acc)
                        THEN acc ELSE Append(acc, Normal(e))
    IN FoldLeft(take, <<>>, raw)

\* Mutant of KeyFor: the recipients are not part of the key.
KeyForMail(i) ==
    IF i.key # NoKey THEN <<i.key>> ELSE <<i.user, i.mail, {}, i.startTime>>

\* The client's key, else idempotencyKeyFor: a hash of user, subject and body,
\* the sorted recipients and the start.  Subject and body are trimmed for it: two
\* mails that differ in outer blanks only are one value here.  Delay, limit, sender and attachments
\* are not part of it.
KeyFor(i) ==
    IF i.key # NoKey THEN <<i.key>>
    ELSE <<i.user, i.mail, ToSet(ParseRecipients(i.recipients)), i.startTime>>

SameKey(i, j) == KeyFor(i) = KeyFor(j) /\ i.user = j.user

Count(i) == Len(ParseRecipients(i.recipients))
MaxOf(a, b) == IF a >= b THEN a ELSE b

\* scheduledAt of the rows of a batch as it is created.
Planned(i) == [n \in 1 .. Count(i) |-> i.startTime + (n - 1) * i.delayMs]

\* firstScheduledAt + max(0, count - 1) * delayMs
LastScheduledAt(i) == i.startTime + MaxOf(0, Count(i) - 1) * i.delayMs

----------------------------------------------------------------------------

TypeOK ==
    /\ now \in 0 .. Horizon
    /\ req \in [Requests -> Inputs]
    /\ phase \in [Requests -> Phases]
    /\ cutoff \in [Requests -> Int]
    /\ found \in [Requests -> Requests]
    /\ created \in [Requests -> Nat \cup {Never}]
    /\ due \in [Requests -> Seq(Nat)]
    /\ added \in [Requests -> SUBSET Entries]
    /\ answer \in [Requests -> Answers]
    /\ until \in [Requests -> Nat \cup {Never}]
    /\ saw \in [Requests -> SUBSET Requests]

Init ==
    /\ now = 0
    /\ req \in [Requests -> Inputs]
    /\ phase = [q \in Requests |-> "new"]
    /\ cutoff = [q \in Requests |-> 0]
    /\ found = [q \in Requests |-> q]
    /\ created = [q \in Requests |-> Never]
    /\ due = [q \in Requests |-> <<>>]
    /\ added = [q \in Requests |-> {}]
    /\ answer = [q \in Requests |-> "none"]
    /\ until = [q \in Requests |-> Never]
    /\ saw = [q \in Requests |-> {}]

Moves(q, from, to) == phase[q] = from /\ phase' = [phase EXCEPT ![q] = to]

\* The request ends with an answer that names no batch.
Answer(q, a) ==
    /\ answer' = [answer EXCEPT ![q] = a]
    /\ UNCHANGED <<now, req, cutoff, found, created, due, added, until, saw>>

\* The checks before the first await: the schema, the attachments, a start in
\* the past, no valid recipient.
Acceptable(i) ==
    /\ i.wellFormed
    /\ i.startTime > now - Skew
    /\ Count(i) > 0

Receive(q) ==
    /\ Acceptable(req[q])
    /\ Moves(q, "new", "sender")
    /\ UNCHANGED <<now, req, cutoff, found, created, due, added, answer, until, saw>>

Reject(q) ==
    /\ ~Acceptable(req[q])
    /\ Moves(q, "new", "end")
    /\ Answer(q, "rejected")

\* Mutant of ResolveSender: half the window.
ResolveSenderLate(q) ==
    /\ req[q].knownSender
    /\ Moves(q, "sender", "lookup")
    /\ cutoff' = [cutoff EXCEPT ![q] = now - Window \div 2]
    /\ UNCHANGED <<now, req, found, created, due, added, answer, until, saw>>

\* The reads of senders, which only scripts write; then the clock is read for
\* the look-up.
ResolveSender(q) ==
    /\ req[q].knownSender
    /\ Moves(q, "sender", "lookup")
    /\ cutoff' = [cutoff EXCEPT ![q] = now - Window]
    /\ UNCHANGED <<now, req, found, created, due, added, answer, until, saw>>

NoSender(q) ==
    /\ ~req[q].knownSender
    /\ Moves(q, "sender", "end")
    /\ Answer(q, "rejected")

Batches == {b \in Requests : created[b] # Never}
Matches(q) == {b \in Batches : SameKey(req[b], req[q]) /\ created[b] >= cutoff[q]}

\* findFirst without an order: any batch that matches.
FindExisting(q) ==
    /\ Moves(q, "lookup", "count")
    /\ \E b \in Matches(q) : found' = [found EXCEPT ![q] = b]
    /\ saw' = [saw EXCEPT ![q] = Batches]
    /\ UNCHANGED <<now, req, cutoff, created, due, added, answer, until>>

\* Mutant of FindNothing: a request creates whatever the look-up finds.
FindNothingEver(q) ==
    /\ Moves(q, "lookup", "create")
    /\ saw' = [saw EXCEPT ![q] = Batches]
    /\ UNCHANGED <<now, req, cutoff, found, created, due, added, answer, until>>

FindNothing(q) ==
    /\ Matches(q) = {}
    /\ Moves(q, "lookup", "create")
    /\ saw' = [saw EXCEPT ![q] = Batches]
    /\ UNCHANGED <<now, req, cutoff, found, created, due, added, answer, until>>

\* Mutant of Summarise: the answer is computed from the request's own delay.
SummariseRequest(q) ==
    /\ Moves(q, "count", "end")
    /\ answer' = [answer EXCEPT ![q] = "existing"]
    /\ until' = [until EXCEPT ![q] = LastScheduledAt(req[q])]
    /\ UNCHANGED <<now, req, cutoff, found, created, due, added, saw>>

\* summaryFor: the rows are counted again; the status is always 'scheduled'.
Summarise(q) ==
    /\ Moves(q, "count", "end")
    /\ answer' = [answer EXCEPT ![q] = "existing"]
    /\ until' = [until EXCEPT ![q] = LastScheduledAt(req[found[q]])]
    /\ UNCHANGED <<now, req, cutoff, found, created, due, added, saw>>

\* The batch and its rows are committed in one transaction.
Commit(q) ==
    /\ created' = [created EXCEPT ![q] = now]
    /\ due' = [due EXCEPT ![q] = Planned(req[q])]

Create(q) ==
    /\ Moves(q, "create", "enqueue")
    /\ Commit(q)
    /\ UNCHANGED <<now, req, cutoff, found, added, answer, until, saw>>

\* enqueueEmailJobs settles: any of the queue.add calls may have failed.
Enqueue(q) ==
    /\ Moves(q, "enqueue", "end")
    /\ \E done \in SUBSET ToSet(ParseRecipients(req[q].recipients)) :
          /\ added' = [added EXCEPT ![q] = done]
          /\ answer' = [answer EXCEPT ![q] =
                IF done = ToSet(ParseRecipients(req[q].recipients))
                THEN "scheduled" ELSE "partially_enqueued"]
    /\ until' = [until EXCEPT ![q] = LastScheduledAt(req[q])]
    /\ UNCHANGED <<now, req, cutoff, found, created, due, saw>>

\* A create under way may have been committed, whatever its caller hears of it.
MaybeCommitted(q) == (phase[q] = "create" /\ Commit(q)) \/ UNCHANGED <<created, due>>

\* Postgres rejects, and the error handler answers 500.  After a commit the
\* rows stay for the sweep.
DbRejects(q) ==
    /\ phase[q] \notin {"new", "end"}
    /\ phase' = [phase EXCEPT ![q] = "end"]
    /\ answer' = [answer EXCEPT ![q] = "error"]
    /\ MaybeCommitted(q)
    /\ UNCHANGED <<now, req, cutoff, found, added, until, saw>>

\* The API process dies with the request in it: no answer.
Dies(q) ==
    /\ phase[q] \notin {"new", "end"}
    /\ phase' = [phase EXCEPT ![q] = "end"]
    /\ MaybeCommitted(q)
    /\ UNCHANGED <<now, req, cutoff, found, added, answer, until, saw>>

\* deferJob of a worker: a row that is due waits for its rate limit.
Defer(b, n) ==
    /\ due[b][n] <= now
    /\ \E shift \in Shifts : due' = [due EXCEPT ![b][n] = now + shift]
    /\ UNCHANGED <<now, req, phase, cutoff, found, created, added, answer, until, saw>>

Tick ==
    /\ now < Horizon
    /\ now' = now + 1
    /\ UNCHANGED <<req, phase, cutoff, found, created, due, added, answer, until, saw>>

RequestStep(q) ==
    \/ Receive(q) \/ Reject(q) \/ ResolveSender(q) \/ NoSender(q)
    \/ FindExisting(q) \/ FindNothing(q) \/ Summarise(q)
    \/ Create(q) \/ Enqueue(q) \/ DbRejects(q) \/ Dies(q)

Next == \/ Tick
        \/ \E q \in Requests : RequestStep(q) \/ \E n \in DOMAIN due[q] : Defer(q, n)

Spec == Init /\ [][Next]_vars

----------------------------------------------------------------------------
(* Properties *)

\* Two batches of one user under one key and in one window come only from
\* requests that overlap: the later one had looked up before the earlier one
\* was committed.  So a client that waits for its answer, or for the end of a
\* request whose answer it lost, and repeats itself makes no second batch.
CopiesOverlap ==
    \A b, c \in Batches :
        /\ b # c /\ SameKey(req[b], req[c])
        /\ created[b] <= created[c] /\ created[c] - created[b] <= Window
        => b \notin saw[c]

\* A request is answered with a batch of its own user, and, unless the client
\* chose the key, with the mail it asked for: same subject and body up to
\* outer blanks, same recipients however they were typed, same start.
AnswerMatches ==
    \A q \in Requests : answer[q] \in Named =>
        LET i == req[q]  b == req[found[q]] IN
        /\ found[q] \in Batches /\ b.user = i.user
        /\ i.key = NoKey =>
             /\ b.mail = i.mail /\ b.startTime = i.startTime
             /\ {Normal(e) : e \in ToSet(b.recipients)} \cap Valid
                  = {Normal(e) : e \in ToSet(i.recipients)} \cap Valid

\* What the client is told of the times is the plan of the batch named, also for
\* a repeat whose delay differs: the last row is at lastScheduledAt as long as no
\* row was deferred, and never before it; an answer after deferrals does not know
\* of them.  A new batch is called scheduled only when every valid recipient went
\* to Redis.
AnswerIsTrue ==
    \A q \in Requests : answer[q] \in Named =>
        LET batch == found[q]  rows == due[batch] IN
        /\ \E n \in DOMAIN rows : until[q] <= rows[n]
        /\ rows = Planned(req[batch]) => until[q] \in ToSet(rows)
                                        /\ \A t \in ToSet(rows) : t <= until[q]
        /\ answer[q] = "scheduled" =>
             added[q] = {Normal(e) : e \in ToSet(req[q].recipients)} \cap Valid
============================================================================
