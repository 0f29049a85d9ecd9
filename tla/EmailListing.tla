---------------------------- MODULE EmailListing ---------------------------
(***************************************************************************)
(* The lists of e-mails a user can ask for (services/emailJobService.ts,   *)
(* the routes of routes/batches.ts) over a set of rows of email_jobs.      *)
(* Times are numbers; a row that was never sent has sentAt NotSent.        *)
(***************************************************************************)
EXTENDS Integers, Sequences, FiniteSets, SequencesExt

CONSTANTS
    Owners,    \* users that own batches
    AnyStatus, \* the status parameter that was not given
    Tables,    \* states of email_jobs the lists are read from
    PageSizes  \* limits the user may ask for

Boxes == {"scheduled", "sent"}
NotSent == 99
MaxLimit == 100

StatusesOf(box) ==
    IF box = "scheduled" THEN {"pending", "queued", "processing"} ELSE {"sent", "failed"}

\* The id is the primary key; a null sentAt is later than every time.
ASSUME ListingAssumption ==
    /\ AnyStatus \notin UNION {StatusesOf(box) : box \in Boxes}
    /\ PageSizes \subseteq Int
    /\ \A rows \in Tables :
        /\ IsFiniteSet(rows)
        /\ \A a, b \in rows : a.id = b.id => a = b
        /\ \A r \in rows :
            /\ r.status \in UNION {StatusesOf(box) : box \in Boxes}
            /\ r.scheduledAt \in Int
            /\ r.sentAt \in Int /\ r.sentAt <= NotSent

\* validateStatusForTab and the where clause: a status of the other box is an
\* error, not an empty list.
Allowed(box, status) == status \in StatusesOf(box) \cup {AnyStatus}

Matching(rows, owner, box, status) ==
    {r \in rows : r.owner = owner /\ r.status \in (IF status = AnyStatus THEN StatusesOf(box)
                                                   ELSE {status})}

\* orderBy: soonest first, or most recent first; a descending null comes first.
Before(box, a, b) ==
    IF box = "scheduled" THEN a.scheduledAt < b.scheduledAt
    ELSE \/ a.sentAt > b.sentAt
         \/ a.sentAt = b.sentAt /\ a.scheduledAt > b.scheduledAt

\* Every order the database may return; rows that tie have none.
Orders(rows, box) ==
    {s \in SetToSeqs(rows) : \A i, j \in DOMAIN s : i < j => ~Before(box, s[j], s[i])}

Least(a, b) == IF a < b THEN a ELSE b

\* The limit of a page, 20 when none is asked for by the route's schema.
Limit(asked) == Least(MaxLimit, IF asked < 1 THEN 1 ELSE asked)

\* Mutant of Skip: pages counted from 0.
SkipFromZero(page, limit) == page * limit

Skip(page, limit) == (page - 1) * limit

\* A page of listEmailJobs, if the rows come in this order.
Page(order, page, limit) ==
    SubSeq(order, Skip(page, limit) + 1, Least(Skip(page, limit) + limit, Len(order)))

TotalPages(total, limit) == (total + limit - 1) \div limit

\* getEmailJobById: the row of another user is as missing as none at all.
Visible(rows, owner, id) == {r \in rows : r.id = id /\ r.owner = owner}

----------------------------------------------------------------------------

NoTies(rows, box) == \A a, b \in rows : a # b => Before(box, a, b) \/ Before(box, b, a)

\* What the pages of a list show, asked for one after the other.
Paged(rows, owner, box, status, asked) ==
    LET found == Matching(rows, owner, box, status)
        limit == Limit(asked)
        order == CHOOSE s \in Orders(found, box) : TRUE
    IN [n \in 1 .. TotalPages(Cardinality(found), limit) |-> Page(order, n, limit)]

\* Every e-mail of a user is on exactly one page of exactly one of the boxes,
\* with and without its status as a filter, and is found by its id; for every
\* other user it is nowhere.  Unless two rows of a box tie in its order: two
\* messages that leave at one time may be on two pages, or on none.
ListedOnce(tables) ==
    \A rows \in tables, owner \in Owners, asked \in PageSizes :
        (\A box \in Boxes : NoTies(Matching(rows, owner, box, AnyStatus), box)) =>
            \A r \in rows : \A status \in {AnyStatus, r.status} :
                Cardinality({at \in Boxes \X (1 .. Cardinality(rows)) :
                    LET pages == Paged(rows, owner, at[1], status, asked) IN
                    /\ Allowed(at[1], status)
                    /\ at[2] \in DOMAIN pages /\ r \in Range(pages[at[2]])})
                = Cardinality(Visible(rows, owner, r.id))
============================================================================
