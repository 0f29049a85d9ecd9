---------------------------- MODULE MCComposeForm --------------------------
(***************************************************************************)
(* Values of the constants of ComposeForm for TLC.  The server is stricter *)
(* than the fallback in sizes, types, delay and hourly limit; sizes and    *)
(* delays are small numbers.                                               *)
(***************************************************************************)
EXTENDS ComposeForm

CONSTANTS ann, Ann, blank, junk, mailColumn, u1, blanked, m1, q1, q2, f1, f2

AllEntries == {ann, Ann, blank, junk, mailColumn}
Lowered(e) == IF e = Ann THEN ann ELSE e

\* Each fits alone, both together do not.
Picked == f1 :> [name |-> "n1", size |-> 2, type |-> "pdf"]
       @@ f2 :> [name |-> "n2", size |-> 2, type |-> "pdf"]

Scheduler ==
    [fallback |-> [maxFiles |-> 2, maxFileSize |-> 3, maxTotal |-> 4, types |-> {"pdf", "exe"},
                   mails |-> {m1}, maxRecipients |-> 2, maxDelay |-> 8, maxPerHour |-> 9,
                   defaultDelay |-> 2, defaultLimit |-> 5],
     server   |-> [maxFiles |-> 2, maxFileSize |-> 2, maxTotal |-> 3, types |-> {"pdf"},
                   mails |-> {m1}, maxRecipients |-> 2, maxDelay |-> 4, maxPerHour |-> 5,
                   defaultDelay |-> 4, defaultLimit |-> 3]]

\* A list with repetitions and blanks, and a table with its column.
Leads ==
    {[kind |-> "txt", tooBig |-> FALSE, rows |-> <<<<Ann, blank>>, <<junk, ann>>>>],
     [kind |-> "csv", tooBig |-> FALSE, rows |-> <<<<junk, mailColumn>>, <<junk, Ann>>, <<blank>>, <<junk>>>>]}

Symmetry == Permutations({q1, q2}) \cup Permutations({f1, f2})

\* What the form may post.
Payloads ==
    [user : {u1}, key : {NoKey}, mail : Mails,
     recipients : {<<>>, <<ann>>, <<Ann>>, <<ann, Ann>>, <<Ann, ann>>},
     startTime : 0 .. Horizon + 1, delayMs : {0, 2, 4} \cup Delays,
     attachments : SUBSET Files, source : DOMAIN Limits,
     fields : BOOLEAN, knownSender : {TRUE}, wellFormed : BOOLEAN]
============================================================================
