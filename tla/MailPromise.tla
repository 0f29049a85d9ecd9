---------------------------- MODULE MailPromise ----------------------------
(***************************************************************************)
(* What the scheduler promises to the user who submits mails, with neither *)
(* a queue nor workers in sight: an accepted mail is delivered and then    *)
(* shown as sent, or it is shown as failed, and one of the two happens.    *)
(* With Replays = 0 a mail is delivered at most once, and never when it is *)
(* shown as failed; faults may cost it that many copies more.              *)
(* EmailScheduler implements it.                                           *)
(***************************************************************************)
EXTENDS Naturals

CONSTANTS
    Mails,
    Replays     \* how many copies of one mail the faults may cost, a number
VARIABLES outcome, delivered
pvars == <<outcome, delivered>>

Init ==
    /\ outcome = [m \in Mails |-> "absent"]
    /\ delivered = [m \in Mails |-> 0]

\* A whole batch is accepted in one transaction.
Accept(batch) ==
    /\ \A m \in batch : outcome[m] = "absent"
    /\ outcome' = [m \in Mails |-> IF m \in batch THEN "accepted" ELSE outcome[m]]
    /\ UNCHANGED delivered

Deliver(m) ==
    /\ outcome[m] = "accepted" /\ delivered[m] <= Replays
    /\ delivered' = [delivered EXCEPT ![m] = @ + 1]
    /\ UNCHANGED outcome

Confirm(m) ==
    /\ outcome[m] = "accepted" /\ delivered[m] >= 1
    /\ outcome' = [outcome EXCEPT ![m] = "sent"]
    /\ UNCHANGED delivered

Refuse(m) ==
    /\ outcome[m] = "accepted" /\ delivered[m] <= Replays
    /\ outcome' = [outcome EXCEPT ![m] = "failed"]
    /\ UNCHANGED delivered

Next ==
    \/ \E batch \in SUBSET Mails : Accept(batch)
    \/ \E m \in Mails : Deliver(m) \/ Confirm(m) \/ Refuse(m)

Safe == Init /\ [][Next]_pvars
Spec ==
    /\ Safe
    /\ \A m \in Mails : WF_pvars(Deliver(m) \/ Refuse(m)) /\ WF_pvars(Confirm(m))
============================================================================
