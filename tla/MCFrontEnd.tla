----------------------------- MODULE MCFrontEnd ----------------------------
(***************************************************************************)
(* Values of the constants of FrontEnd for TLC, and the tables the lists   *)
(* are read from: every set of up to four rows out of eleven.              *)
(***************************************************************************)
EXTENDS FrontEnd

CONSTANTS ann, bob, t1, t2, anyStatus

Row(id, owner, status, scheduledAt, sentAt) ==
    [id |-> id, owner |-> owner, status |-> status, scheduledAt |-> scheduledAt, sentAt |-> sentAt]

\* Two that wait and two that are sent of each time, failures, another's.
SomeRows ==
    {Row(1, ann, "pending", 1, NotSent), Row(2, ann, "queued", 1, NotSent),
     Row(3, ann, "processing", 2, NotSent), Row(4, ann, "pending", 3, NotSent),
     Row(5, ann, "sent", 1, 2), Row(6, ann, "sent", 2, 2), Row(7, ann, "sent", 2, 3),
     Row(8, ann, "failed", 1, NotSent), Row(9, ann, "failed", 2, NotSent),
     Row(10, bob, "queued", 1, NotSent), Row(11, bob, "sent", 3, 4)}

SomeTables == UNION {kSubset(k, SomeRows) : k \in 0 .. 4}
============================================================================
