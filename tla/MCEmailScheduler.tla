-------------------------- MODULE MCEmailScheduler -------------------------
(***************************************************************************)
(* Values of the constants of EmailScheduler for TLC.                      *)
(***************************************************************************)
EXTENDS MailBooks, TLC

CONSTANTS r1, r2, s1, s2, w1, w2, q1, q2

OneRequest == [q \in {q1} |-> Rows]
TwoRequests == q1 :> {r1} @@ q2 :> {r2}
============================================================================
