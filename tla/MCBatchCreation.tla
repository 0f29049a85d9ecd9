--------------------------- MODULE MCBatchCreation -------------------------
(***************************************************************************)
(* Values of the constants of BatchCreation for TLC: one mail typed in     *)
(* different ways, with another delay, under a client's key, by another    *)
(* user; and inputs that are refused.                                      *)
(***************************************************************************)
EXTENDS BatchCreation, TLC

CONSTANTS ann, Ann, bob, blank, junk, u1, u2, m1, k1, q1, q2

AllEntries == {ann, Ann, bob, blank, junk}
Lowered(e) == IF e = Ann THEN ann ELSE e

Mail(user, key, recipients, startTime, delayMs) ==
    [user |-> user, key |-> key, mail |-> m1, recipients |-> recipients,
     startTime |-> startTime, delayMs |-> delayMs, wellFormed |-> TRUE, knownSender |-> TRUE]

Asked ==
    {Mail(u1, NoKey, <<ann, bob>>, 9, 1),
     Mail(u1, NoKey, <<blank, bob, Ann, junk, ann>>, 9, 2),
     Mail(u1, NoKey, <<bob>>, 9, 1),
     Mail(u1, k1, <<ann, bob>>, 1, 1),
     Mail(u1, k1, <<bob>>, 9, 1),
     Mail(u2, k1, <<Ann>>, 9, 1),
     Mail(u2, k1, <<junk, blank>>, 9, 1),
     [Mail(u1, k1, <<ann, bob>>, 9, 1) EXCEPT !.knownSender = FALSE]}

Symmetry == Permutations({q1, q2})
============================================================================
