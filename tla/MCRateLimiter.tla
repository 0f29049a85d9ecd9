--------------------------- MODULE MCRateLimiter ---------------------------
(***************************************************************************)
(* Values of the constants of RateLimiter for TLC.  Two batches share one  *)
(* sender; an hour has two ticks, the timeout of the check is one tick and *)
(* the keys live for one hour and a tick.                                  *)
(***************************************************************************)
EXTENDS RateLimiter

CONSTANTS global, alice, b1, b2

\* Three jobs: two of batch b1, one of b2, all sent by alice.
ThreeJobs   == {1, 2, 3}
ThreeSender == [j \in ThreeJobs |-> alice]
ThreeBatch  == [j \in ThreeJobs |-> IF j = 3 THEN b2 ELSE b1]

\* Two jobs of one batch, for what goes wrong with few steps.
TwoJobs   == {1, 2}
TwoSender == [j \in TwoJobs |-> alice]
TwoBatch  == [j \in TwoJobs |-> b1]

\* The sender's cap lies between the batches' and the global one.
Caps == [sc \in {global, alice, b1, b2} |-> IF sc \in {b1, b2} THEN 1 ELSE 2]
\* A cap of one slot in every scope.
TightCaps == [sc \in {global, alice, b1, b2} |-> 1]
============================================================================
