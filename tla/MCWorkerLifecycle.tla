-------------------------- MODULE MCWorkerLifecycle ------------------------
(***************************************************************************)
(* Values of the constants of WorkerLifecycle for TLC.                     *)
(***************************************************************************)
EXTENDS WorkerLifecycle

CONSTANTS w1, w2
============================================================================
