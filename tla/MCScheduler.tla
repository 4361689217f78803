----------------------------- MODULE MCScheduler -----------------------------
(***************************************************************************)
(* A small instance of the scheduler for TLC.                              *)
(***************************************************************************)
EXTENDS Scheduler

CONSTANTS r1, r2, t1, t2
=============================================================================
