----------------------------- MODULE MCReminders -----------------------------
(***************************************************************************)
(* Small instances of the reminders for TLC.                               *)
(***************************************************************************)
EXTENDS Reminders, TLC

CONSTANTS c1, c2, u1, u2, l1

RunSymmetry == Permutations(Runs)
=============================================================================
