--------------------------- MODULE MCRegistration ---------------------------
(***************************************************************************)
(* Small instances of the registration for TLC: two requests for the same  *)
(* e-mail and one for another.                                             *)
(***************************************************************************)
EXTENDS Registration, TLC

CONSTANTS q1, q2, q3, e1, e2

MCEmailOf == [r \in Requests |-> IF r = q3 THEN e2 ELSE e1]
=============================================================================
