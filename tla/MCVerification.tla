--------------------------- MODULE MCVerification ---------------------------
(***************************************************************************)
(* A small instance of the verification for TLC, and of the client that    *)
(* publishes the events it tells the other services with: behaviours of    *)
(* the one or of the other.                                                *)
(***************************************************************************)
EXTENDS Verification, EventClient, TLC

CONSTANTS v1, v2, e1, e2, e3

Symmetry == Permutations(Requests) \cup Permutations(Emits)

MCInit == Init /\ (EventsOff \/ EventsInit)

MCNext == \/ connections = <<>> /\ Next /\ UNCHANGED eventVars
          \/ connections # <<>> /\ EventsNext /\ UNCHANGED vars

MCSpec == MCInit /\ [][MCNext]_<<vars, eventVars>>
=============================================================================
