----------------------------- MODULE MCDeliveries -----------------------------
(***************************************************************************)
(* A small instance of the deliveries for TLC.                             *)
(***************************************************************************)
EXTENDS Deliveries, TLC

CONSTANTS u1, u2, u3, r1, r2, h1, c1, c2

\* A bulk notification while users come and go; one that is delivered; messages
\* while a Firebase project changes, or fails to; and two such changes at once.
MCBudgets ==
    {[bulks |-> 1, messages |-> 0, deliveries |-> 0, projects |-> 0, changes |-> 1, faults |-> 1],
     [bulks |-> 1, messages |-> 0, deliveries |-> 1, projects |-> 0, changes |-> 0, faults |-> 0],
     [bulks |-> 0, messages |-> 2, deliveries |-> 2, projects |-> 1, changes |-> 0, faults |-> 0],
     [bulks |-> 0, messages |-> 1, deliveries |-> 1, projects |-> 1, changes |-> 0, faults |-> 1],
     [bulks |-> 0, messages |-> 1, deliveries |-> 1, projects |-> 2, changes |-> 0, faults |-> 0]}

\* The slots for requests, the credentials and the users differ in nothing but
\* their name.
Alike == UNION {Permutations(S) : S \in {Requests, Creds, CityUsers, Users \ CityUsers}}
=============================================================================
