----------------------------- MODULE MCAccounts -----------------------------
(***************************************************************************)
(* A small instance of the accounts for TLC.                               *)
(***************************************************************************)
EXTENDS Accounts, TLC

CONSTANTS r1, r2, u1, u2, p1, p2, d1, d2, d3, l1, l2, v1, v2

Symmetry ==
    Permutations(Requests) \cup Permutations(Users) \cup Permutations(Phones)
    \cup Permutations(Rows) \cup Permutations(Links) \cup Permutations(Versions)
=============================================================================
