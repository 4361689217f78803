------------------------------ MODULE MCImages ------------------------------
(***************************************************************************)
(* A small instance of the images for TLC.                                 *)
(***************************************************************************)
EXTENDS Images, TLC

CONSTANTS r1, r2, r3

RequestSymmetry == Permutations(Requests)
=============================================================================
