---------------------------- MODULE MCCatalogue ----------------------------
(***************************************************************************)
(* A small instance of the catalogue for TLC.                              *)
(***************************************************************************)
EXTENDS Catalogue, TLC

CONSTANTS r1, r2, c1, c2, c3, t1, t2, a1

Symmetry == Permutations(Calls) \cup Permutations(Categories) \cup Permutations(Tiles)
=============================================================================
