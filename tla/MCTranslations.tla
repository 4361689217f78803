---------------------------- MODULE MCTranslations ----------------------------
(***************************************************************************)
(* A small instance of the translations for TLC.                           *)
(***************************************************************************)
EXTENDS Translations, TLC

CONSTANTS a, b, l1, l2, w1, w2, r1, b1
=============================================================================
