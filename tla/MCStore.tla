------------------------------- MODULE MCStore -------------------------------
(***************************************************************************)
(* Store with two interchangeable intents for TLC.                         *)
(***************************************************************************)
EXTENDS Store, TLC

IntentSymmetry == Permutations(Intents)
=============================================================================
