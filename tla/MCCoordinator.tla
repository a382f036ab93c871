---------------------------- MODULE MCCoordinator ----------------------------
(***************************************************************************)
(* Coordinator with interchangeable intents for TLC.                       *)
(***************************************************************************)
EXTENDS CoordinatorLiveness, TLC

IntentSymmetry == Permutations(Intents)
=============================================================================
