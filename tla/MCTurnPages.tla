----------------------------- MODULE MCTurnPages -----------------------------
(***************************************************************************)
(* Instances of TurnPages for TLC.                                         *)
(***************************************************************************)
EXTENDS TurnPages, TLC

Processes == Permutations(Invocation)
==============================================================================
