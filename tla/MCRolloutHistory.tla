-------------------------- MODULE MCRolloutHistory --------------------------
(***************************************************************************)
(* Instances of OperandRollout with its history for TLC.                   *)
(***************************************************************************)
EXTENDS MCOperandRollout, RolloutHistory

=============================================================================
