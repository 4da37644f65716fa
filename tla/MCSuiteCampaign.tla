-------------------------- MODULE MCSuiteCampaign --------------------------
(***************************************************************************)
(* Instances of SuiteCampaign for TLC.                                     *)
(***************************************************************************)
EXTENDS SuiteCampaign, TLC

TaskSymmetry == Permutations(Task)
=============================================================================
