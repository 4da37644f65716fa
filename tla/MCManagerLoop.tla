---------------------------- MODULE MCManagerLoop ----------------------------
(***************************************************************************)
(* An instance for TLC: a lead and a compound, which the threads handle.   *)
(***************************************************************************)
EXTENDS ManagerLoop, TLC

LeadAndCompound == 1 :> "wiki" @@ 2 :> "policy"
=============================================================================
