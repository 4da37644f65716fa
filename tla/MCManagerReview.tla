--------------------------- MODULE MCManagerReview ---------------------------
(***************************************************************************)
(* An instance for TLC: a plan, a compound and the code change the Manager *)
(* files while it reviews either.                                          *)
(***************************************************************************)
EXTENDS ManagerReview, TLC

PlanSkillCompound == 1 :> "plan" @@ 2 :> "skill" @@ 3 :> "policy"
=============================================================================
