-------------------------- MODULE MCSkillPublication --------------------------
(***************************************************************************)
(* An instance for TLC: a skill proposed anew by two tasks and updated by  *)
(* one of them.                                                            *)
(***************************************************************************)
EXTENDS SkillPublication, TLC

CONSTANTS p1, p2, p3, t1, t2

TwoTasks == p1 :> t1 @@ p2 :> t2 @@ p3 :> t1
=============================================================================
