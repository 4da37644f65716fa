-------------------------- MODULE MCLiberoSkills --------------------------
(***************************************************************************)
(* An instance for TLC: two objects, so that evidence of the one could be  *)
(* taken for evidence of the other.                                        *)
(***************************************************************************)
EXTENDS LiberoSkills

CONSTANTS o1, o2

=============================================================================
