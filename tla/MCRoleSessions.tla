--------------------------- MODULE MCRoleSessions ---------------------------
(***************************************************************************)
(* An instance for TLC: two processes, together or one of them alone.      *)
(***************************************************************************)
EXTENDS RoleSessions

CONSTANTS p1, p2
=============================================================================
