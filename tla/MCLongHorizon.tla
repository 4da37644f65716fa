--------------------------- MODULE MCLongHorizon ---------------------------
(***************************************************************************)
(* An instance for TLC: every bound is a number of its configuration.      *)
(***************************************************************************)
EXTENDS LongHorizon
=============================================================================
