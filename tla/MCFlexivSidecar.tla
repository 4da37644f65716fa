--------------------------- MODULE MCFlexivSidecar ---------------------------
(***************************************************************************)
(* An instance for TLC: one operator, two clients, two sidecars.           *)
(***************************************************************************)
EXTENDS FlexivSidecar

CONSTANTS o1, c1, c2
=============================================================================
