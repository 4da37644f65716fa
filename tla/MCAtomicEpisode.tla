-------------------------- MODULE MCAtomicEpisode --------------------------
(***************************************************************************)
(* An instance for TLC: two episodes of one task and the Manager.          *)
(***************************************************************************)
EXTENDS AtomicEpisode

CONSTANTS e1, e2

=============================================================================
