---------------------------- MODULE MCPortalToken ----------------------------
(***************************************************************************)
(* The instance of PortalToken for TLC, with its symmetry.                 *)
(***************************************************************************)
EXTENDS PortalToken, TLC

Symmetry == Permutations(Runs) \cup Permutations(Pids)
==============================================================================
