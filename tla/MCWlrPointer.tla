---------------------------- MODULE MCWlrPointer ----------------------------
(***************************************************************************)
(* An instance of WlrPointer for TLC.                                      *)
(***************************************************************************)
EXTENDS WlrPointer, TLC

CONSTANTS A, B

Symmetry == Permutations(Connectors)
==============================================================================
