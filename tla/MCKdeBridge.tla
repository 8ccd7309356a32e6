----------------------------- MODULE MCKdeBridge -----------------------------
(***************************************************************************)
(* Instances of KdeBridge for TLC: sets of kinds of call, and the symmetry *)
(* of tasks, processes and windows for the runs that check no liveness.    *)
(***************************************************************************)
EXTENDS KdeBridge, TLC

TwoMaps == {"pointer", "close"}
ReadsAndActivate == {"active", "geometry", "activate"}
Actions == {"activate", "close"}

Symmetry == Permutations(Procs) \cup Permutations(Tasks) \cup Permutations(Windows)
==============================================================================
