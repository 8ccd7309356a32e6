-------------------------- MODULE MCRecorderSession --------------------------
(***************************************************************************)
(* Instances of RecorderSession for TLC.                                   *)
(***************************************************************************)
EXTENDS RecorderSession

AnyBackend == {"auto", "simulated"}
EvdevOnly == {"evdev"}
==============================================================================
