---------------------------- MODULE MCWlrToplevels ----------------------------
(***************************************************************************)
(* Instances of WlrToplevels for TLC.                                      *)
(***************************************************************************)
EXTENDS WlrToplevels

CONSTANTS w1, w2, w3

TwoWindows == <<w1, w2>>
OneWindow == <<w1>>
Reads == {"list", "active"}
Focused == {"active"}
ListAndAct == {"list", "activate", "close"}
==============================================================================
