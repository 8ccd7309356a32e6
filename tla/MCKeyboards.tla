----------------------------- MODULE MCKeyboards ----------------------------
(***************************************************************************)
(* Instance of Keyboards for TLC: a layout of one letter key, a Shift key  *)
(* and two Control keys.                                                   *)
(***************************************************************************)
EXTENDS Keyboards

OnKey(code, level) == [code |-> code, level |-> level]

SmallLayout == [Shift_L |-> OnKey("Shift_L", 0), Control_L |-> OnKey("Control_L", 0),
                Control_R |-> OnKey("Control_R", 0),
                a |-> OnKey("a", 0), A |-> OnKey("a", 1)]

Bitmap == [Shift_L |-> "Shift", Control_L |-> "Ctrl", Control_R |-> "Ctrl"]

Tokens == {"a", "A", "Control_L", "euro", "ctrl"}
OneForeign == {"euro"}
AllOps == {"key", "keydown", "keyup", "type", "clear"}
==============================================================================
