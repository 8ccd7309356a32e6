----------------------------- MODULE MCRecordings -----------------------------
(* The instance of Recordings that TLC checks: a keyboard with a modifier and  *)
(* a key, another with a modifier, and a mouse.                                *)
EXTENDS Recordings, TLC

CONSTANTS keyboard, keypad, mouse

Bits == "ctrl" :> "CTRL" @@ "shift" :> "SHIFT"

Desk == {keyboard, keypad, mouse}
DeskKeys == keyboard :> {"ctrl", "a"} @@ keypad :> {"shift"} @@ mouse :> {"left"}
MouseOnly == {mouse}
MouseButtons == {"left"}
KeysNamed == {"a"}

\* Half pixels: below and beyond the threshold of two pixels, with fractions.
BothWays == {3, -5}
TwoPlaces == {[x |-> 9, y |-> 0], [x |-> 6, y |-> -3]}
\* The replay starts elsewhere than the recording.
Elsewhere == {[x |-> 7, y |-> 7]}
===============================================================================
