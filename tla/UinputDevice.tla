---------------------------- MODULE UinputDevice ----------------------------
(***************************************************************************)
(* The keyboard of the uinput backend (backend/uinput.rs): each call is a  *)
(* frame of key events written to a kernel device.  The call is over when  *)
(* the frame is written; the compositor reads it in its own time, and      *)
(* derives the modifiers from the keys that are down.                      *)
(***************************************************************************)
EXTENDS Keyboard

\* The frame of a key call: a keysym's code, with Shift around it.
KeyFrame(c) ==
    (IF c.op = "Release" THEN <<>> ELSE Struck(c, TRUE))
      \o (IF c.op = "Press" THEN <<>> ELSE Struck(c, FALSE))

\* type_text: a character that no key of the layout has is left out.
TextFrame(c) == IF c.sym \in DOMAIN Layout THEN Struck(c, TRUE) \o Struck(c, FALSE) ELSE <<>>

Write(frame) ==
    /\ line' = line \o frame
    /\ calls' = Tail(calls)
    /\ UNCHANGED mishaps

\* The keysym is not in the layout; run_key returns at once.
NotFound(c) ==
    /\ c.op # "Type" /\ c.sym \notin DOMAIN Layout
    /\ calls' = IF c.soft THEN Tail(calls) ELSE <<>>
    /\ mishaps' = IF c.soft THEN mishaps ELSE mishaps \cup {"refused"}
    /\ UNCHANGED line

WriteCall ==
    /\ calls # <<>> /\ Len(line) <= MaxLag
    /\ LET c == Head(calls) IN
          \/ c.op # "Type" /\ c.sym \in DOMAIN Layout /\ Write(KeyFrame(c))
          \/ c.op = "Type" /\ Write(TextFrame(c))
          \/ NotFound(c)
    /\ UNCHANGED <<count, down, mask, reading, holding>>

\* The compositor reads an event; the kernel has dropped the ones that do not
\* change the state of their key.
ReadEvent ==
    /\ line # <<>>
    /\ LET r == Head(line)
           after == IF r.on THEN down \cup {r.code} ELSE down \ {r.code}
       IN /\ down' = after
          /\ mask' = Bits(after)
          /\ reading' = IF r.on /\ r.want # "" /\ r.code \notin down
                        THEN Reading(r, "default", mask) ELSE reading
    /\ line' = Tail(line)
    /\ UNCHANGED <<count, calls, holding, mishaps>>

UinputNext == WriteCall \/ ReadEvent
==============================================================================
