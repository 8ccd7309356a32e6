------------------------------ MODULE Keyboards ------------------------------
(***************************************************************************)
(* The keyboard commands of a process on either of two backends: wlroots   *)
(* and uinput promise the user the same, by different means.               *)
(***************************************************************************)
EXTENDS WlrKeyboard, UinputDevice

VARIABLE backend   \* the backend the process uses

vars == <<ends, depressed, keymap, backend>>

Init ==
    /\ EndsInit /\ WlrInit
    /\ backend \in {"wlroots", "uinput"}

Next ==
    \/ Command /\ UNCHANGED <<depressed, keymap, backend>>
    \/ backend = "wlroots" /\ WlrNext /\ UNCHANGED backend
    \/ backend = "uinput" /\ UinputNext /\ UNCHANGED <<depressed, keymap, backend>>

Spec == Init /\ [][Next]_vars
------------------------------------------------------------------------------
\* Modifiers that two keys have, as the left and the right Shift: on wlroots the
\* bit goes with the first of the keys to come up.
Twofold == {b \in {BitOf[m] : m \in Mods} : \E m, n \in Mods : m # n /\ BitOf[m] = b /\ BitOf[n] = b}

\* "Tracks the currently-depressed XKB modifier bitmask": between commands every
\* modifier in force is one of a key that is down, and the modifiers of the keys
\* that are down are in force, save for a twofold one, and for a Shift that
\* wlroots was not told of.
MaskTracksKeys ==
    LET untold == IF "unadvertised" \in mishaps THEN {"Shift"} ELSE {}
    IN Idle => /\ mask \ untold \subseteq Bits(down)
               /\ Bits(down) \ (untold \cup Twofold) \subseteq mask

\* The key was read as the other symbol it has: Shift was down on purpose, or
\* is not advertised, as wlroots is sent no modifiers request with the Shift of
\* a second-level symbol.
OtherLevel ==
    /\ {reading.want, reading.got} \subseteq DOMAIN Layout
    /\ Layout[reading.want].code = Layout[reading.got].code
    /\ \/ "Shift" \in reading.under
       \/ backend = "wlroots" /\ Layout[reading.want].level = 1

\* The focused client reads the keysym that was asked for, under the modifiers
\* of its chord: "pressing Control_L then 'l'" does not deliver a bare 'l'.
\* "Restore so a subsequent key <named> in the same process still works": only
\* when that has failed, which goes unreported, may a key be read under the
\* wrong keymap.
KeysymRead ==
    /\ reading.chord \subseteq reading.under
    /\ reading.got = reading.want \/ OtherLevel \/ "unrestored" \in mishaps

\* Commands that succeed, and hold nothing on purpose, leave nothing behind:
\* no key down, no modifier advertised, the default keymap in place.
NothingLeft ==
    (Idle /\ ~holding /\ mishaps \subseteq {"unadvertised"}) => down = {} /\ mask = {} /\ keymap = "default"

\* "Roundtrip before reply so the compositor can't drop the key event when the
\* wdotool process exits": on wlroots a process may end as soon as its last
\* command is answered.  (On uinput it may not: nothing waits there.)
ExitLosesNothing == backend = "wlroots" => "lost" \notin mishaps
==============================================================================
