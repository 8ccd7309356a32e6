----------------------------- MODULE WlrKeyboard -----------------------------
(***************************************************************************)
(* The keyboard of the wlroots backend (backend/wlr_protocols.rs): do_key, *)
(* do_key_unicode and do_type_text turn each call into requests on a       *)
(* virtual keyboard.  The compositor applies the requests in order; it     *)
(* interprets a key by the keymap and the modifier mask it was last given, *)
(* never by the modifier keys that are down.                               *)
(***************************************************************************)
EXTENDS Keyboard

VARIABLES
    depressed, \* mods_depressed of the worker
    keymap     \* compositor: "default", or "text" for a transient one

Modifiers(bits) == [req |-> "modifiers", bits |-> bits]
Keymap(map) == [req |-> "keymap", map |-> map]

------------------------------------------------------------------------------
(* The worker: one call at a time.                                         *)

\* mod_bit_for_keysym.
Bit(s) == IF s \in Mods THEN {BitOf[s]} ELSE {}

\* Mutant of Pushed: the mask is not sent.
PushedNever(s, after) == <<>>

\* push_mods, for a modifier keysym.
Pushed(s, after) == IF s \in Mods THEN <<Modifiers(after)>> ELSE <<>>

\* do_key: the mask before a press, after a release.
KeyPress(c) == Pushed(c.sym, depressed \cup Bit(c.sym)) \o Struck(c, TRUE)
KeyRelease(c) == Struck(c, FALSE) \o Pushed(c.sym, depressed \ Bit(c.sym))

\* Mutant of Finish: the reply does not wait for the roundtrip.
FinishEarly(requests, rest) == line' = requests /\ calls' = rest

\* The reply to a call follows a roundtrip after its requests.
Finish(requests, rest) ==
    /\ line' = requests \o <<[req |-> "sync", rest |-> rest]>>
    /\ UNCHANGED calls

\* do_key on a keysym the default keymap has.
DoKey(c) ==
    /\ c.op \in {"Press", "Release", "PressRelease"}
    /\ c.sym \in DOMAIN Layout
    /\ Finish((IF c.op = "Release" THEN <<>> ELSE KeyPress(c))
                  \o (IF c.op = "Press" THEN <<>> ELSE KeyRelease(c)), Tail(calls))
    /\ depressed' = IF c.op = "Press" THEN depressed \cup Bit(c.sym) ELSE depressed \ Bit(c.sym)
    /\ mishaps' = IF Layout[c.sym].level = 1 THEN mishaps \cup {"unadvertised"} ELSE mishaps

\* Mutant of Transient: the default keymap is not put back.
TransientUnrestored(char, restored) ==
    <<Keymap("text"), Key(char, TRUE, "text", char, {}), Key(char, FALSE, "text", char, {})>>

\* A character struck under a keymap made for it; the error of putting the
\* default keymap back is ignored.
Transient(char, restored) ==
    <<Keymap("text"), Key(char, TRUE, "text", char, {}), Key(char, FALSE, "text", char, {})>>
    \o (IF restored THEN <<Keymap("default")>> ELSE <<>>)

\* do_key_unicode, for a press and release, and do_type_text.
DoTransient(c) ==
    /\ \/ c.op = "PressRelease" /\ c.sym \in Foreign
       \/ c.op = "Type"
    /\ \E restored \in BOOLEAN :
          /\ Finish(Transient(c.sym, restored), Tail(calls))
          /\ mishaps' = IF restored THEN mishaps ELSE mishaps \cup {"unrestored"}
    /\ UNCHANGED depressed

\* The keysym is unknown, or foreign and not struck in one go; or the keymap
\* cannot be made.  run_key returns at once: `?` skips the releases due.
Refuse(c) ==
    /\ \/ c.op # "Type" /\ c.sym \notin DOMAIN Layout
            /\ (c.op = "PressRelease" => c.sym \notin Foreign)
       \/ c.op = "Type"
       \/ c.op = "PressRelease" /\ c.sym \in Foreign
    /\ Finish(<<>>, IF c.soft THEN Tail(calls) ELSE <<>>)
    /\ mishaps' = IF c.soft THEN mishaps ELSE mishaps \cup {"refused"}
    /\ UNCHANGED depressed

Serve ==
    /\ calls # <<>> /\ line = <<>>
    /\ DoKey(Head(calls)) \/ DoTransient(Head(calls)) \/ Refuse(Head(calls))
    /\ UNCHANGED <<count, down, mask, keymap, reading, holding>>

------------------------------------------------------------------------------
(* The compositor applies the requests in order.                           *)

ApplyRequest ==
    /\ line # <<>>
    /\ line' = Tail(line)
    /\ LET r == Head(line) IN
          \/ /\ r.req = "modifiers"
             /\ mask' = r.bits
             /\ UNCHANGED <<calls, down, keymap, reading>>
          \/ /\ r.req = "keymap"
             /\ keymap' = r.map
             /\ UNCHANGED <<calls, down, mask, reading>>
          \/ /\ r.req = "key"
             /\ down' = IF r.on THEN down \cup {r.code} ELSE down \ {r.code}
             /\ reading' = IF r.on /\ r.want # "" THEN Reading(r, keymap, mask) ELSE reading
             /\ UNCHANGED <<calls, mask, keymap>>
          \/ /\ r.req = "sync"
             /\ calls' = r.rest
             /\ UNCHANGED <<down, mask, keymap, reading>>
    /\ UNCHANGED <<count, depressed, holding, mishaps>>

------------------------------------------------------------------------------
WlrInit == depressed = {} /\ keymap = "default"

WlrNext == Serve \/ ApplyRequest
==============================================================================
