------------------------------ MODULE Keyboard ------------------------------
(***************************************************************************)
(* The two ends that every keyboard backend has: the command layer's       *)
(* run_key and clear_modifiers (wdotool/src/lib.rs), which turn a chord    *)
(* into a sequence of Backend::key calls, and behind the backend a         *)
(* compositor and a focused client, which read each key under the          *)
(* modifiers in force.  WlrKeyboard and UinputDevice are what is between.  *)
(***************************************************************************)
EXTENDS Naturals, Sequences, FiniteSets, SequencesExt

CONSTANTS Layout,       \* [keysym name -> [code, level]] of the default keymap
          BitOf,        \* [modifier keysym -> modifier bit]
          Foreign,      \* characters outside the layout
          Leaves,       \* last tokens of chords, as the user writes them
          MaxMods,      \* bound on the modifiers of a chord
          MaxCommands,  \* bound on the commands of a process
          MaxLag,       \* bound on what is sent and not yet read
          Ops           \* the commands used

Mods == DOMAIN BitOf
Codes == {Layout[s].code : s \in DOMAIN Layout}

\* A keysym is on one level of one key; the keys of the modifiers have no other
\* symbol, and none has the code of a character in a keymap made for it.
ASSUME KeyboardAssumption ==
    /\ Layout \in [DOMAIN Layout -> [code : Codes, level : {0, 1}]] /\ IsInjective(Layout)
    /\ \A s \in DOMAIN Layout : Layout[s].level = 1 =>
          /\ "Shift_L" \in Mods /\ BitOf["Shift_L"] = "Shift"
          /\ \E t \in DOMAIN Layout : Layout[t] = [code |-> Layout[s].code, level |-> 0]
    /\ Mods \subseteq DOMAIN Layout
    /\ \A m \in Mods : /\ Layout[m].level = 0
                       /\ \A s \in DOMAIN Layout : Layout[s].code = Layout[m].code => s = m
                       /\ Layout[m].code \notin Foreign \cup (Leaves \ Mods)
    /\ Foreign \cap DOMAIN Layout = {}
    /\ IsFiniteSet(Mods) /\ MaxMods \in Nat /\ MaxCommands \in Nat /\ MaxLag \in Nat
    /\ Ops \subseteq {"key", "keydown", "keyup", "type", "clear"}

VARIABLES
    count,     \* commands issued so far
    calls,     \* the backend calls the current command has yet to make
    line,      \* what the backend has sent and the compositor has yet to read
    down,      \* compositor: the key codes that are down
    mask,      \* compositor: the modifier bits in force
    reading,   \* what the focused client made of the last non-modifier press
    holding,   \* was anything held down on purpose? (history)
    mishaps    \* "refused": a command failed; "unrestored": the default
               \* keymap could not be put back; "unadvertised": a Shift key
               \* went down or up without a modifiers request; "lost": the
               \* process ended before the compositor had read it (history)

ends == <<count, calls, line, down, mask, reading, holding, mishaps>>

Nothing == [want |-> "", got |-> "", under |-> {}, chord |-> {}]
Key(code, on, map, want, chord) ==
    [req |-> "key", code |-> code, on |-> on, map |-> map, want |-> want, chord |-> chord]

\* A call of Backend::key or type_text; "soft" if its error is ignored,
\* "chord" the modifiers of its chord.
Call(op, sym, soft, chord) == [op |-> op, sym |-> sym, soft |-> soft, chord |-> chord]

------------------------------------------------------------------------------
(* The command layer.                                                      *)

Apply(op, syms, chord) == [i \in 1..Len(syms) |-> Call(op, syms[i], FALSE, chord)]

\* Mutant of Calls: the modifiers of a chord are released in keyup only.
CallsUnreleased(op, ms, leaf) ==
    IF op = "keyup"
    THEN Apply("Release", <<leaf>>, ToSet(ms)) \o Apply("Release", Reverse(ms), ToSet(ms))
    ELSE Apply("Press", ms, ToSet(ms))
           \o Apply(IF op = "key" THEN "PressRelease" ELSE "Press", <<leaf>>, ToSet(ms))

\* run_key: press the modifiers, then the key, then release in reverse.
Calls(op, ms, leaf) ==
    LET pressed == Apply("Press", ms, ToSet(ms))
        released == Apply("Release", Reverse(ms), ToSet(ms))
    IN CASE op = "key" -> pressed \o Apply("PressRelease", <<leaf>>, ToSet(ms)) \o released
         [] op = "keydown" -> pressed \o Apply("Press", <<leaf>>, ToSet(ms))
         [] op = "keyup" -> Apply("Release", <<leaf>>, ToSet(ms)) \o released

Idle == calls = <<>> /\ line = <<>>

Issue(new) ==
    /\ calls = <<>>
    /\ count < MaxCommands
    /\ count' = count + 1
    /\ calls' = new
    /\ UNCHANGED <<line, down, mask, reading, mishaps>>

\* key, keydown, keyup; parse_chain gives the modifiers their keysym names and
\* leaves the last token as it is.
KeyCommand(op) ==
    /\ op \in {"key", "keydown", "keyup"}
    /\ \E n \in 0..MaxMods : \E ms \in [1..n -> Mods], leaf \in Leaves :
          Issue(Calls(op, ms, leaf))
    /\ holding' = (holding \/ op # "key")

\* type: one call of type_text (a character is as good as a text).
TypeCommand(op) ==
    /\ op = "type"
    /\ \E c \in Leaves \ Mods : Issue(<<Call("Type", c, FALSE, {})>>)
    /\ UNCHANGED holding

\* clear_modifiers: every modifier is released, errors are ignored.
ClearCommand(op) ==
    /\ op = "clear"
    /\ Issue([i \in DOMAIN SetToSeq(Mods) |-> Call("Release", SetToSeq(Mods)[i], TRUE, {})])
    /\ UNCHANGED holding

\* The process ends once its last command is answered, and its device goes:
\* what the compositor has not read is lost with it, and every key comes up.
Exit ==
    /\ calls = <<>>
    /\ count' = MaxCommands
    /\ line' = <<>> /\ down' = {} /\ mask' = {}
    /\ mishaps' = IF line = <<>> THEN mishaps ELSE mishaps \cup {"lost"}
    /\ UNCHANGED <<calls, reading, holding>>

\* A press or a release of a keysym of the layout, with Shift around it when
\* the keysym is on the second level.
Struck(c, on) ==
    LET leaf == Key(Layout[c.sym].code, on, "default",
                    IF c.sym \in Mods THEN "" ELSE c.sym, c.chord)
        shift == IF Layout[c.sym].level = 1
                 THEN <<Key(Layout["Shift_L"].code, on, "default", "", {})>> ELSE <<>>
    IN IF on THEN shift \o <<leaf>> ELSE <<leaf>> \o shift

------------------------------------------------------------------------------
(* What the focused client makes of a key.                                 *)

\* The symbol of a key under the default keymap: Shift selects the level.
Symbol(code, bits) ==
    LET at(level) == {s \in DOMAIN Layout : Layout[s] = [code |-> code, level |-> level]}
    IN IF "Shift" \in bits /\ at(1) # {} THEN CHOOSE s \in at(1) : TRUE
       ELSE CHOOSE s \in at(0) : TRUE

\* What a press is read as where the keymap in force is `map` and the modifiers
\* are `bits`; a code of another keymap is read as garbage.
Reading(r, map, bits) ==
    [want |-> r.want, chord |-> {BitOf[m] : m \in r.chord}, under |-> bits,
     got |-> IF map # r.map THEN "garbage"
             ELSE IF r.map = "text" THEN r.code ELSE Symbol(r.code, bits)]

\* The modifier bits of the keys that are down.
Bits(keys) == {BitOf[m] : m \in {n \in Mods : Layout[n].code \in keys}}

EndsInit ==
    /\ count = 0 /\ calls = <<>> /\ line = <<>>
    /\ down = {} /\ mask = {}
    /\ reading = Nothing
    /\ holding = FALSE /\ mishaps = {}

\* The steps of the user's process that no backend takes part in.
Command ==
    \/ \E op \in Ops : KeyCommand(op) \/ TypeCommand(op) \/ ClearCommand(op)
    \/ Exit
==============================================================================
