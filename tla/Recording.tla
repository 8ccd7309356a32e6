------------------------------ MODULE Recording ------------------------------
(***************************************************************************)
(* What the two capture backends have in common: a user at a desk, the     *)
(* events that a recording consists of (recorder/types.rs), and the trace  *)
(* they are sent to.  EvdevCapture and PortalCapture are two ways from the *)
(* one to the other, Replay plays the trace; RecorderSession has the       *)
(* channel in between.                                                     *)
(***************************************************************************)
EXTENDS Integers, Sequences, FiniteSets, Functions, SequencesExt

CONSTANTS
    Devices,        \* the input devices on the desk
    KeysOf,         \* KeysOf[d]: the keys and buttons of device d
    Mice,           \* the devices that move the pointer
    Buttons,        \* the keys that are mouse buttons
    BitOf,          \* BitOf[k]: the mask bit of modifier key k
    MaxInput        \* bound: number of things the user does

ASSUME DeskAssumption ==
    /\ Mice \subseteq Devices
    /\ DOMAIN KeysOf = Devices
    /\ Buttons \cap DOMAIN BitOf = {}
    /\ MaxInput \in Nat

VARIABLES
    inputs,         \* things the user has done so far
    held,           \* held[d]: keys of d that are physically down
    trace,          \* what was recorded, and of which device, in order
    made,           \* history: the presses of each device
    struck          \* history: the devices of which a key was struck

user == <<inputs, held, made, struck>>

Axes == {"x", "y"}
Still == [a \in Axes |-> 0]
ModKeys == DOMAIN BitOf

\* The ways a wheel turns, as RecEvent signs them: down and up.
Ways == {1, -1}

\* RecEvent: a key with its chord, a click, a scroll, a motion (a distance, or
\* a place).
Record(kind, code, chord, value) ==
    [kind |-> kind, code |-> code, chord |-> chord, value |-> value]
Press(k, mask) == IF k \in Buttons THEN Record("click", k, {}, 0)
                                  ELSE Record("key", k, mask, 0)
Scroll(value) == Record("scroll", "wheel", {}, value)
Move(delta) == Record("move", "pointer", {}, delta)
Place(at) == Record("place", "pointer", {}, at)

\* The modifiers the user holds, over all keyboards.
HeldBits == {BitOf[k] : k \in (UNION Range(held)) \cap ModKeys}

RecordingInit ==
    /\ inputs = 0
    /\ held = [d \in Devices |-> {}]
    /\ trace = <<>>
    /\ made = [d \in Devices |-> <<>>]
    /\ struck = {}

Does ==
    /\ inputs < MaxInput
    /\ inputs' = inputs + 1

\* A key goes down, up, or repeats (values 1, 0 and 2).  The modifiers that
\* matter to a plain key are those held when it goes down.
Strikes(d, k, value) ==
    /\ Does
    /\ (k \in held[d]) <=> (value # 1)
    /\ value = 2 => k \notin Buttons
    /\ held' = [held EXCEPT ![d] = IF value = 0 THEN @ \ {k} ELSE @ \cup {k}]
    /\ made' = IF value = 1 /\ k \notin ModKeys
               THEN [made EXCEPT ![d] = Append(@, Press(k, HeldBits))]
               ELSE made
    /\ struck' = IF k \in Buttons THEN struck ELSE struck \cup {d}

\* A wheel is turned.
Turns ==
    /\ Does
    /\ UNCHANGED <<held, made, struck>>

Emit(d, record) == trace' = Append(trace, [dev |-> d, rec |-> record])
==============================================================================
