-------------------------------- MODULE Replay --------------------------------
(***************************************************************************)
(* wdotool replay (wdotool/src/replay.rs): the events of a trace are       *)
(* carried out one after the other, through the calls of the Backend       *)
(* trait, and the first call that fails ends the replay.  A backend is     *)
(* taken at its word here: a call that succeeds has done what it says.     *)
(***************************************************************************)
EXTENDS Recording

CONSTANTS
    Named,          \* the keys that keycode_to_chord has a name for
    Starts          \* where the pointer may be when a replay begins, in pixels

\* keycode_to_chord has no modifier in its table.
ASSUME ReplayAssumption ==
    /\ Named \cap ModKeys = {}
    /\ Starts \subseteq [Axes -> Int]

VARIABLES
    replay,         \* "no", "running", "ok" or "failed"
    left,           \* events yet to be carried out
    start, screen,  \* where the pointer was at the start and is now, in pixels
    acts,           \* acts[d]: the presses of d carried out
    landed          \* history: where it clicked, and what it had gone by

player == <<replay, left, start, screen, acts, landed>>

ReplayInit ==
    /\ replay = "no" /\ left = <<>>
    /\ start = Still /\ screen = Still
    /\ acts = [d \in Devices |-> <<>>] /\ landed = <<>>

StartReplay ==
    /\ replay = "no"
    /\ replay' = "running"
    /\ left' = trace
    /\ start' \in Starts /\ screen' = start'
    /\ UNCHANGED <<acts, landed>>

Act == acts' = [acts EXCEPT ![Head(left).dev] = Append(@, Head(left).rec)]

\* run_key, with the modifiers of the chord; a key without a name was recorded
\* as `keyNN`, which is no keysym.
PlayKey ==
    /\ Head(left).rec.kind = "key" /\ Head(left).rec.code \in Named
    /\ Act
    /\ UNCHANGED <<screen, landed>>

\* mouse_button, pressed and released where the pointer is.
PlayClick ==
    /\ Head(left).rec.kind = "click"
    /\ Act
    /\ LET gone == Len(trace) - Len(left)
           moves(kind) == Cardinality({i \in 1..gone : trace[i].rec.kind = kind})
       IN landed' = Append(landed, [at |-> screen, moves |-> moves("move"),
                                    placed |-> moves("place") > 0])
    /\ UNCHANGED screen

PlayScroll ==
    /\ Head(left).rec.kind = "scroll"
    /\ UNCHANGED <<acts, screen, landed>>

\* mouse_move, by a distance or to a place.
PlayMove ==
    /\ Head(left).rec.kind \in {"move", "place"}
    /\ LET r == Head(left).rec IN
          screen' = IF r.kind = "place" THEN r.value
                    ELSE [a \in Axes |-> screen[a] + r.value[a]]
    /\ UNCHANGED <<acts, landed>>

PlayNext ==
    /\ replay = "running" /\ left # <<>>
    /\ PlayKey \/ PlayClick \/ PlayScroll \/ PlayMove
    /\ left' = Tail(left)
    /\ UNCHANGED <<replay, start>>

\* A call fails, as that of a key without a name always does: `?` ends it all.
PlayFails ==
    /\ replay = "running" /\ left # <<>>
    /\ replay' = "failed"
    /\ UNCHANGED <<left, start, screen, acts, landed>>

EndReplay ==
    /\ replay = "running" /\ left = <<>>
    /\ replay' = "ok"
    /\ UNCHANGED <<left, start, screen, acts, landed>>

Play == PlayNext \/ PlayFails \/ EndReplay
==============================================================================
