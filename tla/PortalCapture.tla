---------------------------- MODULE PortalCapture ----------------------------
(***************************************************************************)
(* The portal side of the recorder: the EIS server sends what the user     *)
(* does as one stream of events, and the pump (recorder/portal.rs) maps    *)
(* each with eis_to_rec (recorder/mapping.rs) to at most one recorded      *)
(* event.  The server reports motion as fractions of a pixel (f32), here   *)
(* in halves; the modifier mask is the one the server reports.             *)
(***************************************************************************)
EXTENDS Recording

CONSTANTS
    Threshold,      \* move_threshold_px, in pixels
    Steps,          \* distances of motion and of smooth scrolling, in half pixels
    Places          \* places of absolute motion, in half pixels

ASSUME PortalAssumption ==
    /\ Threshold \in Nat \ {0}
    /\ Steps \subseteq Int /\ Places \subseteq [Axes -> Int]

VARIABLES
    hand,           \* where the user's pointer is, in half pixels
    wire,           \* events sent by the server and not yet read
    last,           \* EisState: {the place recorded last}, {} before one
    rest,           \* EisState: rel_x and rel_y, in half pixels
    mask,           \* EisState: mods
    spots,          \* history: where the user clicked
    motions         \* history: the kinds of motion there were

portal == <<hand, wire, last, rest, mask, spots, motions>>

Magnitude(n) == IF n < 0 THEN -n ELSE n

\* `as i32` truncates towards zero.
Pixels(halves) == IF halves < 0 THEN -((-halves) \div 2) ELSE halves \div 2
Truncated(at) == [a \in Axes |-> Pixels(at[a])]

PortalInit ==
    /\ hand = Still
    /\ wire = <<>>
    /\ last = {} /\ rest = Still /\ mask = {}
    /\ spots = <<>> /\ motions = {}

------------------------------------------------------------------------------
(* The user and the EIS server.                                            *)

Sends(events) ==
    /\ wire' = wire \o events
    /\ UNCHANGED <<trace, last, rest, mask>>

\* A key or a button; a change of the modifiers is reported after the key.
\* EIS reports no auto-repeat.
KeyMoves(d, k, value) ==
    /\ value \in {0, 1}
    /\ Strikes(d, k, value)
    /\ Sends(<<[ev |-> IF k \in Buttons THEN "button" ELSE "key",
                dev |-> d, code |-> k, value |-> value]>>
             \o (IF HeldBits' = HeldBits THEN <<>> ELSE <<[ev |-> "modifiers", bits |-> HeldBits']>>))
    /\ spots' = IF value = 1 /\ k \in Buttons THEN Append(spots, hand) ELSE spots
    /\ UNCHANGED <<hand, motions>>

Glide(d, axis, by) ==
    /\ Does
    /\ hand' = [hand EXCEPT ![axis] = @ + by]
    /\ motions' = motions \cup {"relative"}
    /\ Sends(<<[ev |-> "motion", dev |-> d, by |-> [Still EXCEPT ![axis] = by]]>>)
    /\ UNCHANGED <<held, made, struck, spots>>

Aim(d, at) ==
    /\ Does
    /\ hand' = at
    /\ motions' = motions \cup {"absolute"}
    /\ Sends(<<[ev |-> "place", dev |-> d, at |-> at]>>)
    /\ UNCHANGED <<held, made, struck, spots>>

\* ScrollDiscrete: a click of the wheel, in 120ths.
Wheel(d, way) ==
    /\ Turns
    /\ Sends(<<[ev |-> "discrete", dev |-> d, value |-> 120 * way]>>)
    /\ UNCHANGED <<hand, spots, motions>>

\* ScrollDelta: smooth scrolling, in pixels and their fractions.
Finger(d, by) ==
    /\ Turns
    /\ Sends(<<[ev |-> "smooth", dev |-> d, value |-> by]>>)
    /\ UNCHANGED <<hand, spots, motions>>

------------------------------------------------------------------------------
(* The pump: eis_to_rec, an event at a time.                               *)

\* A press of a button or of a key, modifier keys included.
MapPress(e) ==
    /\ e.ev \in {"button", "key"}
    /\ IF e.value = 1 THEN Emit(e.dev, Press(e.code, mask)) ELSE UNCHANGED trace
    /\ UNCHANGED <<last, rest, mask>>

MapModifiers(e) ==
    /\ e.ev = "modifiers"
    /\ mask' = e.bits
    /\ UNCHANGED <<trace, last, rest>>

\* An absolute place is recorded unless it is close to the one recorded last.
MapPlace(e) ==
    /\ e.ev = "place"
    /\ LET at == Truncated(e.at)
           far == \A seen \in last : \E a \in Axes : Magnitude(at[a] - seen[a]) >= Threshold
       IN IF far THEN last' = {at} /\ Emit(e.dev, Place(at))
                 ELSE UNCHANGED <<last, trace>>
    /\ UNCHANGED <<rest, mask>>

\* Mutant of MapMotion: what was recorded stays in the accumulator.
MapMotionKeeping(e) ==
    /\ e.ev = "motion"
    /\ LET sum == [a \in Axes |-> rest[a] + e.by[a]]
       IN /\ rest' = sum
          /\ IF \E a \in Axes : Magnitude(sum[a]) >= 2 * Threshold
             THEN Emit(e.dev, Move(Truncated(sum))) ELSE UNCHANGED trace
    /\ UNCHANGED <<last, mask>>

\* Relative motion is added up until it reaches the threshold on one axis, and
\* then recorded on both; the fractions are dropped with it.
MapMotion(e) ==
    /\ e.ev = "motion"
    /\ LET sum == [a \in Axes |-> rest[a] + e.by[a]]
       IN IF \E a \in Axes : Magnitude(sum[a]) >= 2 * Threshold
          THEN Emit(e.dev, Move(Truncated(sum))) /\ rest' = Still
          ELSE rest' = sum /\ UNCHANGED trace
    /\ UNCHANGED <<last, mask>>

\* A scroll is recorded as it comes, but for the fractions of a smooth one, which
\* are dropped and not kept for the next.
MapScroll(e) ==
    /\ e.ev \in {"discrete", "smooth"}
    /\ Emit(e.dev, Scroll(IF e.ev = "smooth" THEN Pixels(e.value) ELSE e.value))
    /\ UNCHANGED <<last, rest, mask>>

PumpReads ==
    /\ wire # <<>>
    /\ wire' = Tail(wire)
    /\ LET e == Head(wire) IN
          MapPress(e) \/ MapModifiers(e) \/ MapPlace(e) \/ MapMotion(e) \/ MapScroll(e)
    /\ UNCHANGED <<user, hand, spots, motions>>

PortalNext ==
    \/ \E d \in Devices : \E k \in KeysOf[d], value \in 0..1 : KeyMoves(d, k, value)
    \/ \E d \in Mice, axis \in Axes, by \in Steps : Glide(d, axis, by)
    \/ \E d \in Mice, at \in Places : Aim(d, at)
    \/ \E d \in Mice, way \in Ways : Wheel(d, way)
    \/ \E d \in Mice, by \in Steps : Finger(d, by)
    \/ PumpReads
==============================================================================
