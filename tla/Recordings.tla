------------------------------ MODULE Recordings ------------------------------
(***************************************************************************)
(* From the user's hands to a replay: a recording made by one of the two   *)
(* capture backends, and the replay of its trace.                          *)
(***************************************************************************)
EXTENDS EvdevCapture, PortalCapture, Replay

VARIABLE recorder   \* "evdev" or "portal"

everything == <<user, trace, evdev, portal, player, recorder>>

RecordingsInit ==
    /\ recorder \in {"evdev", "portal"}
    /\ RecordingInit /\ EvdevInit /\ PortalInit /\ ReplayInit

\* The recording is stopped once all of it has been read (RecorderSession has
\* the other cases), and its trace is replayed.
Caught == EvdevCaught /\ wire = <<>>

RecordingsNext ==
    \/ /\ recorder = "evdev" /\ replay = "no" /\ EvdevNext
       /\ UNCHANGED <<portal, player, recorder>>
    \/ /\ recorder = "portal" /\ replay = "no" /\ PortalNext
       /\ UNCHANGED <<evdev, player, recorder>>
    \/ /\ Caught /\ StartReplay
       /\ UNCHANGED <<user, trace, evdev, portal, recorder>>
    \/ /\ Play
       /\ UNCHANGED <<user, trace, evdev, portal, recorder>>

RecordingsSpec == RecordingsInit /\ [][RecordingsNext]_everything
------------------------------------------------------------------------------
\* Every key that is not a button is on one keyboard, and each modifier has a
\* bit of its own.
HasKeys(d) == ~(KeysOf[d] \subseteq Buttons)
OwnBits == \A j, k \in ModKeys : BitOf[j] = BitOf[k] => j = k
OneKeyboard ==
    /\ \A d, e \in Devices : HasKeys(d) /\ HasKeys(e) => d = e
    /\ OwnBits

\* Two presses of the same key or button; of the same chord, if that matters.
Agree(chords, r, s) ==
    /\ r.kind = s.kind /\ r.code = s.code
    /\ chords => r = s

\* "Capture once, replay anywhere": a replay repeats the presses of each device,
\* keys and buttons, in order and nothing twice, however far the tasks that
\* recorded them lagged behind; and all of them, if it ends well.  Each key comes
\* with the modifiers that were held when it went down, but for evdev when several
\* tasks have keys to map, or two modifier keys one bit.  (Nothing is said of the
\* wheel here.)
ReplayRepeats ==
    \A d \in Devices :
        /\ Len(acts[d]) <= Len(made[d])
        /\ \A i \in 1..Len(acts[d]) :
              Agree(recorder = "portal" \/ OneKeyboard, acts[d][i], made[d][i])
        /\ replay = "ok" => Len(acts[d]) = Len(made[d])

\* However many keyboards there are on the desk: as long as the user has struck
\* the keys of one, a replay presses each key with the modifiers that were held
\* when it went down, though its task maps it when they may be up again.  Over
\* several, evdev's tasks race for the mask (mapping.rs:188-194) and chords are
\* recorded wrong, which is left out here; the portal's server has one mask.
ChordsRepeated ==
    (recorder = "portal" \/ (Cardinality(struck) <= 1 /\ OwnBits)) =>
        \A d \in Devices : \A i \in DOMAIN acts[d] \cap DOMAIN made[d] :
            acts[d][i] = made[d][i]

\* The sum of a sequence of numbers.
Total(s) ==
    LET total[n \in 0..Len(s)] == IF n = 0 THEN 0 ELSE total[n - 1] + s[n]
    IN total[Len(s)]

\* How far event e of the trace moves device d along an axis.
Distance(e, d, a) == IF e.dev = d /\ e.rec.kind = "move" THEN e.rec.value[a] ELSE 0

\* No motion is lost or counted twice by the throttle of the evdev tasks: what
\* was recorded and what waits in the accumulator make up what the mouse did,
\* on each axis.
MotionConserved ==
    (recorder = "evdev" /\ Caught) =>
        \A d \in Devices, a \in Axes :
            moved[d][a] = rel[d][a] + Total([i \in DOMAIN trace |-> Distance(trace[i], d, a)])

\* A replayed click lands where the user clicked, to less than the threshold on
\* each axis: on the same place after absolute motion, as far from where it all
\* began after relative motion, which costs less than a pixel more for each
\* motion replayed, for the fractions dropped.  This is of portal recordings
\* with motion of one kind, the first click of an absolute one after a place.
ClicksLand ==
    (recorder = "portal" /\ Cardinality(motions) = 1) =>
        \A i \in DOMAIN landed : \A a \in Axes :
            LET click == landed[i]
                from == IF click.placed THEN 0 ELSE start[a]
            IN \/ motions = {"absolute"} /\ ~click.placed
               \/ Magnitude(2 * (click.at[a] - from) - spots[i][a])
                      < 2 * (Threshold + click.moves)
==============================================================================
