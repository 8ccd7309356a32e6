--------------------------- MODULE RecorderSession ---------------------------
(***************************************************************************)
(* The life of a recording (recorder/mod.rs and the pumps of portal.rs,    *)
(* evdev.rs and simulated.rs).  Pumps turn input into events and push them *)
(* into one bounded channel; the session, or the stream taken from it,     *)
(* pops them; a oneshot, an abort of the session's task and the closing of *)
(* the channel are three different ways a pump learns that it is over.     *)
(***************************************************************************)
EXTENDS Naturals, Sequences

CONSTANTS Pumps,      \* one for each input device; the portal and the script are one each
          Main,       \* the pump that stands for that one
          Capacity,   \* CHANNEL_CAPACITY
          MaxEvents,  \* bound on the events of a pump
          Backends,   \* values of RecorderConfig::backend used
          Streaming   \* does the consumer call events()?

ASSUME RecorderAssumption ==
    /\ Main \in Pumps
    /\ Capacity \in Nat \ {0}
    /\ MaxEvents \in Nat
    /\ Backends \subseteq {"auto", "portal", "evdev", "simulated"}
    /\ Streaming \in BOOLEAN

VARIABLES
    source,    \* the backend start() settled on
    input,     \* events the user has made for each pump
    taken,     \* events each pump has read and mapped
    pump,      \* where each pump is; in "sending" it holds event taken[d]
    coord,     \* the coordinator task of evdev.rs
    ending,    \* "signal": the stop oneshot was sent; "abort": abort() was
               \* called on the session's task
    chan,      \* the event channel
    reader,    \* who holds the receiver, or how it ended
    session,   \* the RecorderSession value
    out        \* the events the consumer has got (history)

vars == <<source, input, taken, pump, coord, ending, chan, reader,
          session, out>>

Ended == {"done", "unplugged"}
Gone(d) == pump[d] \in {"off"} \cup Ended
Event(d) == [dev |-> d, seq |-> taken[d]]
MoveTo(d, label) == pump' = [pump EXCEPT ![d] = label]

------------------------------------------------------------------------------
Init ==
    /\ source = "none"
    /\ input = [d \in Pumps |-> 0]
    /\ taken = [d \in Pumps |-> 0]
    /\ pump = [d \in Pumps |-> "off"]
    /\ coord = "off"
    /\ ending = {}
    /\ chan = <<>>
    /\ reader = "session"
    /\ session = "new"
    /\ out = <<>>

\* The pumps of S start at the given label under backend b.
Launch(b, S, label) ==
    /\ source' = b
    /\ pump' = [d \in Pumps |-> IF d \in S THEN label ELSE "off"]
    /\ coord' = IF b = "evdev" THEN "run" ELSE "off"
    /\ session' = "live"

\* start(): "auto" tries the portal, then evdev, never the script.  evdev
\* skips the devices it cannot open and succeeds even when that is all.
Start(choice) ==
    /\ session = "new"
    /\ \/ choice = "simulated" /\ Launch("simulated", {Main}, "run")
       \/ choice \in {"portal", "auto"} /\ Launch("portal", {Main}, "handshake")
       \/ choice \in {"evdev", "auto"}
            /\ \E opened \in SUBSET Pumps : Launch("evdev", opened, "run")
       \/ choice # "simulated" /\ session' = "failed"
            /\ UNCHANGED <<source, pump, coord>>
    /\ UNCHANGED <<input, taken, ending, chan, reader, out>>

\* The user acts (the script's next event falls due).
Input(d) ==
    /\ session = "live"
    /\ pump[d] \in {"run", "sending"}
    /\ input[d] < MaxEvents
    /\ input' = [input EXCEPT ![d] = @ + 1]
    /\ UNCHANGED <<source, taken, pump, coord, ending, chan, reader,
                   session, out>>

\* The EIS handshake of the portal pump, which does not look at stop_rx.
Handshake(d) ==
    /\ pump[d] = "handshake"
    /\ \E label \in {"run", "done"} : MoveTo(d, label)
    /\ UNCHANGED <<source, input, taken, coord, ending, chan, reader,
                   session, out>>

\* The event arm of the pump's loop, up to tx.send(rec).await.
Read(d) ==
    /\ pump[d] = "run"
    /\ taken[d] < input[d]
    /\ taken' = [taken EXCEPT ![d] = @ + 1]
    /\ MoveTo(d, "sending")
    /\ UNCHANGED <<source, input, coord, ending, chan, reader,
                   session, out>>

\* Mutants of Send: an event resent, an event dropped when the channel is full.
SendTwice(d) ==
    /\ pump[d] = "sending"
    /\ reader \in {"session", "stream"}
    /\ Len(chan) < Capacity
    /\ chan' = Append(chan, Event(d))
    /\ UNCHANGED pump
    /\ UNCHANGED <<source, input, taken, coord, ending, reader,
                   session, out>>
SendDropping(d) ==
    /\ pump[d] = "sending"
    /\ chan' = IF Len(chan) < Capacity THEN Append(chan, Event(d)) ELSE chan
    /\ MoveTo(d, "run")
    /\ UNCHANGED <<source, input, taken, coord, ending, reader,
                   session, out>>

\* tx.send(rec).await: waits for room; fails when the receiver is gone.
Send(d) ==
    /\ pump[d] = "sending"
    /\ \/ /\ reader \in {"session", "stream"}
          /\ Len(chan) < Capacity
          /\ chan' = Append(chan, Event(d))
          /\ MoveTo(d, "run")
       \/ /\ reader = "closed"
          /\ MoveTo(d, "done")
          /\ UNCHANGED chan
    /\ UNCHANGED <<source, input, taken, coord, ending, reader,
                   session, out>>

\* The stop arm of the select! of the portal and simulated pumps.
SeeStop(d) ==
    /\ source \in {"portal", "simulated"}
    /\ pump[d] = "run"
    /\ "signal" \in ending
    /\ MoveTo(d, "done")
    /\ UNCHANGED <<source, input, taken, coord, ending, chan, reader,
                   session, out>>

\* The device is unplugged, the EIS connection ends, the script is over.
SourceEnds(d) ==
    /\ pump[d] = "run"
    /\ source = "simulated" => taken[d] = MaxEvents
    /\ MoveTo(d, "unplugged")
    /\ UNCHANGED <<source, input, taken, coord, ending, chan, reader,
                   session, out>>

\* Mutant of CoordBreak: the loop ends with the first device that exits.
CoordBreakEager ==
    /\ coord = "run"
    /\ ending # {} \/ \E d \in Pumps : pump[d] \in Ended
    /\ coord' = "done"
    /\ UNCHANGED <<source, input, taken, pump, ending, chan, reader,
                   session, out>>

\* The evdev coordinator ends: stop was signalled, it was aborted, or every
\* device task exited.  Its JoinSet drops and aborts the device tasks.
CoordBreak ==
    /\ coord = "run"
    /\ ending # {} \/ \A d \in Pumps : Gone(d)
    /\ coord' = "done"
    /\ UNCHANGED <<source, input, taken, pump, ending, chan, reader,
                   session, out>>

\* An aborted task ends at its next await, the event in its hand with it: the
\* await of send() on a full channel, or one where the runtime makes it yield.
Cancel(d) ==
    /\ ~Gone(d)
    /\ \/ source = "evdev" /\ coord = "done"
       \/ source = "simulated" /\ "abort" \in ending
    /\ MoveTo(d, "done")
    /\ UNCHANGED <<source, input, taken, coord, ending, chan, reader,
                   session, out>>
------------------------------------------------------------------------------
SendersGone == \A d \in Pumps : Gone(d)

\* events(): the stream takes the receiver.
TakeEvents ==
    /\ Streaming
    /\ session = "live"
    /\ reader = "session"
    /\ reader' = "stream"
    /\ UNCHANGED <<source, input, taken, pump, coord, ending, chan,
                   session, out>>

\* recv() on a channel that holds an event.
Pop ==
    /\ chan # <<>>
    /\ out' = Append(out, Head(chan))
    /\ chan' = Tail(chan)

Poll ==
    /\ reader = "stream"
    /\ Pop
    /\ UNCHANGED <<source, input, taken, pump, coord, ending, reader,
                   session>>

\* The stream yields None: the channel is empty and no sender is left.
PollEnd ==
    /\ reader = "stream"
    /\ chan = <<>> /\ SendersGone
    /\ reader' = "ended"
    /\ UNCHANGED <<source, input, taken, pump, coord, ending, chan,
                   session, out>>

DropStream ==
    /\ reader = "stream"
    /\ reader' = "closed"
    /\ chan' = <<>>
    /\ UNCHANGED <<source, input, taken, pump, coord, ending, session, out>>

\* Mutant of Stop: the stop signal is not sent.
StopUnsignalled ==
    /\ session = "live"
    /\ IF reader = "session"
       THEN session' = "draining" /\ UNCHANGED ending
       ELSE session' = "reaping" /\ ending' = ending \cup {"abort"}
    /\ UNCHANGED <<source, input, taken, pump, coord, chan, reader, out>>

\* stop(): signal; then drain if the session still has the receiver.
Stop ==
    /\ session = "live"
    /\ IF reader = "session"
       THEN session' = "draining" /\ ending' = ending \cup {"signal"}
       ELSE session' = "reaping" /\ ending' = ending \cup {"signal", "abort"}
    /\ UNCHANGED <<source, input, taken, pump, coord, chan, reader, out>>

Drain ==
    /\ session = "draining"
    /\ Pop
    /\ UNCHANGED <<source, input, taken, pump, coord, ending, reader,
                   session>>

\* Mutant of DrainEnd: try_recv() until the channel is empty.
DrainEndEarly ==
    /\ session = "draining"
    /\ chan = <<>>
    /\ session' = "reaping"
    /\ reader' = "drained"
    /\ ending' = ending \cup {"abort"}
    /\ UNCHANGED <<source, input, taken, pump, coord, chan, out>>

\* recv() returned None: abort the task, then await it.
DrainEnd ==
    /\ session = "draining"
    /\ chan = <<>> /\ SendersGone
    /\ session' = "reaping"
    /\ reader' = "drained"
    /\ ending' = ending \cup {"abort"}
    /\ UNCHANGED <<source, input, taken, pump, coord, chan, out>>

\* The aborted task is over: the coordinator, or the simulated pump.  The
\* portal thread is joined in the background.
Reap ==
    /\ session = "reaping"
    /\ source = "evdev" => coord = "done"
    /\ source = "simulated" => SendersGone
    /\ session' = "stopped"
    /\ UNCHANGED <<source, input, taken, pump, coord, ending, chan,
                   reader, out>>

\* Mutant of Drop: nothing is signalled, nothing aborted.
DropLeaving ==
    /\ session \in {"live", "draining", "reaping"}
    /\ session' = "dropped"
    /\ UNCHANGED <<source, input, taken, pump, coord, ending, chan,
                   reader, out>>

\* The session value is dropped, or the future of stop() is.
Drop ==
    /\ session \in {"live", "draining", "reaping"}
    /\ session' = "dropped"
    /\ ending' = {"signal", "abort"}
    /\ IF reader = "session" THEN reader' = "closed" /\ chan' = <<>>
       ELSE UNCHANGED <<reader, chan>>
    /\ UNCHANGED <<source, input, taken, pump, coord, out>>

------------------------------------------------------------------------------
Next ==
    \/ \E choice \in Backends : Start(choice)
    \/ \E d \in Pumps : \/ Input(d) \/ Handshake(d) \/ Read(d) \/ Send(d)
                          \/ SeeStop(d) \/ SourceEnds(d) \/ Cancel(d)
    \/ CoordBreak
    \/ TakeEvents \/ Poll \/ PollEnd \/ DropStream
    \/ Stop \/ Drain \/ DrainEnd \/ Reap \/ Drop

\* The runtime polls tasks that can go on; the channel serves blocked senders
\* in order and select! picks among ready arms at random, hence SF; a
\* consumer that streams takes the stream and polls it.  Nothing obliges the
\* EIS server to answer the handshake, or anybody to stop or drop.
Fairness ==
    /\ \A d \in Pumps : /\ WF_vars(Read(d)) /\ SF_vars(Send(d))
                          /\ SF_vars(SeeStop(d)) /\ WF_vars(Cancel(d))
    /\ WF_vars(CoordBreak)
    /\ WF_vars(TakeEvents) /\ WF_vars(Poll) /\ WF_vars(PollEnd)
    /\ WF_vars(Drain) /\ WF_vars(DrainEnd) /\ WF_vars(Reap)

Spec == Init /\ [][Next]_vars /\ Fairness
------------------------------------------------------------------------------
Events == [dev : Pumps, seq : Nat]

TypeOK ==
    /\ source \in {"none", "portal", "evdev", "simulated"}
    /\ input \in [Pumps -> Nat]
    /\ taken \in [Pumps -> Nat]
    /\ pump \in [Pumps -> {"off", "handshake", "run", "sending"} \cup Ended]
    /\ coord \in {"off", "run", "done"}
    /\ ending \subseteq {"signal", "abort"}
    /\ chan \in Seq(Events) /\ Len(chan) <= Capacity
    /\ reader \in {"session", "stream", "ended", "drained", "closed"}
    /\ session \in {"new", "failed", "live", "draining", "reaping", "stopped",
                    "dropped"}
    /\ out \in Seq(Events)

Log == out \o chan

\* What reaches the consumer of one device is in the order it was made, and
\* nothing of it twice, whatever other devices interleave.
InOrder ==
    \A i, j \in DOMAIN Log :
        i < j /\ Log[i].dev = Log[j].dev => Log[i].seq < Log[j].seq

\* "without dropping events": as long as somebody can receive, all a pump has
\* read has been delivered or is in the channel, but for the one event in its
\* hand (the pump blocks on a full channel, it never drops).
NothingSkipped ==
    reader # "closed" =>
        \A d \in Pumps : \A n \in 1..taken[d] :
            \/ \E i \in DOMAIN Log : Log[i] = [dev |-> d, seq |-> n]
            \/ n = taken[d] /\ pump[d] \in {"sending", "done"}

\* "Stop the recording and return everything captured so far": when stop() has
\* drained the channel itself, nothing is missing that the portal or the script
\* has read.  (The device tasks of evdev are aborted with an event in hand.)
StopReturnsAll ==
    reader = "drained" /\ source # "evdev" =>
        \A d \in Pumps : \A n \in 1..taken[d] :
            \E i \in DOMAIN out : out[i] = [dev |-> d, seq |-> n]

Shaking == \E d \in Pumps : pump[d] = "handshake"

\* stop() returns once the EIS handshake is behind: full channels, senders
\* blocked on them and device tasks idle in a read do not hold it up.
StopReturns ==
    (session \in {"draining", "reaping"})
        ~> (session \in {"stopped", "dropped"} \/ Shaking)

\* What the user does at a device is recorded, until the recording is stopped
\* or the device goes away: "captures user input until Ctrl-C".
InputCaptured ==
    \A d \in Pumps :
        (taken[d] < input[d] /\ session = "live" /\ reader # "closed")
            ~> (\/ taken[d] = input[d]
                \/ session # "live" \/ reader = "closed" \/ pump[d] = "unplugged")

\* No pump outlives its session for ever: each learns by the signal, by the
\* abort or by the closed channel that it is over.
PumpsEnd == (session \in {"stopped", "dropped"}) ~> (SendersGone \/ Shaking)
==============================================================================
