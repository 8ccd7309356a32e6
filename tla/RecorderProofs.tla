---------------------------- MODULE RecorderProofs ----------------------------
(***************************************************************************)
(* Proofs about the recorder.  Of RecorderSession: its type invariant,     *)
(* that events keep the order of their device, that nothing a pump has     *)
(* read is skipped, and that stop() returns all of it when the source is   *)
(* the portal or the script.  Of Recordings, which is a specification of   *)
(* its own: that no motion is lost, and that a replay repeats what was     *)
(* done at each device, and clicks where it was done.                      *)
(***************************************************************************)
EXTENDS RecorderSession, Recordings, FiniteSetTheorems, SequenceTheorems,
        NaturalsInduction, WellFoundedInduction, TLAPS

\* What can be in the log of a device: nothing beyond the event in hand.
Bound ==
    \A i \in DOMAIN Log :
        /\ Log[i].seq <= taken[Log[i].dev]
        /\ pump[Log[i].dev] = "sending" => Log[i].seq < taken[Log[i].dev]

\* No pump has been launched before start().
NewIsOff == session = "new" => \A d \in Pumps : pump[d] = "off"

\* stop() drains only what it has taken from the session.
DrainsOwn == session = "draining" => reader \in {"session"}

IInv == TypeOK /\ NewIsOff /\ DrainsOwn /\ Bound /\ InOrder /\ NothingSkipped

------------------------------------------------------------------------------
\* Appending to the channel appends to the log.
LEMMA LogAppend ==
    ASSUME NEW s \in Seq(Events), NEW t \in Seq(Events), NEW e \in Events
    PROVE  s \o Append(t, e) = Append(s \o t, e)
<1>1. Len(s \o Append(t, e)) = Len(Append(s \o t, e))
  BY SMT
<1>2. ASSUME NEW i \in 1..Len(s \o Append(t, e))
      PROVE  (s \o Append(t, e))[i] = Append(s \o t, e)[i]
  BY SMT
<1>. QED  BY <1>1, <1>2, SeqEqual, SMT

\* A pop moves an event from the channel to the consumer: same log.
LEMMA LogPop ==
    ASSUME NEW s \in Seq(Events), NEW t \in Seq(Events), t # <<>>
    PROVE  Append(s, Head(t)) \o Tail(t) = s \o t
<1>1. Head(t) \in Events /\ Tail(t) \in Seq(Events) /\ Len(Tail(t)) = Len(t) - 1
      /\ \A i \in 1..Len(Tail(t)) : Tail(t)[i] = t[i+1]
      /\ Head(t) = t[1] /\ Len(t) \in Nat \ {0}
  BY SMT
<1>2. Len(Append(s, Head(t)) \o Tail(t)) = Len(s \o t)
  BY <1>1, SMT
<1>3. ASSUME NEW i \in 1..Len(s \o t)
      PROVE  (Append(s, Head(t)) \o Tail(t))[i] = (s \o t)[i]
  BY <1>1, SMT
<1>. QED  BY <1>1, <1>2, <1>3, SeqEqual, SMT

LEMMA EventType == ASSUME TypeOK, NEW d \in Pumps PROVE Event(d) \in Events
  BY SMT DEF Event, Events, TypeOK

\* A send to a channel somebody can receive from.
LEMMA SendEffect ==
    ASSUME NEW d \in Pumps, Send(d), reader # "closed"
    PROVE  /\ chan' = Append(chan, Event(d)) /\ Len(chan) < Capacity
           /\ pump[d] = "sending" /\ pump' = [pump EXCEPT ![d] = "run"]
           /\ UNCHANGED <<source, input, taken, coord, ending, reader, session, out>>
  BY DEF Send, MoveTo

LEMMA LogType == ASSUME TypeOK
                 PROVE  Log \in Seq(Events) /\ \A i \in DOMAIN Log : Log[i] \in Events
  BY SMT DEF Log, TypeOK

LEMMA PopType ==
    ASSUME TypeOK, Pop
    PROVE  chan' \in Seq(Events) /\ Len(chan') <= Capacity /\ out' \in Seq(Events)
  BY RecorderAssumption, SMT DEF Pop, TypeOK

------------------------------------------------------------------------------
THEOREM InitInv == Init => IInv
<1>. SUFFICES ASSUME Init PROVE IInv
  OBVIOUS
<1>. USE RecorderAssumption DEF Init
<1>1. TypeOK
  BY EmptySeq, SMT DEF TypeOK, Ended
<1>2. NewIsOff /\ DrainsOwn
  BY DEF NewIsOff, DrainsOwn
<1>3. Log = <<>>
  BY SMT DEF Log
<1>4. Bound /\ InOrder
  BY <1>3, SMT DEF Bound, InOrder
<1>5. NothingSkipped
  BY SMT DEF NothingSkipped
<1>. QED  BY <1>1, <1>2, <1>4, <1>5 DEF IInv

\* The actions that leave the log, and what has been read, as they are.
Quiet ==
    \/ \E choice \in Backends : Start(choice)
    \/ \E d \in Pumps : Input(d) \/ Handshake(d) \/ SeeStop(d) \/ SourceEnds(d) \/ Cancel(d)
    \/ CoordBreak \/ TakeEvents \/ PollEnd \/ Stop \/ DrainEnd \/ Reap
    \/ UNCHANGED vars

\* What start() does to the pumps, whichever backend it settles on.
LEMMA StartEffect ==
    ASSUME TypeOK, NEW choice \in Backends, Start(choice)
    PROVE  /\ source' \in {"none", "portal", "evdev", "simulated"}
           /\ coord' \in {"off", "run", "done"}
           /\ session' \in {"live", "failed"}
           /\ \/ pump' = pump
              \/ pump' \in [Pumps -> {"off", "handshake", "run"}]
<1>1. ASSUME NEW b \in {"portal", "evdev", "simulated"}, NEW S \in SUBSET Pumps,
             NEW label \in {"run", "handshake"}, Launch(b, S, label)
      PROVE  /\ source' \in {"portal", "evdev", "simulated"}
             /\ coord' \in {"off", "run", "done"}
             /\ session' = "live"
             /\ pump' \in [Pumps -> {"off", "handshake", "run"}]
  BY <1>1, SMT DEF Launch
<1>2. {Main} \in SUBSET Pumps
  BY RecorderAssumption
<1>3. CASE Launch("simulated", {Main}, "run")
  BY <1>1, <1>2, <1>3, SMT
<1>4. CASE Launch("portal", {Main}, "handshake")
  BY <1>1, <1>2, <1>4, SMT
<1>5. CASE \E opened \in SUBSET Pumps : Launch("evdev", opened, "run")
  BY <1>1, <1>5, SMT
<1>6. CASE session' = "failed" /\ UNCHANGED <<source, pump, coord>>
  BY <1>6, SMT DEF TypeOK
<1>. QED  BY <1>3, <1>4, <1>5, <1>6, SMT DEF Start

\* What a quiet step does to the variables the log invariants speak of.
LEMMA QuietStep ==
    ASSUME TypeOK, NewIsOff, DrainsOwn, Quiet
    PROVE  /\ out' = out /\ chan' = chan /\ taken' = taken
           /\ reader = "closed" => reader' = "closed"
           /\ \A d \in Pumps :
                /\ pump'[d] = "sending" => pump[d] = "sending"
                /\ pump[d] \in {"sending", "done"} => pump'[d] \in {"sending", "done"}
<1>1. ASSUME NEW choice \in Backends, Start(choice)
      PROVE  \A d \in Pumps : pump[d] = "off" /\ pump'[d] # "sending"
  BY <1>1, StartEffect, SMT DEF NewIsOff, Start, Ended
<1>2. CASE \E choice \in Backends : Start(choice)
  BY <1>1, <1>2, SMT DEF Start
<1>3. ASSUME NEW d \in Pumps,
             Input(d) \/ Handshake(d) \/ SeeStop(d) \/ SourceEnds(d) \/ Cancel(d)
      PROVE  /\ out' = out /\ chan' = chan /\ taken' = taken
             /\ reader' = reader
             /\ \A e \in Pumps :
                /\ pump'[e] = "sending" => pump[e] = "sending"
                /\ pump[e] \in {"sending", "done"} => pump'[e] \in {"sending", "done"}
  BY <1>3, SMT DEF Input, Handshake, SeeStop, SourceEnds, Cancel, MoveTo, TypeOK,
                   Gone, Ended
<1>4. CASE Stop
  BY <1>4 DEF Stop
<1>5. CASE CoordBreak \/ TakeEvents \/ PollEnd \/ DrainEnd \/ Reap \/ UNCHANGED vars
  BY <1>5, SMT DEF CoordBreak, TakeEvents, PollEnd, DrainEnd, Reap, vars, DrainsOwn
<1>. QED  BY <1>2, <1>3, <1>4, <1>5 DEF Quiet

\* Type correctness, one action at a time.
LEMMA TypeStep == TypeOK /\ [Next]_vars => TypeOK'
<1>. SUFFICES ASSUME TypeOK, [Next]_vars PROVE TypeOK'
  OBVIOUS
<1>1. ASSUME NEW choice \in Backends, Start(choice) PROVE TypeOK'
  <2>1. /\ source' \in {"none", "portal", "evdev", "simulated"}
        /\ coord' \in {"off", "run", "done"}
        /\ session' \in {"live", "failed"}
        /\ pump' = pump \/ pump' \in [Pumps -> {"off", "handshake", "run"}]
    BY <1>1, StartEffect
  <2>2. UNCHANGED <<input, taken, ending, chan, reader, out>>
    BY <1>1 DEF Start
  <2>. QED  BY <2>1, <2>2, SMT DEF TypeOK, Ended
<1>2. ASSUME NEW d \in Pumps, Input(d) PROVE TypeOK'
  BY <1>2, SMT DEF Input, TypeOK, Ended
<1>3. ASSUME NEW d \in Pumps, Read(d) PROVE TypeOK'
  BY <1>3, SMT DEF Read, MoveTo, TypeOK, Ended
<1>4. ASSUME NEW d \in Pumps, Handshake(d) PROVE TypeOK'
  BY <1>4, SMT DEF Handshake, MoveTo, TypeOK, Ended
<1>5. ASSUME NEW d \in Pumps, SeeStop(d) \/ SourceEnds(d) \/ Cancel(d) PROVE TypeOK'
  <2>1. pump' = [pump EXCEPT ![d] = "done"] \/ pump' = [pump EXCEPT ![d] = "unplugged"]
    BY <1>5, SMT DEF SeeStop, SourceEnds, Cancel, MoveTo
  <2>2. UNCHANGED <<source, input, taken, coord, ending, chan, reader, session, out>>
    BY <1>5, SMT DEF SeeStop, SourceEnds, Cancel
  <2>3. pump \in [Pumps -> {"off", "handshake", "run", "sending"} \cup Ended]
    BY DEF TypeOK
  <2>4. pump' \in [Pumps -> {"off", "handshake", "run", "sending"} \cup Ended]
    BY <2>1, <2>3, SMT DEF Ended
  <2>. QED  BY <2>2, <2>4, SMT DEF TypeOK, Ended
<1>6. ASSUME NEW d \in Pumps, Send(d) PROVE TypeOK'
  <2>1. CASE reader = "closed"
    BY <1>6, <2>1, SMT DEF Send, MoveTo, TypeOK, Ended
  <2>2. CASE reader # "closed"
    <3>1. /\ chan' = Append(chan, Event(d)) /\ Len(chan) < Capacity
          /\ pump' = [pump EXCEPT ![d] = "run"]
          /\ UNCHANGED <<source, input, taken, coord, ending, reader, session, out>>
      BY <1>6, <2>2, SendEffect
    <3>2. chan' \in Seq(Events) /\ Len(chan') <= Capacity
      BY <3>1, EventType, RecorderAssumption, SMT DEF TypeOK
    <3>. QED  BY <3>1, <3>2, SMT DEF TypeOK, Ended
  <2>. QED  BY <2>1, <2>2
<1>7. CASE CoordBreak
  BY <1>7, SMT DEF CoordBreak, TypeOK, Ended
<1>8. CASE TakeEvents
  BY <1>8, SMT DEF TakeEvents, TypeOK, Ended
<1>9. CASE PollEnd
  BY <1>9, SMT DEF PollEnd, TypeOK, Ended
<1>10. CASE Poll
  BY <1>10, PopType, SMT DEF Poll, TypeOK, Ended
<1>11. CASE DropStream
  BY <1>11, RecorderAssumption, EmptySeq, SMT DEF DropStream, TypeOK, Ended
<1>12. CASE Stop
  <2>1. CASE reader = "session"
    <3>1. session' = "draining" /\ ending' = ending \cup {"signal"}
      BY <1>12, <2>1 DEF Stop
    <3>. QED  BY <1>12, <3>1, SMT DEF Stop, TypeOK, Ended
  <2>2. CASE reader # "session"
    <3>1. session' = "reaping" /\ ending' = ending \cup {"signal", "abort"}
      BY <1>12, <2>2 DEF Stop
    <3>. QED  BY <1>12, <3>1, SMT DEF Stop, TypeOK, Ended
  <2>. QED  BY <2>1, <2>2
<1>13. CASE Drain
  BY <1>13, PopType, SMT DEF Drain, TypeOK, Ended
<1>14. CASE DrainEnd
  BY <1>14, SMT DEF DrainEnd, TypeOK, Ended
<1>15. CASE Reap
  BY <1>15, SMT DEF Reap, TypeOK, Ended
<1>16. CASE Drop
  <2>1. CASE reader = "session"
    BY <1>16, <2>1, RecorderAssumption, EmptySeq, SMT DEF Drop, TypeOK, Ended
  <2>2. CASE reader # "session"
    BY <1>16, <2>2, SMT DEF Drop, TypeOK, Ended
  <2>. QED  BY <2>1, <2>2
<1>17. CASE UNCHANGED vars
  BY <1>17, SMT DEF vars, TypeOK, Ended
<1>. QED  BY <1>1, <1>2, <1>3, <1>4, <1>5, <1>6, <1>7, <1>8, <1>9, <1>10, <1>11,
             <1>12, <1>13, <1>14, <1>15, <1>16, <1>17 DEF Next

THEOREM TypeCorrect == Spec => []TypeOK
<1>1. Init => TypeOK
  BY InitInv DEF IInv
<1>. QED  BY <1>1, TypeStep, PTL DEF Spec

------------------------------------------------------------------------------
(* The log.                                                                *)

\* A step that leaves the log and what was read as they are keeps its
\* invariants, if no pump takes an event in hand.
LEMMA SameLog ==
    ASSUME IInv, TypeOK', Log' = Log, taken' = taken,
           reader = "closed" => reader' = "closed",
           \A d \in Pumps :
              /\ pump'[d] = "sending" => pump[d] = "sending"
              /\ pump[d] \in {"sending", "done"} => pump'[d] \in {"sending", "done"}
    PROVE  Bound' /\ InOrder' /\ NothingSkipped'
<1>1. \A i \in DOMAIN Log : Log[i].dev \in Pumps
  BY LogType, SMT DEF IInv, Events
<1>2. Bound'
  BY <1>1, SMT DEF IInv, Bound
<1>3. InOrder'
  BY DEF IInv, InOrder
<1>4. NothingSkipped'
  BY SMT DEF IInv, NothingSkipped
<1>. QED  BY <1>2, <1>3, <1>4

LEMMA ReadLog ==
    ASSUME IInv, NEW d \in Pumps, Read(d)
    PROVE  Bound' /\ InOrder' /\ NothingSkipped'
<1>. USE DEF IInv
<1>1. /\ Log' = Log /\ reader' = reader
      /\ pump[d] = "run" /\ pump' = [pump EXCEPT ![d] = "sending"]
      /\ taken' = [taken EXCEPT ![d] = @ + 1]
  BY SMT DEF Read, MoveTo, Log
<1>2. \A i \in DOMAIN Log : Log[i].dev \in Pumps /\ Log[i].seq \in Nat
  BY LogType, SMT DEF Events
<1>3. Bound'
  BY <1>1, <1>2, SMT DEF Bound, TypeOK
<1>4. InOrder'
  BY <1>1 DEF InOrder
<1>5. NothingSkipped'
  <2>. SUFFICES ASSUME reader # "closed", NEW e \in Pumps, NEW n \in 1..taken'[e]
                PROVE  \/ \E i \in DOMAIN Log : Log[i] = [dev |-> e, seq |-> n]
                       \/ n = taken'[e] /\ pump'[e] \in {"sending", "done"}
    BY <1>1 DEF NothingSkipped
  <2>1. CASE n \in 1..taken[e]
    BY <1>1, <2>1, SMT DEF NothingSkipped, TypeOK
  <2>2. CASE n \notin 1..taken[e]
    BY <1>1, <2>2, SMT DEF TypeOK
  <2>. QED  BY <2>1, <2>2
<1>. QED  BY <1>3, <1>4, <1>5

LEMMA SendLog ==
    ASSUME IInv, TypeOK', NEW d \in Pumps, Send(d)
    PROVE  Bound' /\ InOrder' /\ NothingSkipped'
<1>1. CASE reader = "closed"
  <2>1. /\ chan' = chan /\ pump[d] = "sending" /\ pump' = [pump EXCEPT ![d] = "done"]
        /\ UNCHANGED <<taken, reader, out>>
    BY <1>1, SMT DEF Send, MoveTo
  <2>2. Log' = Log
    BY <2>1 DEF Log
  <2>3. \A e \in Pumps :
            /\ pump'[e] = "sending" => pump[e] = "sending"
            /\ pump[e] \in {"sending", "done"} => pump'[e] \in {"sending", "done"}
    BY <2>1, SMT DEF IInv, TypeOK
  <2>. QED  BY <2>1, <2>2, <2>3, SameLog
<1>2. CASE reader # "closed"
  <2>1. /\ chan' = Append(chan, Event(d)) /\ pump[d] = "sending"
        /\ pump' = [pump EXCEPT ![d] = "run"]
        /\ UNCHANGED <<taken, reader, out>>
    BY <1>2, SendEffect
  <2>2. Event(d) \in Events
    BY EventType DEF IInv
  <2>3. Log' = Append(Log, Event(d))
    BY <2>1, <2>2, LogAppend DEF Log, IInv, TypeOK
  <2>4. Log \in Seq(Events) /\ \A i \in DOMAIN Log : Log[i] \in Events
    BY LogType DEF IInv
  <2>5. /\ DOMAIN Log' = DOMAIN Log \cup {Len(Log) + 1}
        /\ \A i \in DOMAIN Log : Log'[i] = Log[i] /\ i \in 1..Len(Log)
        /\ Log'[Len(Log) + 1] = Event(d)
    BY <2>2, <2>3, <2>4, SMT
  <2>6. Event(d).dev = d /\ Event(d).seq = taken[d]
    BY DEF Event
  <2>7. taken \in [Pumps -> Nat] /\ \A e \in Pumps : pump'[e] = IF e = d THEN "run" ELSE pump[e]
    BY <2>1, SMT DEF IInv, TypeOK
  <2>8. \A i \in DOMAIN Log : Log[i].dev \in Pumps /\ Log[i].seq \in Nat
    BY <2>4, SMT DEF Events
  <2>9. Bound'
    <3>. SUFFICES ASSUME NEW i \in DOMAIN Log'
                  PROVE  /\ Log'[i].seq <= taken'[Log'[i].dev]
                         /\ pump'[Log'[i].dev] = "sending" => Log'[i].seq < taken'[Log'[i].dev]
      BY DEF Bound
    <3>1. CASE i \in DOMAIN Log
      BY <3>1, <2>1, <2>5, <2>7, <2>8, SMT DEF IInv, Bound
    <3>2. CASE i = Len(Log) + 1
      BY <3>2, <2>1, <2>5, <2>6, <2>7, SMT
    <3>. QED  BY <3>1, <3>2, <2>5
  <2>10. InOrder'
    <3>. SUFFICES ASSUME NEW i \in DOMAIN Log', NEW j \in DOMAIN Log',
                         i < j, Log'[i].dev = Log'[j].dev
                  PROVE  Log'[i].seq < Log'[j].seq
      BY DEF InOrder
    <3>1. i \in DOMAIN Log /\ (j \in DOMAIN Log \/ j = Len(Log) + 1)
      BY <2>4, <2>5, SMT
    <3>2. CASE j \in DOMAIN Log
      BY <3>1, <3>2, <2>5 DEF IInv, InOrder
    <3>3. CASE j = Len(Log) + 1
      BY <3>1, <3>3, <2>1, <2>5, <2>6 DEF IInv, Bound
    <3>. QED  BY <3>1, <3>2, <3>3
  <2>11. NothingSkipped'
    <3>. SUFFICES ASSUME NEW e \in Pumps, NEW n \in 1..taken[e]
                  PROVE  \/ \E i \in DOMAIN Log' : Log'[i] = [dev |-> e, seq |-> n]
                         \/ n = taken[e] /\ pump'[e] \in {"sending", "done"}
      BY <2>1 DEF NothingSkipped
    <3>1. CASE \E i \in DOMAIN Log : Log[i] = [dev |-> e, seq |-> n]
      BY <3>1, <2>5
    <3>2. CASE n = taken[e] /\ pump[e] \in {"sending", "done"}
      <4>1. CASE e = d
        BY <4>1, <3>2, <2>5 DEF Event
      <4>2. CASE e # d
        BY <4>2, <3>2, <2>7
      <4>. QED  BY <4>1, <4>2
    <3>. QED  BY <3>1, <3>2, <1>2 DEF IInv, NothingSkipped
  <2>. QED  BY <2>9, <2>10, <2>11
<1>. QED  BY <1>1, <1>2

LEMMA PopLog ==
    ASSUME IInv, TypeOK', Poll \/ Drain
    PROVE  Bound' /\ InOrder' /\ NothingSkipped'
<1>1. Pop /\ UNCHANGED <<taken, pump, reader>>
  BY DEF Poll, Drain
<1>2. Log' = Log
  BY <1>1, LogPop DEF Pop, Log, IInv, TypeOK
<1>. QED  BY <1>1, <1>2, SameLog

\* The receiver goes away with what the channel holds.
LEMMA CloseLog ==
    ASSUME IInv, TypeOK', chan' = <<>>, reader' = "closed", UNCHANGED <<taken, pump, out>>
    PROVE  Bound' /\ InOrder' /\ NothingSkipped'
<1>1. /\ DOMAIN Log' \subseteq DOMAIN Log
      /\ \A i \in DOMAIN Log' : Log'[i] = Log[i]
  BY SMT DEF Log, IInv, TypeOK
<1>2. Bound'
  BY <1>1 DEF IInv, Bound
<1>3. InOrder'
  BY <1>1 DEF IInv, InOrder
<1>4. NothingSkipped'
  BY DEF NothingSkipped
<1>. QED  BY <1>2, <1>3, <1>4

LEMMA DropLog ==
    ASSUME IInv, TypeOK', Drop \/ DropStream
    PROVE  Bound' /\ InOrder' /\ NothingSkipped'
<1>1. UNCHANGED <<taken, pump, out>>
  BY DEF Drop, DropStream
<1>2. \/ chan' = <<>> /\ reader' = "closed"
      \/ UNCHANGED <<reader, chan>>
  BY DEF Drop, DropStream
<1>3. CASE UNCHANGED <<reader, chan>>
  BY <1>1, <1>3, SameLog DEF Log
<1>. QED  BY <1>1, <1>2, <1>3, CloseLog

LEMMA QuietLog ==
    ASSUME IInv, TypeOK', Quiet
    PROVE  Bound' /\ InOrder' /\ NothingSkipped'
<1>1. /\ out' = out /\ chan' = chan /\ taken' = taken
      /\ reader = "closed" => reader' = "closed"
      /\ \A d \in Pumps :
            /\ pump'[d] = "sending" => pump[d] = "sending"
            /\ pump[d] \in {"sending", "done"} => pump'[d] \in {"sending", "done"}
  BY QuietStep DEF IInv
<1>2. Log' = Log
  BY <1>1 DEF Log
<1>. QED  BY <1>1, <1>2, SameLog

LEMMA LogStep ==
    ASSUME IInv, TypeOK', [Next]_vars
    PROVE  Bound' /\ InOrder' /\ NothingSkipped'
<1>1. \/ Quiet \/ Poll \/ Drain \/ Drop \/ DropStream
      \/ \E d \in Pumps : Read(d) \/ Send(d)
  BY DEF Next, Quiet
<1>. QED  BY <1>1, QuietLog, PopLog, DropLog, ReadLog, SendLog

\* Pumps start with the session, and stop() drains its own receiver.
LEMMA SessionStep ==
    ASSUME TypeOK, NewIsOff, DrainsOwn, [Next]_vars
    PROVE  NewIsOff' /\ DrainsOwn'
<1>1. ASSUME NEW choice \in Backends, Start(choice) PROVE NewIsOff' /\ DrainsOwn'
  <2>1. session' \in {"live", "failed"}
    BY <1>1, StartEffect
  <2>. QED  BY <2>1 DEF NewIsOff, DrainsOwn
<1>2. ASSUME NEW d \in Pumps,
             Input(d) \/ Handshake(d) \/ Read(d) \/ Send(d) \/ SeeStop(d)
               \/ SourceEnds(d) \/ Cancel(d)
      PROVE  NewIsOff' /\ DrainsOwn'
  <2>1. UNCHANGED <<reader, session>> /\ (pump' = pump \/ pump[d] # "off")
    BY <1>2, SMT DEF Input, Handshake, Read, Send, SeeStop, SourceEnds, Cancel, Gone
  <2>. QED  BY <2>1 DEF NewIsOff, DrainsOwn
<1>3. CASE Stop
  <2>1. session' # "new" /\ (session' = "draining" => reader = "session")
        /\ reader' = reader
    BY <1>3 DEF Stop
  <2>. QED  BY <2>1 DEF NewIsOff, DrainsOwn
<1>4. CASE Drop \/ DrainEnd \/ Reap
  BY <1>4 DEF Drop, DrainEnd, Reap, NewIsOff, DrainsOwn
<1>5. CASE Poll \/ PollEnd \/ DropStream \/ TakeEvents
  BY <1>5, SMT DEF Poll, PollEnd, DropStream, TakeEvents, NewIsOff, DrainsOwn
<1>6. CASE CoordBreak \/ Drain \/ UNCHANGED vars
  BY <1>6, SMT DEF CoordBreak, Drain, vars, NewIsOff, DrainsOwn
<1>. QED  BY <1>1, <1>2, <1>3, <1>4, <1>5, <1>6 DEF Next

LEMMA InvStep == IInv /\ [Next]_vars => IInv'
<1>. SUFFICES ASSUME IInv, [Next]_vars PROVE IInv'
  OBVIOUS
<1>1. TypeOK'
  BY TypeStep DEF IInv
<1>2. Bound' /\ InOrder' /\ NothingSkipped'
  BY <1>1, LogStep
<1>3. NewIsOff' /\ DrainsOwn'
  BY SessionStep DEF IInv
<1>. QED  BY <1>1, <1>2, <1>3 DEF IInv

LEMMA Inductive == Spec => []IInv
  BY InitInv, InvStep, PTL DEF Spec

\* A device's events reach the consumer in the order it made them, none twice:
\* no interleaving of pumps, stop, drop and cancellation reorders tx.send.
THEOREM Ordered == Spec => []InOrder
<1>1. IInv => InOrder
  BY DEF IInv
<1>. QED  BY <1>1, Inductive, PTL

\* As long as somebody holds the receiver, everything a pump has read is
\* delivered or queued, but for the event in its hand.
THEOREM NothingIsSkipped == Spec => []NothingSkipped
<1>1. IInv => NothingSkipped
  BY DEF IInv
<1>. QED  BY <1>1, Inductive, PTL
------------------------------------------------------------------------------
(* stop() and the portal or the script, which finish the event in hand      *)
(* before they look at the stop signal.                                     *)

\* What a pump has read is in the log, or in its hand.
AllHeld ==
    \A d \in Pumps : \A n \in 1..taken[d] :
        \/ \E i \in DOMAIN Log : Log[i] = [dev |-> d, seq |-> n]
        \/ n = taken[d] /\ pump[d] = "sending"

\* As long as the session has the receiver nobody is aborted; once stop() has
\* drained it, no pump is left and nothing is missing.
KeptInv ==
    /\ reader = "session" => session \in {"new", "failed", "live", "draining"}
    /\ session = "draining" => reader = "session"
    /\ session = "new" => reader = "session" /\ source = "none"
    /\ source # "evdev" =>
          /\ reader = "session" => "abort" \notin ending /\ AllHeld
          /\ reader = "drained" => SendersGone /\ StopReturnsAll

LEMMA KeptInit == ASSUME Init PROVE KeptInv
<1>1. AllHeld
  BY SMT DEF Init, AllHeld
<1>. QED  BY <1>1 DEF Init, KeptInv

\* Steps of the pumps while somebody can still drain.
LEMMA KeptHeld ==
    ASSUME IInv, IInv', KeptInv, source # "evdev",
           reader = "session", reader' = "session",
           \A d \in Pumps : pump'[d] = "done" => pump[d] # "sending",
           \A d \in Pumps : pump[d] = "done" =>
                              pump'[d] = "done" /\ taken'[d] = taken[d],
           \A d \in Pumps : pump'[d] = "done" => taken'[d] = taken[d],
           \A i \in DOMAIN Log : i \in DOMAIN Log' /\ Log'[i] = Log[i]
    PROVE  AllHeld'
<1>. SUFFICES ASSUME NEW d \in Pumps, NEW n \in 1..taken'[d]
              PROVE  \/ \E i \in DOMAIN Log' : Log'[i] = [dev |-> d, seq |-> n]
                     \/ n = taken'[d] /\ pump'[d] = "sending"
  BY DEF AllHeld
<1>1. \/ \E i \in DOMAIN Log' : Log'[i] = [dev |-> d, seq |-> n]
      \/ n = taken'[d] /\ pump'[d] \in {"sending", "done"}
  <2>1. reader' # "closed"
    OBVIOUS
  <2>. QED  BY <2>1 DEF IInv, NothingSkipped
<1>2. CASE pump'[d] = "done"
  <2>1. n \in 1..taken[d] /\ pump[d] # "sending"
    BY <1>2
  <2>2. \E i \in DOMAIN Log : Log[i] = [dev |-> d, seq |-> n]
    BY <2>1 DEF KeptInv, AllHeld
  <2>. QED  BY <2>2
<1>3. CASE pump'[d] # "done"
  BY <1>1, <1>3
<1>. QED  BY <1>2, <1>3

LEMMA KeptStart ==
    ASSUME IInv, KeptInv, NEW choice \in Backends, Start(choice)
    PROVE  KeptInv'
<1>1. session = "new" /\ session' \in {"live", "failed"}
  BY StartEffect DEF IInv, Start
<1>2. UNCHANGED <<taken, ending, chan, reader, out>>
  BY DEF Start
<1>3. reader = "session" /\ source # "evdev" /\ \A d \in Pumps : pump[d] = "off"
  BY <1>1 DEF IInv, NewIsOff, KeptInv
<1>4. AllHeld'
  <2>1. Log' = Log
    BY <1>2 DEF Log
  <2>. QED  BY <1>2, <1>3, <2>1 DEF AllHeld, KeptInv
<1>. QED  BY <1>1, <1>2, <1>3, <1>4 DEF KeptInv

LEMMA KeptPumps ==
    ASSUME IInv, IInv', KeptInv, NEW d \in Pumps,
           Input(d) \/ Handshake(d) \/ Read(d) \/ Send(d) \/ SeeStop(d)
             \/ SourceEnds(d) \/ Cancel(d)
    PROVE  KeptInv'
<1>. USE DEF IInv
<1>1. UNCHANGED <<source, coord, ending, reader, session, out>>
  BY SMT DEF Input, Handshake, Read, Send, SeeStop, SourceEnds, Cancel
<1>2. CASE reader = "session" /\ source # "evdev"
  <2>1. reader = "session" /\ "abort" \notin ending /\ source # "evdev"
    BY <1>2 DEF KeptInv
  <2>2. CASE Send(d)
    <3>1. /\ chan' = Append(chan, Event(d)) /\ pump[d] = "sending"
          /\ pump' = [pump EXCEPT ![d] = "run"] /\ taken' = taken
      BY <2>1, <2>2, SendEffect
    <3>2. \A e \in Pumps : pump'[e] = "done" => pump[e] # "sending"
      BY <3>1, SMT DEF TypeOK
    <3>3. \A e \in Pumps : pump[e] = "done" => pump'[e] = "done"
      BY <3>1, SMT DEF TypeOK
    <3>4. Log' = Append(Log, Event(d))
      BY <1>1, <3>1, EventType, LogAppend DEF Log, TypeOK
    <3>5. \A i \in DOMAIN Log : i \in DOMAIN Log' /\ Log'[i] = Log[i]
      BY <3>4, LogType, EventType, SMT
    <3>6. AllHeld'
      BY <1>1, <1>2, <2>1, <3>1, <3>2, <3>3, <3>5, KeptHeld
    <3>. QED  BY <1>1, <1>2, <2>1, <3>6 DEF KeptInv
  <2>3. CASE Read(d)
    <3>1. /\ chan' = chan /\ pump[d] = "run"
          /\ taken' = [taken EXCEPT ![d] = @ + 1]
          /\ pump' = [pump EXCEPT ![d] = "sending"]
      BY <2>3, SMT DEF Read, MoveTo
    <3>2. \A e \in Pumps : pump'[e] = "done" => pump[e] # "sending" /\ taken'[e] = taken[e]
      BY <3>1, SMT DEF TypeOK
    <3>3. \A e \in Pumps : pump[e] = "done" => pump'[e] = "done" /\ taken'[e] = taken[e]
      BY <3>1, SMT DEF TypeOK
    <3>4. Log' = Log
      BY <1>1, <3>1 DEF Log
    <3>5. AllHeld'
      BY <1>1, <1>2, <2>1, <3>2, <3>3, <3>4, KeptHeld
    <3>. QED  BY <1>1, <1>2, <2>1, <3>5 DEF KeptInv
  <2>4. CASE Input(d) \/ Handshake(d) \/ SeeStop(d) \/ SourceEnds(d) \/ Cancel(d)
    <3>1. chan' = chan /\ taken' = taken
      BY <2>4, SMT DEF Input, Handshake, SeeStop, SourceEnds, Cancel
    <3>2. \/ pump' = pump
          \/ /\ \E label \in {"run", "done", "unplugged"} :
                    pump' = [pump EXCEPT ![d] = label]
             /\ pump[d] # "sending" /\ pump[d] # "done"
      <4>1. CASE Input(d)
        BY <4>1 DEF Input
      <4>2. CASE Handshake(d) \/ SeeStop(d) \/ SourceEnds(d)
        BY <4>2, SMT DEF Handshake, SeeStop, SourceEnds, MoveTo
      <4>3. CASE Cancel(d)
        BY <2>1, <4>3 DEF Cancel
      <4>. QED  BY <2>4, <4>1, <4>2, <4>3
    <3>3. /\ \A e \in Pumps : pump'[e] = "done" => pump[e] # "sending"
          /\ \A e \in Pumps : pump[e] = "done" => pump'[e] = "done"
      <4>1. CASE pump' = pump
        BY <4>1, SMT DEF TypeOK
      <4>2. CASE pump' # pump
        <5>1. PICK label \in {"run", "done", "unplugged"} :
                  pump' = [pump EXCEPT ![d] = label]
          BY <3>2, <4>2
        <5>2. \A e \in Pumps : pump'[e] = IF e = d THEN label ELSE pump[e]
          BY <5>1, SMT DEF TypeOK
        <5>. QED  BY <3>2, <4>2, <5>2
      <4>. QED  BY <4>1, <4>2
    <3>4. Log' = Log
      BY <1>1, <3>1 DEF Log
    <3>5. AllHeld'
      BY <1>1, <1>2, <2>1, <3>1, <3>3, <3>4, KeptHeld
    <3>. QED  BY <1>1, <1>2, <2>1, <3>5 DEF KeptInv
  <2>. QED  BY <2>2, <2>3, <2>4
<1>3. CASE reader = "drained" /\ source # "evdev"
  <2>1. Gone(d)
    BY <1>3 DEF KeptInv, SendersGone
  <2>2. pump' = pump /\ taken' = taken
    BY <1>3, <2>1, SMT DEF Input, Handshake, Read, Send, SeeStop, SourceEnds, Cancel,
                           Gone, Ended
  <2>3. SendersGone' /\ StopReturnsAll'
    BY <1>1, <1>3, <2>2 DEF KeptInv, SendersGone, Gone, StopReturnsAll
  <2>. QED  BY <1>1, <1>3, <2>3 DEF KeptInv
<1>4. CASE reader \notin {"session", "drained"} \/ source = "evdev"
  BY <1>1, <1>4 DEF KeptInv
<1>. QED  BY <1>2, <1>3, <1>4

LEMMA KeptDrain ==
    ASSUME IInv, IInv', KeptInv, Drain
    PROVE  KeptInv'
<1>1. Pop /\ UNCHANGED <<source, taken, pump, ending, reader, session>>
      /\ session = "draining"
  BY DEF Drain
<1>2. Log' = Log
  BY <1>1, LogPop DEF Pop, Log, IInv, TypeOK
<1>. QED  BY <1>1, <1>2 DEF KeptInv, AllHeld

\* recv() says None: the channel is empty and no pump holds an event.
LEMMA KeptDrainEnd ==
    ASSUME IInv, KeptInv, DrainEnd
    PROVE  KeptInv'
<1>1. /\ session = "draining" /\ chan = <<>> /\ SendersGone /\ session' = "reaping"
      /\ reader' = "drained" /\ UNCHANGED <<source, taken, pump, out>>
  BY DEF DrainEnd
<1>2. Log = out
  BY <1>1, SMT DEF Log, IInv, TypeOK
<1>3. \A d \in Pumps : pump[d] # "sending"
  BY <1>1, SMT DEF SendersGone, Gone, Ended
<1>4. CASE source # "evdev"
  <2>1. \A d \in Pumps : \A n \in 1..taken[d] :
            \E i \in DOMAIN out : out[i] = [dev |-> d, seq |-> n]
    BY <1>1, <1>2, <1>3, <1>4 DEF KeptInv, AllHeld
  <2>2. SendersGone' /\ StopReturnsAll'
    BY <1>1, <2>1 DEF SendersGone, Gone, StopReturnsAll
  <2>. QED  BY <1>1, <2>2 DEF KeptInv
<1>. QED  BY <1>1, <1>4 DEF KeptInv

LEMMA KeptSession ==
    ASSUME IInv, KeptInv,
           \/ CoordBreak \/ TakeEvents \/ Poll \/ PollEnd \/ DropStream
           \/ Stop \/ Reap \/ Drop \/ UNCHANGED vars
    PROVE  KeptInv'
<1>1. CASE CoordBreak \/ UNCHANGED vars
  <2>1. UNCHANGED <<source, taken, pump, ending, chan, reader, session, out>>
    BY <1>1, SMT DEF CoordBreak, vars
  <2>. QED  BY <2>1 DEF KeptInv, AllHeld, Log, SendersGone, Gone, StopReturnsAll
<1>2. CASE TakeEvents \/ Poll \/ PollEnd \/ DropStream
  <2>1. session' = session /\ source' = source /\ reader' \in {"stream", "ended", "closed"}
    BY <1>2 DEF TakeEvents, Poll, PollEnd, DropStream
  <2>2. session # "draining" /\ session # "new"
    BY <1>2 DEF TakeEvents, Poll, PollEnd, DropStream, KeptInv
  <2>. QED  BY <2>1, <2>2 DEF KeptInv
<1>3. CASE Stop /\ reader = "session"
  <2>1. /\ session = "live" /\ session' = "draining" /\ ending' = ending \cup {"signal"}
        /\ UNCHANGED <<source, taken, pump, chan, reader, out>>
    BY <1>3 DEF Stop
  <2>2. source # "evdev" => AllHeld' /\ "abort" \notin ending'
    BY <1>3, <2>1 DEF KeptInv, AllHeld, Log
  <2>. QED  BY <1>3, <2>1, <2>2 DEF KeptInv
<1>4. CASE (Stop /\ reader # "session") \/ Reap
  <2>1. /\ session \in {"live", "reaping"} /\ session' \in {"reaping", "stopped"}
        /\ UNCHANGED <<source, taken, pump, reader, out>>
    BY <1>4 DEF Stop, Reap
  <2>2. reader # "session"
    BY <1>4 DEF Reap, KeptInv
  <2>3. source # "evdev" /\ reader = "drained" => SendersGone' /\ StopReturnsAll'
    BY <2>1 DEF KeptInv, SendersGone, Gone, StopReturnsAll
  <2>. QED  BY <2>1, <2>2, <2>3 DEF KeptInv
<1>5. CASE Drop
  <2>1. session' = "dropped" /\ UNCHANGED <<source, taken, pump, out>>
        /\ reader' = IF reader = "session" THEN "closed" ELSE reader
    BY <1>5 DEF Drop
  <2>2. reader' # "session" /\ (reader' = "drained" => reader = "drained")
    BY <2>1
  <2>3. source # "evdev" /\ reader = "drained" => SendersGone' /\ StopReturnsAll'
    BY <2>1 DEF KeptInv, SendersGone, Gone, StopReturnsAll
  <2>. QED  BY <2>1, <2>2, <2>3 DEF KeptInv
<1>. QED  BY <1>1, <1>2, <1>3, <1>4, <1>5

LEMMA KeptStep == ASSUME IInv, IInv', KeptInv, [Next]_vars PROVE KeptInv'
<1>1. CASE \E choice \in Backends : Start(choice)
  BY <1>1, KeptStart
<1>2. CASE \E d \in Pumps : \/ Input(d) \/ Handshake(d) \/ Read(d) \/ Send(d)
                              \/ SeeStop(d) \/ SourceEnds(d) \/ Cancel(d)
  BY <1>2, KeptPumps
<1>3. CASE Drain
  BY <1>3, KeptDrain
<1>4. CASE DrainEnd
  BY <1>4, KeptDrainEnd
<1>. QED  BY <1>1, <1>2, <1>3, <1>4, KeptSession DEF Next

\* What "Stop the recording and return everything captured so far" promises is
\* true of the portal and of the script: stop() misses nothing they have read,
\* whether the channel was full, the pump blocked on it or an event in its hand.
\* (It is not of evdev, whose device tasks are aborted.)
THEOREM StopIsComplete == Spec => []StopReturnsAll
<1>1. Init => IInv /\ KeptInv
  BY InitInv, KeptInit
<1>2. IInv /\ KeptInv /\ [Next]_vars => (IInv /\ KeptInv)'
  BY InvStep, KeptStep
<1>3. IInv /\ KeptInv => StopReturnsAll
  BY DEF IInv, KeptInv, StopReturnsAll
<1>. QED  BY <1>1, <1>2, <1>3, PTL DEF Spec

------------------------------------------------------------------------------
(* Recordings: sequences, and the sums along them.                         *)

IsSeq(s) == \E S : s \in Seq(S)

\* t is s and then e.
Adds(s, e, t) ==
    /\ IsSeq(t) /\ Len(s) \in Nat /\ Len(t) = Len(s) + 1 /\ Len(t) \in Nat
    /\ DOMAIN s = 1..Len(s) /\ DOMAIN t = 1..Len(t)
    /\ t[Len(t)] = e
    /\ \A i \in 1..Len(s) : t[i] = s[i]

\* t is s without its first.
Drops(s, t) ==
    /\ IsSeq(t) /\ Len(s) \in Nat \ {0} /\ Len(t) = Len(s) - 1 /\ Len(t) \in Nat
    /\ DOMAIN s = 1..Len(s) /\ DOMAIN t = 1..Len(t)
    /\ Head(s) = s[1]
    /\ \A i \in 1..Len(t) : t[i] = s[i + 1]

LEMMA AppendAdds == ASSUME NEW s, IsSeq(s), NEW e PROVE Adds(s, e, Append(s, e))
<1>1. PICK S : s \in Seq(S)
  BY DEF IsSeq
<1> DEFINE T == S \cup {e}
<1>2. s \in Seq(T) /\ e \in T
  BY <1>1
<1> HIDE DEF T
<1>3. Append(s, e) \in Seq(T) /\ Len(s) \in Nat /\ Len(Append(s, e)) = Len(s) + 1
  BY <1>2
<1>4. DOMAIN s = 1..Len(s) /\ DOMAIN Append(s, e) = 1..Len(Append(s, e))
  BY <1>2, <1>3
<1>5. Append(s, e)[Len(s) + 1] = e /\ \A i \in 1..Len(s) : Append(s, e)[i] = s[i]
  BY <1>2, <1>3
<1> QED BY <1>3, <1>4, <1>5 DEF Adds, IsSeq

LEMMA TailDrops == ASSUME NEW s, IsSeq(s), s # <<>> PROVE Drops(s, Tail(s))
<1>1. PICK S : s \in Seq(S)
  BY DEF IsSeq
<1>2. Tail(s) \in Seq(S) /\ Len(s) \in Nat \ {0} /\ Len(Tail(s)) = Len(s) - 1
      /\ Len(Tail(s)) \in Nat
  BY <1>1
<1>3. DOMAIN s = 1..Len(s) /\ DOMAIN Tail(s) = 1..Len(Tail(s)) /\ Head(s) = s[1]
  BY <1>1, <1>2
<1>4. \A i \in 1..Len(Tail(s)) : Tail(s)[i] = s[i + 1]
  BY <1>1, <1>2
<1> QED BY <1>2, <1>3, <1>4 DEF Drops, IsSeq

LEMMA OneIsSeq == ASSUME NEW e PROVE IsSeq(<<e>>) /\ Len(<<e>>) = 1 /\ <<e>>[1] = e
<1>1. <<e>> \in Seq({e})
  OBVIOUS
<1> QED BY <1>1 DEF IsSeq

LEMMA NoneIsSeq == IsSeq(<<>>) /\ Len(<<>>) = 0
<1>1. <<>> \in Seq({})
  OBVIOUS
<1> QED BY <1>1 DEF IsSeq

LEMMA JoinIsAppend == ASSUME NEW s, IsSeq(s), NEW e PROVE s \o <<e>> = Append(s, e)
<1>1. PICK S : s \in Seq(S)
  BY DEF IsSeq
<1>2. s \in Seq(S \cup {e})
  BY <1>1
<1> QED BY <1>2

LEMMA JoinTwo ==
    ASSUME NEW s, IsSeq(s), NEW e, NEW f
    PROVE  s \o <<e, f>> = Append(Append(s, e), f)
<1>1. PICK S : s \in Seq(S)
  BY DEF IsSeq
<1>2. s \in Seq(S \cup {e, f})
  BY <1>1
<1> QED BY <1>2

LEMMA HeadAndTail == ASSUME NEW s, IsSeq(s), s # <<>> PROVE <<Head(s)>> \o Tail(s) = s
<1>1. PICK S : s \in Seq(S)
  BY DEF IsSeq
<1> QED BY <1>1

LEMMA TailOfOne == ASSUME NEW e, NEW s, IsSeq(s)
                   PROVE  /\ IsSeq(<<e>> \o s) /\ <<e>> \o s # <<>>
                          /\ Head(<<e>> \o s) = e /\ Tail(<<e>> \o s) = s
<1>1. PICK S : s \in Seq(S)
  BY DEF IsSeq
<1> DEFINE T == S \cup {e}
<1>2. s \in Seq(T) /\ <<e>> \in Seq(T) /\ e \in T
  BY <1>1
<1> HIDE DEF T
<1>3. <<e>> \o s \in Seq(T) /\ <<e>> \o s # <<>> /\ Head(<<e>> \o s) = e
  BY <1>2
<1>4. Tail(<<e>> \o s) = s
  BY <1>2
<1> QED BY <1>3, <1>4 DEF IsSeq

LEMMA OneAndOne == ASSUME NEW e, NEW f PROVE <<e>> \o <<f>> = <<e, f>>
<1>1. IsSeq(<<e, f>>) /\ <<e, f>> # <<>> /\ Head(<<e, f>>) = e
  <2>1. <<e, f>> \in Seq({e, f}) /\ Len(<<e, f>>) = 2 /\ Head(<<e, f>>) = e
    OBVIOUS
  <2>2. <<e, f>> # <<>>
    BY <2>1, NoneIsSeq
  <2> QED BY <2>1, <2>2 DEF IsSeq
<1>2. Tail(<<e, f>>) = <<f>>
  OBVIOUS
<1> QED BY <1>1, <1>2, HeadAndTail

LEMMA OneThenAppend == ASSUME NEW e, NEW s, IsSeq(s), NEW f
                       PROVE  <<e>> \o Append(s, f) = Append(<<e>> \o s, f)
<1>1. PICK S : s \in Seq(S)
  BY DEF IsSeq
<1>2. s \in Seq(S \cup {e, f}) /\ <<e>> \in Seq(S \cup {e, f}) /\ f \in S \cup {e, f}
  BY <1>1
<1> QED BY <1>2

\* A way from a to b in n strides, the i-th of which R[i] allows.
Way(n, R, a, b) ==
    \E r : /\ r = [i \in 0..n |-> r[i]]
           /\ r[0] = a /\ r[n] = b
           /\ \A i \in 1..n : <<r[i - 1], r[i]>> \in R[i]

\* Nowhere to go without a stride.
LEMMA WayOfNone == ASSUME NEW R, NEW a, NEW b PROVE Way(0, R, a, b) <=> a = b
<1>1. ASSUME a = b PROVE Way(0, R, a, b)
  <2>1. PICK r : r = [i \in 0..0 |-> a]
    OBVIOUS
  <2>2. r = [i \in 0..0 |-> r[i]] /\ r[0] = a /\ \A i \in 1..0 : <<r[i - 1], r[i]>> \in R[i]
    BY <2>1
  <2> QED BY <1>1, <2>2 DEF Way
<1> QED BY <1>1 DEF Way

LEMMA WayAllows ==
    ASSUME NEW n \in Nat, NEW R, NEW Q, NEW a, NEW b, Way(n, R, a, b),
           \A i \in 1..n : R[i] \subseteq Q[i]
    PROVE  Way(n, Q, a, b)
  BY DEF Way

\* One stride more.
LEMMA WayGoesOn ==
    ASSUME NEW n \in Nat, NEW R, NEW Q, NEW a, NEW b, NEW c, Way(n, R, a, b),
           \A i \in 1..n : R[i] \subseteq Q[i],
           <<b, c>> \in Q[n + 1]
    PROVE  Way(n + 1, Q, a, c)
<1>1. PICK r : /\ r = [i \in 0..n |-> r[i]] /\ r[0] = a /\ r[n] = b
               /\ \A i \in 1..n : <<r[i - 1], r[i]>> \in R[i]
  BY DEF Way
<1>2. PICK t : t = [i \in 0..(n + 1) |-> IF i = n + 1 THEN c ELSE r[i]]
  OBVIOUS
<1>3. \A i \in 0..n : t[i] = r[i]
  BY <1>2
<1>4. t[0] = a /\ t[n] = b /\ t[n + 1] = c
  BY <1>1, <1>2, <1>3
<1>5. ASSUME NEW i \in 1..(n + 1) PROVE <<t[i - 1], t[i]>> \in Q[i]
  <2>1. CASE i = n + 1
    BY <1>4, <2>1
  <2>2. CASE i # n + 1
    <3>1. i \in 1..n /\ i \in 0..n /\ i - 1 \in 0..n
      BY <2>2
    <3> QED BY <1>1, <1>3, <3>1
  <2> QED BY <2>1, <2>2
<1>6. t = [i \in 0..(n + 1) |-> t[i]]
  BY <1>2
<1> QED BY <1>4, <1>5, <1>6 DEF Way

\* The first stride, and the rest.
LEMMA WayBegins ==
    ASSUME NEW n \in Nat \ {0}, NEW R, NEW Q, NEW a, NEW b, Way(n, R, a, b),
           \A i \in 1..(n - 1) : R[i + 1] \subseteq Q[i]
    PROVE  \E c : <<a, c>> \in R[1] /\ Way(n - 1, Q, c, b)
<1>1. PICK r : /\ r = [i \in 0..n |-> r[i]] /\ r[0] = a /\ r[n] = b
               /\ \A i \in 1..n : <<r[i - 1], r[i]>> \in R[i]
  BY DEF Way
<1>2. PICK t : t = [i \in 0..(n - 1) |-> r[i + 1]]
  OBVIOUS
<1>3. \A i \in 0..(n - 1) : t[i] = r[i + 1]
  BY <1>2
<1>4. t[0] = r[1] /\ t[n - 1] = b
  <2>1. 0 \in 0..(n - 1) /\ n - 1 \in 0..(n - 1) /\ 0 + 1 = 1 /\ (n - 1) + 1 = n
    OBVIOUS
  <2> QED BY <1>1, <1>3, <2>1
<1>5. ASSUME NEW i \in 1..(n - 1) PROVE <<t[i - 1], t[i]>> \in Q[i]
  <2>1. i + 1 \in 1..n /\ (i + 1) - 1 = i /\ i \in 0..(n - 1) /\ i - 1 \in 0..(n - 1)
        /\ (i - 1) + 1 = i
    OBVIOUS
  <2>2. <<r[i], r[i + 1]>> \in R[i + 1]
    BY <1>1, <2>1
  <2>3. t[i] = r[i + 1] /\ t[i - 1] = r[i]
    BY <1>3, <2>1
  <2> QED BY <2>2, <2>3
<1>6. t = [i \in 0..(n - 1) |-> t[i]]
  BY <1>2
<1>7. Way(n - 1, Q, r[1], b)
  BY <1>4, <1>5, <1>6 DEF Way
<1>8. <<a, r[1]>> \in R[1]
  <2>1. 1 \in 1..n /\ 1 - 1 = 0
    OBVIOUS
  <2> QED BY <1>1, <2>1
<1> QED BY <1>7, <1>8

LEMMA Least ==
    ASSUME NEW T, T \subseteq Nat, T # {}
    PROVE  \E m \in T : \A n \in T : m <= n
<1>1. PICK R : R = OpToRel(<, Nat)
  OBVIOUS
<1>2. IsWellFoundedOn(R, Nat)
  BY <1>1, NatLessThanWellFounded
<1>3. PICK x \in T : \A y \in T : ~(<<y, x>> \in R)
  BY <1>2, WFMin
<1>4. ASSUME NEW y \in T, y < x PROVE FALSE
  <2>1. <<y, x>> \in Nat \X Nat
    OBVIOUS
  <2>2. <<y, x>> \in R
    BY <1>1, <1>4, <2>1 DEF OpToRel
  <2> QED BY <1>3, <2>2
<1> QED BY <1>3, <1>4

\* A way whose strides are the members of s leads to their sum.
Plus(x) == {p \in Int \X Int : p[2] = p[1] + x}

\* f has the sums of the first members of s.
Sums(f, s) == f = [n \in 0..Len(s) |-> IF n = 0 THEN 0 ELSE f[n - 1] + s[n]]

LEMMA SumsAreOne ==
    ASSUME NEW s, Len(s) \in Nat, NEW f, NEW g, Sums(f, s), Sums(g, s)
    PROVE  f = g
<1> DEFINE T == {n \in 0..Len(s) : f[n] # g[n]}
<1>1. CASE T = {}
  <2>1. f = [n \in 0..Len(s) |-> f[n]] /\ g = [n \in 0..Len(s) |-> g[n]]
    BY DEF Sums
  <2>2. \A n \in 0..Len(s) : f[n] = g[n]
    BY <1>1
  <2> QED BY <2>1, <2>2
<1>2. CASE T # {}
  <2>1. T \subseteq Nat
    OBVIOUS
  <2> HIDE DEF T
  <2>2. PICK m \in T : \A n \in T : m <= n
    BY <1>2, <2>1, Least
  <2>3. m \in 0..Len(s) /\ f[m] # g[m]
    BY DEF T
  <2>4. m # 0
    BY <2>3 DEF Sums
  <2>5. m - 1 \in 0..Len(s) /\ ~(m <= m - 1)
    BY <2>3, <2>4
  <2>6. f[m - 1] = g[m - 1]
    BY <2>2, <2>5 DEF T
  <2>7. f[m] = f[m - 1] + s[m] /\ g[m] = g[m - 1] + s[m]
    BY <2>3, <2>4 DEF Sums
  <2> QED BY <2>3, <2>6, <2>7
<1> QED BY <1>1, <1>2

LEMMA WayIsTotal ==
    ASSUME NEW s, Len(s) \in Nat, NEW k, Way(Len(s), [i \in 1..Len(s) |-> Plus(s[i])], 0, k)
    PROVE  Total(s) = k
<1> DEFINE n == Len(s)
           R == [i \in 1..Len(s) |-> Plus(s[i])]
<1>1. PICK r : /\ r = [i \in 0..n |-> r[i]] /\ r[0] = 0 /\ r[n] = k
               /\ \A i \in 1..n : <<r[i - 1], r[i]>> \in R[i]
  BY DEF Way
<1>2. \A i \in 1..n : r[i] = r[i - 1] + s[i]
  BY <1>1 DEF Plus
<1>3. \A i \in 0..n : r[i] = IF i = 0 THEN 0 ELSE r[i - 1] + s[i]
  <2>1. \A i \in 0..n : i = 0 \/ i \in 1..n
    OBVIOUS
  <2> QED BY <1>1, <1>2, <2>1
<1>4. r = [i \in 0..n |-> IF i = 0 THEN 0 ELSE r[i - 1] + s[i]]
  BY <1>1, <1>3
<1>5. Sums(r, s)
  BY <1>4 DEF Sums
<1> DEFINE g == CHOOSE f : Sums(f, s)
<1>6. Sums(g, s)
  BY <1>5
<1>7. Total(s) = g[n]
  BY DEF Total, Sums
<1> HIDE DEF g
<1>8. g = r
  BY <1>5, <1>6, SumsAreOne
<1> QED BY <1>1, <1>7, <1>8

------------------------------------------------------------------------------
(* Recordings: what an evdev recording has told, and is about to tell.     *)

Masks == SUBSET {BitOf[k] : k \in ModKeys}

\* An event of the trace that a replay will do at d, if it comes that far.
Kept(e, d) ==
    /\ e.dev = d
    /\ e.rec.kind = "click" \/ (e.rec.kind = "key" /\ e.rec.code \notin ModKeys)

\* From one number to the next, which has rec in the list, in its chord if how
\* is "chords"; and nothing new.
Nexts(how, list, rec) ==
    {p \in Nat \X Nat : /\ p[2] = p[1] + 1 /\ p[2] <= Len(list)
                       /\ Agree(how = "chords", rec, list[p[2]])}
Same == {p \in Nat \X Nat : p[2] = p[1]}
Tells(how, e, d, list) == IF Kept(e, d) THEN Nexts(how, list, e.rec) ELSE Same

\* What s tells of d is what the list has after a, up to b.
Told(how, s, d, list, a, b) == Way(Len(s), [i \in 1..Len(s) |-> Tells(how, s[i], d, list)], a, b)

\* A raw event yields a record or none, under the mask of then, and has a mask
\* after it.
Yields(e) == e.type = "key" /\ e.code \notin ModKeys /\ e.value = 1
SaidBy(e, bits) == Press(e.code, bits)
BitsAfter(e, bits) ==
    IF e.type = "key" /\ e.code \in ModKeys THEN Masked(bits, BitOf[e.code], e.value) ELSE bits

\* The chords that evdev tasks record are those of the user if only one has keys.
Level == IF OneKeyboard THEN "chords" ELSE "keys"
Sure(d) == OneKeyboard /\ HasKeys(d)

Causes(e, list) ==
    {p \in (Masks \X Nat) \X (Masks \X Nat) :
        /\ p[2][1] = BitsAfter(e, p[1][1])
        /\ IF Yields(e) THEN <<p[1][2], p[2][2]>> \in Nexts(Level, list, SaidBy(e, p[1][1]))
                        ELSE <<p[1][2], p[2][2]>> \in Same}

\* What the raw events of s will tell is what the list has after a, up to b.
Caused(s, list, a, b) == Way(Len(s), [i \in 1..Len(s) |-> Causes(s[i], list)], a, b)

\* The raw events of d that have not been mapped.
Pending(d) == IF pc[d] \in {"map", "store"} THEN <<cur[d]>> \o queue[d] ELSE queue[d]

\* A raw event that d may send.
Own(d, e) ==
    /\ e.type = "key" => e.code \in KeysOf[d] /\ e.value \in 0..2
    /\ e.type = "rel" => e.code \in Axes /\ e.value \in Int

\* The types of what the evdev tasks have, and that what is pending is of their
\* devices.
EvdevSound ==
    /\ recorder \in {"evdev", "portal"}
    /\ IsSeq(trace)
    /\ pc \in [Devices -> {"idle", "map", "store", "flush"}]
    /\ DOMAIN cur = Devices /\ DOMAIN queue = Devices /\ reg \in [Devices -> Masks]
    /\ \A d \in Devices : IsSeq(queue[d])
    /\ \A d \in Devices : \A i \in 1..Len(Pending(d)) : Own(d, Pending(d)[i])
    /\ \A d \in Devices : pc[d] = "store" => cur[d].type = "key" /\ cur[d].code \in ModKeys
    /\ rel \in [Devices -> [Axes -> Int]]
    /\ moved \in [Devices -> [Axes -> Int]]
    /\ DOMAIN made = Devices /\ DOMAIN held = Devices
    /\ \A d \in Devices : IsSeq(made[d]) /\ held[d] \subseteq KeysOf[d]
    /\ mods \in Masks

\* The trace has told k of the presses of d, and what is pending will tell the
\* rest; if only d has keys, under the modifiers that were held: the shared mask
\* is the one after all that was mapped, and what is pending leads from it to the
\* modifiers held now.
EvdevTold(d) ==
    \E k \in Nat, m, n \in Masks :
        /\ Told(Level, trace, d, made[d], 0, k)
        /\ Caused(Pending(d), made[d], <<m, k>>, <<n, Len(made[d])>>)
        /\ Sure(d) => /\ m = mods /\ n = HeldBits
                      /\ pc[d] = "store" => reg[d] = mods

EvdevTells == recorder = "evdev" => \A d \in Devices : EvdevTold(d)

\* The motion of d along an axis: recorded, in the accumulator, and to come.
Slid(e, a) == IF e.type = "rel" /\ e.code = a THEN e.value ELSE 0
Recorded(s, d, a, u, v) ==
    Way(Len(s), [i \in 1..Len(s) |-> Plus(Distance(s[i], d, a))], u, v)
Coming(s, a, u, v) == Way(Len(s), [i \in 1..Len(s) |-> Plus(Slid(s[i], a))], u, v)

\* So much was recorded, and what is in the accumulator and what is pending make
\* up the rest.
MotionOf(d, a) ==
    \E k \in Int : /\ Recorded(trace, d, a, 0, k)
                   /\ Coming(Pending(d), a, k + rel[d][a], moved[d][a])
EvdevMoves == recorder = "evdev" => \A d \in Devices, a \in Axes : MotionOf(d, a)

EInv == EvdevSound /\ EvdevTells /\ EvdevMoves

------------------------------------------------------------------------------
LEMMA NextsIs ==
    ASSUME NEW how, NEW list, NEW rec, NEW j, NEW k
    PROVE  <<j, k>> \in Nexts(how, list, rec) <=>
              /\ j \in Nat /\ k \in Nat /\ k = j + 1 /\ k <= Len(list)
              /\ Agree(how = "chords", rec, list[k])
  BY DEF Nexts

LEMMA SameIs == ASSUME NEW j, NEW k PROVE <<j, k>> \in Same <=> j \in Nat /\ k = j
  BY DEF Same

LEMMA CausesIs ==
    ASSUME NEW e, NEW list, NEW j, NEW k, NEW m, NEW n
    PROVE  <<<<m, j>>, <<n, k>>>> \in Causes(e, list) <=>
              /\ m \in Masks /\ n \in Masks /\ j \in Nat /\ k \in Nat
              /\ n = BitsAfter(e, m)
              /\ IF Yields(e) THEN <<j, k>> \in Nexts(Level, list, SaidBy(e, m))
                              ELSE <<j, k>> \in Same
<1> DEFINE p == <<<<m, j>>, <<n, k>>>>
<1>1. p[1] = <<m, j>> /\ p[2] = <<n, k>>
  OBVIOUS
<1>2. p[1][1] = m /\ p[1][2] = j /\ p[2][1] = n /\ p[2][2] = k
  OBVIOUS
<1>3. p \in (Masks \X Nat) \X (Masks \X Nat) <=>
         m \in Masks /\ n \in Masks /\ j \in Nat /\ k \in Nat
  <2>1. \A S, T, u, v : <<u, v>> \in S \X T <=> u \in S /\ v \in T
    OBVIOUS
  <2>2. <<m, j>> \in Masks \X Nat <=> m \in Masks /\ j \in Nat
    BY <2>1, Zenon
  <2>3. <<n, k>> \in Masks \X Nat <=> n \in Masks /\ k \in Nat
    BY <2>1, Zenon
  <2>4. p \in (Masks \X Nat) \X (Masks \X Nat)
           <=> <<m, j>> \in Masks \X Nat /\ <<n, k>> \in Masks \X Nat
    BY <2>1, Zenon
  <2> QED BY <2>2, <2>3, <2>4
<1> HIDE DEF p
<1>4. p \in Causes(e, list) <=>
         /\ p \in (Masks \X Nat) \X (Masks \X Nat)
         /\ p[2][1] = BitsAfter(e, p[1][1])
         /\ IF Yields(e) THEN <<p[1][2], p[2][2]>> \in Nexts(Level, list, SaidBy(e, p[1][1]))
                         ELSE <<p[1][2], p[2][2]>> \in Same
  BY DEF Causes
<1>5. p \in Causes(e, list) <=>
              /\ m \in Masks /\ n \in Masks /\ j \in Nat /\ k \in Nat
              /\ n = BitsAfter(e, m)
              /\ IF Yields(e) THEN <<j, k>> \in Nexts(Level, list, SaidBy(e, m))
                              ELSE <<j, k>> \in Same
  BY <1>2, <1>3, <1>4
<1> QED BY <1>5 DEF p

LEMMA CausesPairs ==
    ASSUME NEW e, NEW list, NEW u, NEW v, <<u, v>> \in Causes(e, list)
    PROVE  /\ u \in Masks \X Nat
           /\ v \in Masks \X Nat
<1> DEFINE p == <<u, v>>
<1>1. p[1] = u /\ p[2] = v
  OBVIOUS
<1> HIDE DEF p
<1>2. p \in (Masks \X Nat) \X (Masks \X Nat)
  BY DEF p, Causes
<1> QED BY <1>1, <1>2

\* The list goes on as it was.
Extends(list, more) ==
    /\ Len(list) \in Nat /\ Len(more) \in Nat /\ Len(list) <= Len(more)
    /\ \A i \in 1..Len(list) : more[i] = list[i]

LEMMA NextsExtend ==
    ASSUME NEW how, NEW list, NEW more, Extends(list, more), NEW rec
    PROVE  Nexts(how, list, rec) \subseteq Nexts(how, more, rec)
<1>1. ASSUME NEW p \in Nexts(how, list, rec) PROVE p \in Nexts(how, more, rec)
  <2>1. /\ p \in Nat \X Nat /\ p[2] = p[1] + 1 /\ p[2] <= Len(list)
        /\ Agree(how = "chords", rec, list[p[2]])
    BY <1>1 DEF Nexts
  <2>2. p[2] \in 1..Len(list)
    BY <2>1 DEF Extends
  <2>3. p[2] <= Len(more) /\ Agree(how = "chords", rec, more[p[2]])
    BY <2>1, <2>2 DEF Extends
  <2> QED BY <2>1, <2>3 DEF Nexts
<1> QED BY <1>1

LEMMA TellsExtend ==
    ASSUME NEW how, NEW list, NEW more, Extends(list, more), NEW e, NEW d
    PROVE  Tells(how, e, d, list) \subseteq Tells(how, e, d, more)
  BY NextsExtend DEF Tells

LEMMA CausesExtend ==
    ASSUME NEW list, NEW more, Extends(list, more), NEW e
    PROVE  Causes(e, list) \subseteq Causes(e, more)
<1>1. \A rec : Nexts(Level, list, rec) \subseteq Nexts(Level, more, rec)
  BY NextsExtend
<1>2. ASSUME NEW p \in Causes(e, list) PROVE p \in Causes(e, more)
  <2>1. /\ p \in (Masks \X Nat) \X (Masks \X Nat)
        /\ p[2][1] = BitsAfter(e, p[1][1])
        /\ IF Yields(e) THEN <<p[1][2], p[2][2]>> \in Nexts(Level, list, SaidBy(e, p[1][1]))
                        ELSE <<p[1][2], p[2][2]>> \in Same
    BY <1>2 DEF Causes
  <2>2. IF Yields(e) THEN <<p[1][2], p[2][2]>> \in Nexts(Level, more, SaidBy(e, p[1][1]))
                     ELSE <<p[1][2], p[2][2]>> \in Same
    BY <1>1, <2>1
  <2> QED BY <2>1, <2>2 DEF Causes
<1> QED BY <1>2

------------------------------------------------------------------------------
LEMMA ToldExtends ==
    ASSUME NEW how, NEW s, IsSeq(s), NEW d, NEW list, NEW more, Extends(list, more), NEW a, NEW b,
           Told(how, s, d, list, a, b)
    PROVE  Told(how, s, d, more, a, b)
<1> DEFINE R == [i \in 1..Len(s) |-> Tells(how, s[i], d, list)]
           Q == [i \in 1..Len(s) |-> Tells(how, s[i], d, more)]
<1>1. Len(s) \in Nat
  BY DEF IsSeq
<1>2. \A i \in 1..Len(s) : R[i] \subseteq Q[i]
  BY TellsExtend
<1>3. Way(Len(s), R, a, b)
  BY DEF Told
<1> HIDE DEF R, Q
<1>4. Way(Len(s), Q, a, b)
  BY <1>1, <1>2, <1>3, WayAllows
<1> QED BY <1>4 DEF Told, Q

LEMMA ToldAdds ==
    ASSUME NEW how, NEW s, NEW e, NEW t, Adds(s, e, t), NEW d, NEW list, NEW a, NEW b, NEW c,
           Told(how, s, d, list, a, b), <<b, c>> \in Tells(how, e, d, list)
    PROVE  Told(how, t, d, list, a, c)
<1> DEFINE R == [i \in 1..Len(s) |-> Tells(how, s[i], d, list)]
           Q == [i \in 1..Len(t) |-> Tells(how, t[i], d, list)]
<1>1. Len(s) \in Nat /\ Len(t) = Len(s) + 1
  BY DEF Adds
<1>2. \A i \in 1..Len(s) : R[i] = Q[i]
  BY <1>1 DEF Adds
<1>3. <<b, c>> \in Q[Len(s) + 1]
  BY <1>1 DEF Adds
<1>4. Way(Len(s), R, a, b)
  BY DEF Told
<1> HIDE DEF R, Q
<1>5. Way(Len(s) + 1, Q, a, c)
  BY <1>1, <1>2, <1>3, <1>4, WayGoesOn
<1> QED BY <1>1, <1>5 DEF Told, Q

LEMMA ToldDrops ==
    ASSUME NEW how, NEW s, NEW t, Drops(s, t), NEW d, NEW list, NEW a, NEW b,
           Told(how, s, d, list, a, b)
    PROVE  \E c : <<a, c>> \in Tells(how, Head(s), d, list) /\ Told(how, t, d, list, c, b)
<1> DEFINE R == [i \in 1..Len(s) |-> Tells(how, s[i], d, list)]
           Q == [i \in 1..Len(t) |-> Tells(how, t[i], d, list)]
<1>1. Len(s) \in Nat \ {0} /\ Len(t) = Len(s) - 1
  BY DEF Drops
<1>2. \A i \in 1..(Len(s) - 1) : R[i + 1] = Q[i]
  BY <1>1 DEF Drops
<1>3. R[1] = Tells(how, Head(s), d, list)
  BY <1>1 DEF Drops
<1>4. Way(Len(s), R, a, b)
  BY DEF Told
<1> HIDE DEF R, Q
<1>5. \E c : <<a, c>> \in R[1] /\ Way(Len(s) - 1, Q, c, b)
  BY <1>1, <1>2, <1>4, WayBegins
<1> QED BY <1>1, <1>3, <1>5 DEF Told, Q

LEMMA CausedExtends ==
    ASSUME NEW s, IsSeq(s), NEW list, NEW more, Extends(list, more), NEW a, NEW b,
           Caused(s, list, a, b)
    PROVE  Caused(s, more, a, b)
<1> DEFINE R == [i \in 1..Len(s) |-> Causes(s[i], list)]
           Q == [i \in 1..Len(s) |-> Causes(s[i], more)]
<1>1. Len(s) \in Nat
  BY DEF IsSeq
<1>2. \A i \in 1..Len(s) : R[i] \subseteq Q[i]
  BY CausesExtend
<1>3. Way(Len(s), R, a, b)
  BY DEF Caused
<1> HIDE DEF R, Q
<1>4. Way(Len(s), Q, a, b)
  BY <1>1, <1>2, <1>3, WayAllows
<1> QED BY <1>4 DEF Caused, Q

LEMMA CausedAdds ==
    ASSUME NEW s, NEW e, NEW t, Adds(s, e, t), NEW list, NEW a, NEW b, NEW c,
           Caused(s, list, a, b), <<b, c>> \in Causes(e, list)
    PROVE  Caused(t, list, a, c)
<1> DEFINE R == [i \in 1..Len(s) |-> Causes(s[i], list)]
           Q == [i \in 1..Len(t) |-> Causes(t[i], list)]
<1>1. Len(s) \in Nat /\ Len(t) = Len(s) + 1
  BY DEF Adds
<1>2. \A i \in 1..Len(s) : R[i] = Q[i]
  BY <1>1 DEF Adds
<1>3. <<b, c>> \in Q[Len(s) + 1]
  BY <1>1 DEF Adds
<1>4. Way(Len(s), R, a, b)
  BY DEF Caused
<1> HIDE DEF R, Q
<1>5. Way(Len(s) + 1, Q, a, c)
  BY <1>1, <1>2, <1>3, <1>4, WayGoesOn
<1> QED BY <1>1, <1>5 DEF Caused, Q

LEMMA CausedDrops ==
    ASSUME NEW s, NEW t, Drops(s, t), NEW list, NEW a, NEW b,
           Caused(s, list, a, b)
    PROVE  \E c : <<a, c>> \in Causes(Head(s), list) /\ Caused(t, list, c, b)
<1> DEFINE R == [i \in 1..Len(s) |-> Causes(s[i], list)]
           Q == [i \in 1..Len(t) |-> Causes(t[i], list)]
<1>1. Len(s) \in Nat \ {0} /\ Len(t) = Len(s) - 1
  BY DEF Drops
<1>2. \A i \in 1..(Len(s) - 1) : R[i + 1] = Q[i]
  BY <1>1 DEF Drops
<1>3. R[1] = Causes(Head(s), list)
  BY <1>1 DEF Drops
<1>4. Way(Len(s), R, a, b)
  BY DEF Caused
<1> HIDE DEF R, Q
<1>5. \E c : <<a, c>> \in R[1] /\ Way(Len(s) - 1, Q, c, b)
  BY <1>1, <1>2, <1>4, WayBegins
<1> QED BY <1>1, <1>3, <1>5 DEF Caused, Q

LEMMA RecordedAdds ==
    ASSUME NEW s, NEW e, NEW t, Adds(s, e, t), NEW d, NEW x, NEW a, NEW b, NEW c,
           Recorded(s, d, x, a, b), <<b, c>> \in Plus(Distance(e, d, x))
    PROVE  Recorded(t, d, x, a, c)
<1> DEFINE R == [i \in 1..Len(s) |-> Plus(Distance(s[i], d, x))]
           Q == [i \in 1..Len(t) |-> Plus(Distance(t[i], d, x))]
<1>1. Len(s) \in Nat /\ Len(t) = Len(s) + 1
  BY DEF Adds
<1>2. \A i \in 1..Len(s) : R[i] = Q[i]
  BY <1>1 DEF Adds
<1>3. <<b, c>> \in Q[Len(s) + 1]
  BY <1>1 DEF Adds
<1>4. Way(Len(s), R, a, b)
  BY DEF Recorded
<1> HIDE DEF R, Q
<1>5. Way(Len(s) + 1, Q, a, c)
  BY <1>1, <1>2, <1>3, <1>4, WayGoesOn
<1> QED BY <1>1, <1>5 DEF Recorded, Q

LEMMA ComingAdds ==
    ASSUME NEW s, NEW e, NEW t, Adds(s, e, t), NEW x, NEW a, NEW b, NEW c,
           Coming(s, x, a, b), <<b, c>> \in Plus(Slid(e, x))
    PROVE  Coming(t, x, a, c)
<1> DEFINE R == [i \in 1..Len(s) |-> Plus(Slid(s[i], x))]
           Q == [i \in 1..Len(t) |-> Plus(Slid(t[i], x))]
<1>1. Len(s) \in Nat /\ Len(t) = Len(s) + 1
  BY DEF Adds
<1>2. \A i \in 1..Len(s) : R[i] = Q[i]
  BY <1>1 DEF Adds
<1>3. <<b, c>> \in Q[Len(s) + 1]
  BY <1>1 DEF Adds
<1>4. Way(Len(s), R, a, b)
  BY DEF Coming
<1> HIDE DEF R, Q
<1>5. Way(Len(s) + 1, Q, a, c)
  BY <1>1, <1>2, <1>3, <1>4, WayGoesOn
<1> QED BY <1>1, <1>5 DEF Coming, Q

LEMMA ComingDrops ==
    ASSUME NEW s, NEW t, Drops(s, t), NEW x, NEW a, NEW b,
           Coming(s, x, a, b)
    PROVE  \E c : <<a, c>> \in Plus(Slid(Head(s), x)) /\ Coming(t, x, c, b)
<1> DEFINE R == [i \in 1..Len(s) |-> Plus(Slid(s[i], x))]
           Q == [i \in 1..Len(t) |-> Plus(Slid(t[i], x))]
<1>1. Len(s) \in Nat \ {0} /\ Len(t) = Len(s) - 1
  BY DEF Drops
<1>2. \A i \in 1..(Len(s) - 1) : R[i + 1] = Q[i]
  BY <1>1 DEF Drops
<1>3. R[1] = Plus(Slid(Head(s), x))
  BY <1>1 DEF Drops
<1>4. Way(Len(s), R, a, b)
  BY DEF Coming
<1> HIDE DEF R, Q
<1>5. \E c : <<a, c>> \in R[1] /\ Way(Len(s) - 1, Q, c, b)
  BY <1>1, <1>2, <1>4, WayBegins
<1> QED BY <1>1, <1>3, <1>5 DEF Coming, Q

------------------------------------------------------------------------------
(* Recordings: the raw events of a device.                                 *)

LEMMA PendingIsSeq == ASSUME EvdevSound, NEW d \in Devices PROVE IsSeq(Pending(d))
<1>1. IsSeq(queue[d])
  BY DEF EvdevSound
<1>2. PICK q : q = queue[d]
  OBVIOUS
<1>3. PICK c : c = cur[d]
  OBVIOUS
<1>4. IsSeq(<<c>> \o q)
  BY <1>1, <1>2, TailOfOne
<1> QED BY <1>1, <1>2, <1>3, <1>4 DEF Pending

\* The kernel has one raw event more.
LEMMA PendingAdds ==
    ASSUME EvdevSound, NEW d \in Devices, NEW e,
           queue' = [queue EXCEPT ![d] = @ \o <<e>>], UNCHANGED <<pc, cur>>
    PROVE  /\ Adds(Pending(d), e, Pending(d)')
           /\ IsSeq(queue'[d])
           /\ \A x \in Devices : x # d => Pending(x)' = Pending(x) /\ queue'[x] = queue[x]
<1>1. PICK q : q = queue[d]
  OBVIOUS
<1>2. PICK c : c = cur[d]
  OBVIOUS
<1>3. IsSeq(q) /\ DOMAIN queue = Devices
  BY <1>1 DEF EvdevSound
<1>4. queue'[d] = Append(q, e)
  <2>1. queue'[d] = q \o <<e>>
    BY <1>1, <1>3
  <2>2. q \o <<e>> = Append(q, e)
    BY <1>3, JoinIsAppend
  <2> QED BY <2>1, <2>2
<1>5. Adds(q, e, Append(q, e)) /\ IsSeq(Append(q, e))
  BY <1>3, AppendAdds DEF Adds
<1>6. Adds(<<c>> \o q, e, <<c>> \o Append(q, e))
  <2>1. <<c>> \o Append(q, e) = Append(<<c>> \o q, e)
    BY <1>3, OneThenAppend
  <2>2. IsSeq(<<c>> \o q)
    BY <1>3, TailOfOne
  <2>3. PICK s : s = <<c>> \o q
    OBVIOUS
  <2>4. Adds(s, e, Append(s, e))
    BY <2>2, <2>3, AppendAdds
  <2> QED BY <2>1, <2>3, <2>4
<1>7. Adds(Pending(d), e, Pending(d)')
  <2>1. pc'[d] = pc[d] /\ cur'[d] = c
    BY <1>2
  <2>2. CASE pc[d] \in {"map", "store"}
    <3>1. Pending(d) = <<c>> \o q /\ Pending(d)' = <<c>> \o Append(q, e)
      BY <1>1, <1>2, <1>4, <2>1, <2>2 DEF Pending
    <3> QED BY <1>6, <3>1
  <2>3. CASE pc[d] \notin {"map", "store"}
    <3>1. Pending(d) = q /\ Pending(d)' = Append(q, e)
      BY <1>1, <1>4, <2>1, <2>3 DEF Pending
    <3> QED BY <1>5, <3>1
  <2> QED BY <2>2, <2>3
<1>8. ASSUME NEW x \in Devices, x # d PROVE Pending(x)' = Pending(x) /\ queue'[x] = queue[x]
  <2>1. queue'[x] = queue[x]
    BY <1>3, <1>8
  <2> QED BY <2>1 DEF Pending
<1> QED BY <1>4, <1>5, <1>7, <1>8

\* It has two more.
LEMMA PendingAddsTwo ==
    ASSUME EvdevSound, NEW d \in Devices, NEW e, NEW f,
           queue' = [queue EXCEPT ![d] = @ \o <<e, f>>], UNCHANGED <<pc, cur>>
    PROVE  /\ \E s : Adds(Pending(d), e, s) /\ Adds(s, f, Pending(d)')
           /\ IsSeq(queue'[d])
           /\ \A x \in Devices : x # d => Pending(x)' = Pending(x) /\ queue'[x] = queue[x]
<1>1. PICK q : q = queue[d]
  OBVIOUS
<1>2. PICK c : c = cur[d]
  OBVIOUS
<1>3. IsSeq(q) /\ DOMAIN queue = Devices
  BY <1>1 DEF EvdevSound
<1>4. PICK r : r = Append(q, e)
  OBVIOUS
<1>5. IsSeq(r) /\ Adds(q, e, r)
  BY <1>3, <1>4, AppendAdds DEF Adds
<1>6. queue'[d] = Append(r, f)
  <2>1. queue'[d] = q \o <<e, f>>
    BY <1>1, <1>3
  <2>2. q \o <<e, f>> = Append(r, f)
    BY <1>3, <1>4, JoinTwo
  <2> QED BY <2>1, <2>2
<1>7. Adds(r, f, Append(r, f)) /\ IsSeq(Append(r, f))
  BY <1>5, AppendAdds DEF Adds
<1>8. PICK s : s = <<c>> \o q
  OBVIOUS
<1>9. IsSeq(s)
  BY <1>3, <1>8, TailOfOne
<1>10. PICK t : t = Append(s, e)
  OBVIOUS
<1>11. Adds(s, e, t) /\ IsSeq(t) /\ Adds(t, f, Append(t, f))
  BY <1>9, <1>10, AppendAdds DEF Adds
<1>12. <<c>> \o Append(r, f) = Append(t, f)
  <2>1. <<c>> \o Append(r, f) = Append(<<c>> \o r, f)
    BY <1>5, OneThenAppend
  <2>2. <<c>> \o r = Append(s, e)
    BY <1>3, <1>4, <1>8, OneThenAppend
  <2> QED BY <1>10, <2>1, <2>2
<1>13. pc'[d] = pc[d] /\ cur'[d] = c
  BY <1>2
<1>14. \E z : Adds(Pending(d), e, z) /\ Adds(z, f, Pending(d)')
  <2>1. CASE pc[d] \in {"map", "store"}
    <3>1. Pending(d) = s /\ Pending(d)' = Append(t, f)
      BY <1>1, <1>2, <1>6, <1>8, <1>12, <1>13, <2>1 DEF Pending
    <3> QED BY <1>11, <3>1
  <2>2. CASE pc[d] \notin {"map", "store"}
    <3>1. Pending(d) = q /\ Pending(d)' = Append(r, f)
      BY <1>1, <1>6, <1>13, <2>2 DEF Pending
    <3> QED BY <1>5, <1>7, <3>1
  <2> QED BY <2>1, <2>2
<1>15. ASSUME NEW x \in Devices, x # d PROVE Pending(x)' = Pending(x) /\ queue'[x] = queue[x]
  <2>1. queue'[x] = queue[x]
    BY <1>3, <1>15
  <2> QED BY <2>1 DEF Pending
<1> QED BY <1>6, <1>7, <1>14, <1>15

\* A task takes an event in hand: it is pending as before.
LEMMA TakePending ==
    ASSUME EvdevSound, NEW d \in Devices, Take(d)
    PROVE  /\ \A x \in Devices : Pending(x)' = Pending(x)
           /\ \A x \in Devices : IsSeq(queue'[x])
<1>1. PICK q : q = queue[d]
  OBVIOUS
<1>2. IsSeq(q) /\ q # <<>> /\ DOMAIN queue = Devices /\ DOMAIN cur = Devices
      /\ pc \in [Devices -> {"idle", "map", "store", "flush"}] /\ pc[d] = "idle"
  BY <1>1 DEF EvdevSound, Take
<1>3. cur'[d] = Head(q) /\ queue'[d] = Tail(q) /\ pc'[d] = "map"
  BY <1>1, <1>2 DEF Take
<1>4. Pending(d)' = Pending(d)
  <2>1. Pending(d) = q
    BY <1>1, <1>2 DEF Pending
  <2>2. Pending(d)' = <<Head(q)>> \o Tail(q)
    BY <1>3 DEF Pending
  <2>3. <<Head(q)>> \o Tail(q) = q
    BY <1>2, HeadAndTail
  <2> QED BY <2>1, <2>2, <2>3
<1>5. ASSUME NEW x \in Devices, x # d
      PROVE  pc'[x] = pc[x] /\ cur'[x] = cur[x] /\ queue'[x] = queue[x]
  BY <1>2, <1>5 DEF Take
<1>6. \A x \in Devices : x # d => Pending(x)' = Pending(x)
  BY <1>5 DEF Pending
<1>7. IsSeq(Tail(q))
  BY <1>2, TailDrops DEF Drops
<1>8. \A x \in Devices : IsSeq(queue'[x])
  BY <1>3, <1>5, <1>7 DEF EvdevSound
<1> QED BY <1>4, <1>6, <1>8

\* It is done with the event.
LEMMA MapPending ==
    ASSUME EvdevSound, NEW d \in Devices, pc[d] \in {"map", "store"},
           NEW label \in {"idle", "flush"}, pc' = [pc EXCEPT ![d] = label],
           UNCHANGED <<queue, cur>>
    PROVE  /\ Drops(Pending(d), Pending(d)')
           /\ Head(Pending(d)) = cur[d]
           /\ \A x \in Devices : x # d => Pending(x)' = Pending(x)
<1>1. PICK q : q = queue[d]
  OBVIOUS
<1>2. PICK c : c = cur[d]
  OBVIOUS
<1>3. IsSeq(q) /\ pc \in [Devices -> {"idle", "map", "store", "flush"}]
  BY <1>1 DEF EvdevSound
<1>4. pc'[d] = label /\ \A x \in Devices : x # d => pc'[x] = pc[x]
  BY <1>3
<1>5. Pending(d) = <<c>> \o q
  BY <1>1, <1>2 DEF Pending
<1>6. Pending(d)' = q
  BY <1>1, <1>4 DEF Pending
<1>7. IsSeq(<<c>> \o q) /\ <<c>> \o q # <<>> /\ Head(<<c>> \o q) = c /\ Tail(<<c>> \o q) = q
  BY <1>3, TailOfOne
<1>8. PICK s : s = <<c>> \o q
  OBVIOUS
<1>9. Drops(s, Tail(s))
  BY <1>7, <1>8, TailDrops
<1> QED BY <1>2, <1>4, <1>5, <1>6, <1>7, <1>8, <1>9 DEF Pending

------------------------------------------------------------------------------
(* Recordings: the modifiers that are held.                                *)

LEMMA BitsFollow ==
    ASSUME EvdevSound, OneKeyboard, NEW d \in Devices, NEW k \in KeysOf[d],
           NEW value \in 0..2, Strikes(d, k, value)
    PROVE  HeldBits' = BitsAfter(Raw("key", k, value), HeldBits)
<1> DEFINE down == UNION Range(held)
           next == UNION Range(held)'
<1>1. DOMAIN held = Devices /\ \A x \in Devices : held[x] \subseteq KeysOf[x]
  BY DEF EvdevSound
<1>2. held' = [held EXCEPT ![d] = IF value = 0 THEN @ \ {k} ELSE @ \cup {k}]
      /\ ((k \in held[d]) <=> (value # 1))
  BY DEF Strikes
<1>3. DOMAIN held' = Devices /\ held'[d] = (IF value = 0 THEN held[d] \ {k} ELSE held[d] \cup {k})
      /\ \A x \in Devices : x # d => held'[x] = held[x]
  BY <1>1, <1>2
<1>4. \A j : j \in down <=> \E x \in Devices : j \in held[x]
  BY <1>1 DEF Range
<1>5. \A j : j \in next <=> \E x \in Devices : j \in held'[x]
  BY <1>3 DEF Range
<1>6. HeldBits = {BitOf[j] : j \in down \cap ModKeys}
      /\ HeldBits' = {BitOf[j] : j \in next \cap ModKeys}
  BY DEF HeldBits
<1> HIDE DEF down, next
<1>7. ASSUME NEW j \in ModKeys, NEW x \in Devices, j \in held[x] PROVE HasKeys(x)
  BY <1>1, <1>7, DeskAssumption DEF HasKeys, ModKeys
<1>8. \A j : j # k => (j \in next <=> j \in down)
  BY <1>3, <1>4, <1>5
<1>9. CASE k \notin ModKeys
  <2>1. BitsAfter(Raw("key", k, value), HeldBits) = HeldBits
    BY <1>9 DEF BitsAfter, Raw
  <2>2. next \cap ModKeys = down \cap ModKeys
    BY <1>8, <1>9
  <2> QED BY <1>6, <2>1, <2>2
<1>10. CASE k \in ModKeys /\ value # 0
  <2>1. BitsAfter(Raw("key", k, value), HeldBits) = HeldBits \cup {BitOf[k]}
    BY <1>10 DEF BitsAfter, Raw, Masked
  <2>2. k \in next
    BY <1>3, <1>5, <1>10
  <2>3. next \cap ModKeys = (down \cap ModKeys) \cup {k}
    BY <1>8, <1>10, <2>2
  <2> QED BY <1>6, <2>1, <2>3
<1>11. CASE k \in ModKeys /\ value = 0
  <2>1. BitsAfter(Raw("key", k, value), HeldBits) = HeldBits \ {BitOf[k]}
    BY <1>11 DEF BitsAfter, Raw, Masked
  <2>2. k \in held[d]
    BY <1>2, <1>11
  <2>3. HasKeys(d)
    BY <1>7, <1>11, <2>2
  <2>4. k \notin next
    <3>1. SUFFICES ASSUME NEW x \in Devices, k \in held'[x] PROVE FALSE
      BY <1>5
    <3>2. x # d
      BY <1>3, <1>11, <3>1
    <3>3. k \in held[x]
      BY <1>3, <3>1, <3>2
    <3>4. HasKeys(x)
      BY <1>7, <1>11, <3>3
    <3> QED BY <2>3, <3>2, <3>4 DEF OneKeyboard, OwnBits
  <2>5. next \cap ModKeys = (down \cap ModKeys) \ {k}
    BY <1>8, <2>4
  <2>6. ASSUME NEW j \in ModKeys, BitOf[j] = BitOf[k] PROVE j = k
    BY <1>11, <2>6 DEF OneKeyboard, OwnBits
  <2>7. {BitOf[j] : j \in (down \cap ModKeys) \ {k}}
           = {BitOf[j] : j \in down \cap ModKeys} \ {BitOf[k]}
    BY <2>6
  <2> QED BY <1>6, <2>1, <2>5, <2>7
<1> QED BY <1>9, <1>10, <1>11

LEMMA HeldIsMask == HeldBits \in Masks
  BY DEF HeldBits, Masks

------------------------------------------------------------------------------
(* Recordings: what the user does at a device that evdev records.          *)

LEMMA OwnAdds ==
    ASSUME NEW d, NEW s, NEW e, NEW t, Adds(s, e, t), Own(d, e),
           \A i \in 1..Len(s) : Own(d, s[i])
    PROVE  \A i \in 1..Len(t) : Own(d, t[i])
<1>1. ASSUME NEW i \in 1..Len(t) PROVE Own(d, t[i])
  <2>1. CASE i = Len(t)
    BY <2>1 DEF Adds
  <2>2. CASE i # Len(t)
    <3>1. i \in 1..Len(s)
      BY <2>2 DEF Adds
    <3> QED BY <3>1 DEF Adds
  <2> QED BY <2>1, <2>2
<1> QED BY <1>1

LEMMA OwnDrops ==
    ASSUME NEW d, NEW s, NEW t, Drops(s, t), \A i \in 1..Len(s) : Own(d, s[i])
    PROVE  Own(d, Head(s)) /\ \A i \in 1..Len(t) : Own(d, t[i])
<1>1. \A i \in 1..Len(t) : i + 1 \in 1..Len(s)
  BY DEF Drops
<1>2. 1 \in 1..Len(s)
  BY DEF Drops
<1> QED BY <1>1, <1>2 DEF Drops

LEMMA AddsExtends == ASSUME NEW s, NEW e, NEW t, Adds(s, e, t) PROVE Extends(s, t)
  BY DEF Adds, Extends

\* A record that is made is the last of its list.
LEMMA MadeAdds ==
    ASSUME EvdevSound, NEW d \in Devices, NEW r, made' = [made EXCEPT ![d] = Append(@, r)]
    PROVE  /\ Adds(made[d], r, made'[d]) /\ IsSeq(made'[d])
           /\ DOMAIN made' = Devices
           /\ \A x \in Devices : x # d => made'[x] = made[x]
<1>1. PICK s : s = made[d]
  OBVIOUS
<1>2. IsSeq(s) /\ DOMAIN made = Devices
  BY <1>1 DEF EvdevSound
<1>3. made'[d] = Append(s, r)
  BY <1>1, <1>2
<1>4. Adds(s, r, Append(s, r))
  BY <1>2, AppendAdds
<1> QED BY <1>1, <1>2, <1>3, <1>4 DEF Adds

\* A raw event that has just come in.
LEMMA CausesOne ==
    ASSUME NEW e, NEW list, NEW r, NEW more, Adds(list, r, more), NEW n \in Masks,
           Yields(e), Agree(Level = "chords", SaidBy(e, n), r),
           NEW o \in Masks, o = BitsAfter(e, n)
    PROVE  <<<<n, Len(list)>>, <<o, Len(more)>>>> \in Causes(e, more)
<1>1. <<Len(list), Len(more)>> \in Nexts(Level, more, SaidBy(e, n))
  BY NextsIs DEF Adds
<1>2. Len(list) \in Nat /\ Len(more) \in Nat
  BY DEF Adds
<1> QED BY <1>1, <1>2, CausesIs

\* A press is recorded as it was made if the mask is that of then, or nobody asks.
LEMMA PressesAgree ==
    ASSUME NEW how, NEW k, NEW m, NEW n, how = "chords" => k \in Buttons \/ m = n
    PROVE  Agree(how = "chords", Press(k, m), Press(k, n))
<1>1. Press(k, m).kind = Press(k, n).kind /\ Press(k, m).code = Press(k, n).code
  BY DEF Press, Record
<1>2. how = "chords" => Press(k, m) = Press(k, n)
  BY DEF Press
<1> QED BY <1>1, <1>2 DEF Agree

LEMMA CausesNone ==
    ASSUME NEW e, NEW list, NEW k \in Nat, NEW n \in Masks, ~Yields(e),
           NEW o \in Masks, o = BitsAfter(e, n)
    PROVE  <<<<n, k>>, <<o, k>>>> \in Causes(e, list)
  BY CausesIs, SameIs

\* What has been told, and is to be told, of a list that goes on.
LEMMA StoryGoesOn ==
    ASSUME NEW s, IsSeq(s), NEW p, IsSeq(p), NEW d, NEW list, NEW more, Extends(list, more),
           NEW k, NEW m, NEW n, NEW o, NEW e, NEW q, Adds(p, e, q),
           Told(Level, s, d, list, 0, k), Caused(p, list, <<m, k>>, <<n, Len(list)>>),
           <<<<n, Len(list)>>, <<o, Len(more)>>>> \in Causes(e, more)
    PROVE  Told(Level, s, d, more, 0, k) /\ Caused(q, more, <<m, k>>, <<o, Len(more)>>)
<1>1. Told(Level, s, d, more, 0, k)
  BY ToldExtends
<1>2. Caused(p, more, <<m, k>>, <<n, Len(list)>>)
  BY CausedExtends
<1> DEFINE b == <<n, Len(list)>>
           c == <<o, Len(more)>>
           a == <<m, k>>
<1>3. <<b, c>> \in Causes(e, more) /\ Caused(p, more, a, b)
  BY <1>2
<1> HIDE DEF a, b, c
<1>4. Caused(q, more, a, c)
  BY <1>3, CausedAdds
<1> QED BY <1>1, <1>4 DEF a, c

LEMMA StrikePending ==
    ASSUME EvdevSound, NEW d \in Devices, NEW k \in KeysOf[d], NEW value \in 0..2,
           Strike(d, k, value)
    PROVE  /\ Adds(Pending(d), Raw("key", k, value), Pending(d)')
           /\ IsSeq(queue'[d])
           /\ \A x \in Devices : x # d => Pending(x)' = Pending(x) /\ queue'[x] = queue[x]
<1>1. queue' = [queue EXCEPT ![d] = @ \o <<Raw("key", k, value)>>] /\ UNCHANGED <<pc, cur>>
  BY DEF Strike, Cause, task
<1>2. PICK e : e = Raw("key", k, value)
  OBVIOUS
<1>3. queue' = [queue EXCEPT ![d] = @ \o <<e>>]
  BY <1>1, <1>2
<1>4. Adds(Pending(d), e, Pending(d)') /\ IsSeq(queue'[d])
      /\ \A x \in Devices : x # d => Pending(x)' = Pending(x) /\ queue'[x] = queue[x]
  BY <1>1, <1>3, PendingAdds
<1> QED BY <1>2, <1>4

LEMMA StrikeMade ==
    ASSUME EvdevSound, NEW d \in Devices, NEW k, NEW value, Strikes(d, k, value)
    PROVE  /\ DOMAIN made' = Devices
           /\ \A x \in Devices : IsSeq(made'[x]) /\ Extends(made[x], made'[x])
           /\ \A x \in Devices : x # d => made'[x] = made[x]
           /\ IF value = 1 /\ k \notin ModKeys THEN Adds(made[d], Press(k, HeldBits), made'[d])
                                               ELSE made'[d] = made[d]
<1>1. \A x \in Devices : IsSeq(made[x]) /\ Extends(made[x], made[x])
  <2>1. \A x \in Devices : IsSeq(made[x]) /\ Len(made[x]) \in Nat
    BY DEF EvdevSound, IsSeq
  <2> QED BY <2>1 DEF Extends
<1>2. CASE value = 1 /\ k \notin ModKeys
  <2>1. PICK r : r = Press(k, HeldBits)
    OBVIOUS
  <2>2. made' = [made EXCEPT ![d] = Append(@, r)]
    BY <1>2, <2>1 DEF Strikes
  <2>3. Adds(made[d], r, made'[d]) /\ IsSeq(made'[d]) /\ DOMAIN made' = Devices
        /\ \A x \in Devices : x # d => made'[x] = made[x]
    BY <2>2, MadeAdds
  <2>4. Extends(made[d], made'[d])
    BY <2>3, AddsExtends
  <2> QED BY <1>1, <1>2, <2>1, <2>3, <2>4
<1>3. CASE ~(value = 1 /\ k \notin ModKeys)
  <2>1. made' = made
    BY <1>3 DEF Strikes
  <2> QED BY <1>1, <1>3, <2>1 DEF EvdevSound
<1> QED BY <1>2, <1>3

LEMMA StrikeSound ==
    ASSUME EvdevSound, UNCHANGED recorder, NEW d \in Devices, NEW k \in KeysOf[d],
           NEW value \in 0..2, Strike(d, k, value)
    PROVE  EvdevSound'
<1>1. UNCHANGED <<trace, pc, cur, reg, rel, mods, moved>> /\ Strikes(d, k, value)
  BY DEF Strike, Cause, task
<1>2. /\ Adds(Pending(d), Raw("key", k, value), Pending(d)')
      /\ IsSeq(queue'[d])
      /\ \A x \in Devices : x # d => Pending(x)' = Pending(x) /\ queue'[x] = queue[x]
  BY StrikePending
<1>3. Own(d, Raw("key", k, value))
  BY DEF Own, Raw
<1>4. \A i \in 1..Len(Pending(d)') : Own(d, Pending(d)'[i])
  <2>1. PICK s : s = Pending(d)
    OBVIOUS
  <2>2. PICK t : t = Pending(d)'
    OBVIOUS
  <2>3. PICK e : e = Raw("key", k, value)
    OBVIOUS
  <2>4. Adds(s, e, t) /\ Own(d, e) /\ \A i \in 1..Len(s) : Own(d, s[i])
    BY <1>2, <1>3, <2>1, <2>2, <2>3 DEF EvdevSound
  <2> QED BY <2>2, <2>4, OwnAdds
<1>5. \A x \in Devices : \A i \in 1..Len(Pending(x)') : Own(x, Pending(x)'[i])
  BY <1>2, <1>4 DEF EvdevSound
<1>6. DOMAIN queue' = Devices /\ \A x \in Devices : IsSeq(queue'[x])
  <2>1. DOMAIN queue' = DOMAIN queue
    BY DEF Strike, Cause
  <2> QED BY <1>2, <2>1 DEF EvdevSound
<1>7. DOMAIN made' = Devices /\ \A x \in Devices : IsSeq(made'[x])
  BY <1>1, StrikeMade
<1>8. DOMAIN held' = Devices /\ \A x \in Devices : held'[x] \subseteq KeysOf[x]
  BY <1>1 DEF EvdevSound, Strikes
<1> QED BY <1>1, <1>5, <1>6, <1>7, <1>8 DEF EvdevSound

LEMMA StrikeTold ==
    ASSUME EvdevSound, NEW d \in Devices, NEW k \in KeysOf[d],
           NEW value \in 0..2, Strike(d, k, value), NEW x \in Devices, EvdevTold(x)
    PROVE  EvdevTold(x)'
<1>1. UNCHANGED <<trace, pc, cur, reg, rel, mods, moved>> /\ Strikes(d, k, value)
  BY DEF Strike, Cause, task
<1>2. /\ Adds(Pending(d), Raw("key", k, value), Pending(d)')
      /\ \A y \in Devices : y # d => Pending(y)' = Pending(y)
  BY StrikePending
<1>3. OneKeyboard => HeldBits' = BitsAfter(Raw("key", k, value), HeldBits)
  BY <1>1, BitsFollow
<1>4. PICK j \in Nat, m \in Masks, n \in Masks :
        /\ Told(Level, trace, x, made[x], 0, j)
        /\ Caused(Pending(x), made[x], <<m, j>>, <<n, Len(made[x])>>)
        /\ Sure(x) => /\ m = mods /\ n = HeldBits
                      /\ pc[x] = "store" => reg[x] = mods
  BY DEF EvdevTold
<1>5. ~HasKeys(d) => k \in Buttons /\ k \notin ModKeys
  BY DeskAssumption DEF HasKeys, ModKeys
<1>6. CASE x # d
  <2>1. made'[x] = made[x] /\ Pending(x)' = Pending(x)
    BY <1>1, <1>2, <1>6, StrikeMade
  <2>2. Sure(x) => HeldBits' = HeldBits
    <3>1. SUFFICES ASSUME Sure(x) PROVE HeldBits' = HeldBits
      OBVIOUS
    <3>2. k \notin ModKeys
      BY <1>5, <1>6, <3>1 DEF Sure, OneKeyboard, OwnBits
    <3> QED BY <1>3, <3>1, <3>2 DEF Sure, BitsAfter, Raw
  <2> QED BY <1>1, <1>4, <2>1, <2>2 DEF EvdevTold
<1>7. CASE x = d
  <2>1. PICK e : e = Raw("key", k, value)
    OBVIOUS
  <2>2. e.type = "key" /\ e.code = k /\ e.value = value
    BY <2>1 DEF Raw
  <2>3. PICK o : o = BitsAfter(e, n)
    OBVIOUS
  <2>4. o \in Masks
    BY <2>2, <2>3 DEF BitsAfter, Masked, Masks
  <2>5. Sure(d) => o = HeldBits'
    BY <1>3, <1>4, <1>7, <2>1, <2>3 DEF Sure
  <2>6. Extends(made[d], made'[d])
    BY <1>1, StrikeMade
  <2>7. <<<<n, Len(made[d])>>, <<o, Len(made'[d])>>>> \in Causes(e, made'[d])
    <3>1. CASE value = 1 /\ k \notin ModKeys
      <4>1. Adds(made[d], Press(k, HeldBits), made'[d])
        BY <1>1, <3>1, StrikeMade
      <4>2. PICK h : h = HeldBits
        OBVIOUS
      <4>3. Level = "chords" => k \in Buttons \/ n = h
        BY <1>4, <1>5, <1>7, <4>2 DEF Level, Sure
      <4>4. Agree(Level = "chords", Press(k, n), Press(k, h))
        BY <4>3, PressesAgree
      <4>5. Yields(e) /\ SaidBy(e, n) = Press(k, n)
        BY <2>2, <3>1 DEF Yields, SaidBy
      <4>6. PICK r : r = Press(k, h)
        OBVIOUS
      <4>7. Adds(made[d], r, made'[d]) /\ Agree(Level = "chords", SaidBy(e, n), r)
        BY <4>1, <4>2, <4>5, <4>6, <4>4
      <4>8. PICK list : list = made[d]
        OBVIOUS
      <4>9. PICK more : more = made'[d]
        OBVIOUS
      <4>10. <<<<n, Len(list)>>, <<o, Len(more)>>>> \in Causes(e, more)
        BY <2>3, <2>4, <4>5, <4>7, <4>8, <4>9, CausesOne
      <4> QED BY <4>8, <4>9, <4>10
    <3>2. CASE ~(value = 1 /\ k \notin ModKeys)
      <4>1. made'[d] = made[d]
        BY <1>1, <3>2, StrikeMade
      <4>2. ~Yields(e)
        BY <2>2, <3>2 DEF Yields
      <4>3. Len(made[d]) \in Nat
        BY <2>6 DEF Extends
      <4>4. PICK list : list = made[d]
        OBVIOUS
      <4>5. <<<<n, Len(list)>>, <<o, Len(list)>>>> \in Causes(e, list)
        BY <2>3, <2>4, <4>2, <4>3, <4>4, CausesNone
      <4> QED BY <4>1, <4>4, <4>5
    <3> QED BY <3>1, <3>2
  <2>8. Told(Level, trace, d, made'[d], 0, j)
        /\ Caused(Pending(d)', made'[d], <<m, j>>, <<o, Len(made'[d])>>)
    <3>1. PICK p : p = Pending(d)
      OBVIOUS
    <3>2. PICK q : q = Pending(d)'
      OBVIOUS
    <3>3. PICK list : list = made[d]
      OBVIOUS
    <3>4. PICK more : more = made'[d]
      OBVIOUS
    <3>5. PICK s : s = trace
      OBVIOUS
    <3>6. IsSeq(s) /\ IsSeq(p)
      BY <3>1, <3>5, PendingIsSeq DEF EvdevSound
    <3>7. Adds(p, e, q) /\ Extends(list, more)
      BY <1>2, <2>1, <2>6, <3>1, <3>2, <3>3, <3>4
    <3>8. Told(Level, s, d, list, 0, j) /\ Caused(p, list, <<m, j>>, <<n, Len(list)>>)
      BY <1>4, <1>7, <3>1, <3>3, <3>5
    <3>9. <<<<n, Len(list)>>, <<o, Len(more)>>>> \in Causes(e, more)
      BY <2>7, <3>3, <3>4
    <3>10. Told(Level, s, d, more, 0, j) /\ Caused(q, more, <<m, j>>, <<o, Len(more)>>)
      BY <3>6, <3>7, <3>8, <3>9, StoryGoesOn
    <3> QED BY <3>2, <3>4, <3>5, <3>10
  <2> QED BY <1>1, <1>4, <1>7, <2>4, <2>5, <2>8 DEF EvdevTold
<1> QED BY <1>6, <1>7

LEMMA ComingAddsOne ==
    ASSUME NEW s, NEW e, NEW t, Adds(s, e, t), NEW a, NEW u, NEW v \in Int,
           Coming(s, a, u, v), NEW w \in Int, w = v + Slid(e, a)
    PROVE  Coming(t, a, u, w)
<1>1. <<v, w>> \in Plus(Slid(e, a))
  BY DEF Plus
<1> QED BY <1>1, ComingAdds

\* A key does not move the pointer.
LEMMA StrikeMoves ==
    ASSUME EvdevSound, NEW d \in Devices, NEW k \in KeysOf[d], NEW value \in 0..2,
           Strike(d, k, value), NEW x \in Devices, NEW a \in Axes, MotionOf(x, a)
    PROVE  MotionOf(x, a)'
<1>1. UNCHANGED <<trace, rel, moved>>
  BY DEF Strike, Cause, task
<1>2. /\ Adds(Pending(d), Raw("key", k, value), Pending(d)')
      /\ \A y \in Devices : y # d => Pending(y)' = Pending(y)
  BY StrikePending
<1>3. PICK n \in Int : /\ Recorded(trace, x, a, 0, n)
                       /\ Coming(Pending(x), a, n + rel[x][a], moved[x][a])
  BY DEF MotionOf
<1>4. Coming(Pending(x)', a, n + rel[x][a], moved[x][a])
  <2>1. CASE x # d
    BY <1>2, <1>3, <2>1
  <2>2. CASE x = d
    <3>1. PICK p : p = Pending(x)
      OBVIOUS
    <3>2. PICK q : q = Pending(x)'
      OBVIOUS
    <3>3. PICK e : e = Raw("key", k, value)
      OBVIOUS
    <3>4. PICK u : u = n + rel[x][a]
      OBVIOUS
    <3>5. PICK v : v = moved[x][a]
      OBVIOUS
    <3>6. v \in Int /\ v = v + Slid(e, a)
      BY <3>3, <3>5 DEF EvdevSound, Slid, Raw
    <3>7. Adds(p, e, q) /\ Coming(p, a, u, v)
      BY <1>2, <1>3, <2>2, <3>1, <3>2, <3>3, <3>4, <3>5
    <3>8. Coming(q, a, u, v)
      BY <3>6, <3>7, ComingAddsOne
    <3> QED BY <3>2, <3>4, <3>5, <3>8
  <2> QED BY <2>1, <2>2
<1> QED BY <1>1, <1>3, <1>4 DEF MotionOf

------------------------------------------------------------------------------
\* The mouse moves.
LEMMA SlidePending ==
    ASSUME EvdevSound, NEW d \in Devices, NEW axis \in Axes, Slide(d, axis)
    PROVE  /\ Adds(Pending(d), Raw("rel", axis, 1), Pending(d)')
           /\ IsSeq(queue'[d])
           /\ \A x \in Devices : x # d => Pending(x)' = Pending(x) /\ queue'[x] = queue[x]
<1>1. queue' = [queue EXCEPT ![d] = @ \o <<Raw("rel", axis, 1)>>] /\ UNCHANGED <<pc, cur>>
  BY DEF Slide, Cause, task
<1>2. PICK e : e = Raw("rel", axis, 1)
  OBVIOUS
<1>3. queue' = [queue EXCEPT ![d] = @ \o <<e>>]
  BY <1>1, <1>2
<1>4. Adds(Pending(d), e, Pending(d)') /\ IsSeq(queue'[d])
      /\ \A x \in Devices : x # d => Pending(x)' = Pending(x) /\ queue'[x] = queue[x]
  BY <1>1, <1>3, PendingAdds
<1> QED BY <1>2, <1>4

LEMMA SlideSound ==
    ASSUME EvdevSound, UNCHANGED recorder, NEW d \in Devices, NEW axis \in Axes, Slide(d, axis)
    PROVE  EvdevSound'
<1>1. UNCHANGED <<trace, pc, cur, reg, rel, mods, held, made>>
  BY DEF Slide, Cause, task
<1>2. /\ Adds(Pending(d), Raw("rel", axis, 1), Pending(d)')
      /\ IsSeq(queue'[d])
      /\ \A x \in Devices : x # d => Pending(x)' = Pending(x) /\ queue'[x] = queue[x]
  BY SlidePending
<1>3. Own(d, Raw("rel", axis, 1))
  BY DEF Own, Raw
<1>4. \A i \in 1..Len(Pending(d)') : Own(d, Pending(d)'[i])
  <2>1. PICK s : s = Pending(d)
    OBVIOUS
  <2>2. PICK t : t = Pending(d)'
    OBVIOUS
  <2>3. PICK e : e = Raw("rel", axis, 1)
    OBVIOUS
  <2>4. Adds(s, e, t) /\ Own(d, e) /\ \A i \in 1..Len(s) : Own(d, s[i])
    BY <1>2, <1>3, <2>1, <2>2, <2>3 DEF EvdevSound
  <2> QED BY <2>2, <2>4, OwnAdds
<1>5. \A x \in Devices : \A i \in 1..Len(Pending(x)') : Own(x, Pending(x)'[i])
  BY <1>2, <1>4 DEF EvdevSound
<1>6. DOMAIN queue' = Devices /\ \A x \in Devices : IsSeq(queue'[x])
  <2>1. DOMAIN queue' = DOMAIN queue
    BY DEF Slide, Cause
  <2> QED BY <1>2, <2>1 DEF EvdevSound
<1>7. moved' \in [Devices -> [Axes -> Int]]
  <2>1. moved' = [moved EXCEPT ![d][axis] = @ + 1] /\ moved \in [Devices -> [Axes -> Int]]
    BY DEF Slide, EvdevSound
  <2>2. moved[d] \in [Axes -> Int]
    BY <2>1
  <2>3. [moved[d] EXCEPT ![axis] = @ + 1] \in [Axes -> Int]
    BY <2>2
  <2> QED BY <2>1, <2>3
<1> QED BY <1>1, <1>5, <1>6, <1>7 DEF EvdevSound

LEMMA SlideTold ==
    ASSUME EvdevSound, NEW d \in Devices, NEW axis \in Axes, Slide(d, axis),
           NEW x \in Devices, EvdevTold(x)
    PROVE  EvdevTold(x)'
<1>1. UNCHANGED <<trace, pc, cur, reg, rel, mods, held, made>> /\ HeldBits' = HeldBits
  BY DEF Slide, Cause, task, HeldBits
<1>2. /\ Adds(Pending(d), Raw("rel", axis, 1), Pending(d)')
      /\ \A y \in Devices : y # d => Pending(y)' = Pending(y)
  BY SlidePending
<1>3. PICK j \in Nat, m \in Masks, n \in Masks :
        /\ Told(Level, trace, x, made[x], 0, j)
        /\ Caused(Pending(x), made[x], <<m, j>>, <<n, Len(made[x])>>)
        /\ Sure(x) => /\ m = mods /\ n = HeldBits
                      /\ pc[x] = "store" => reg[x] = mods
  BY DEF EvdevTold
<1>4. Caused(Pending(x)', made[x], <<m, j>>, <<n, Len(made[x])>>)
  <2>1. CASE x # d
    BY <1>2, <1>3, <2>1
  <2>2. CASE x = d
    <3>1. PICK p : p = Pending(x)
      OBVIOUS
    <3>2. PICK q : q = Pending(x)'
      OBVIOUS
    <3>3. PICK e : e = Raw("rel", axis, 1)
      OBVIOUS
    <3>4. PICK list : list = made[x]
      OBVIOUS
    <3>5. PICK a : a = <<m, j>>
      OBVIOUS
    <3>6. Len(list) \in Nat
      BY <3>4 DEF EvdevSound, IsSeq
    <3>7. ~Yields(e) /\ n = BitsAfter(e, n)
      BY <3>3 DEF Yields, BitsAfter, Raw
    <3>8. <<<<n, Len(list)>>, <<n, Len(list)>>>> \in Causes(e, list)
      BY <3>6, <3>7, CausesNone
    <3>9. PICK b : b = <<n, Len(list)>>
      OBVIOUS
    <3>10. Adds(p, e, q) /\ Caused(p, list, a, b) /\ <<b, b>> \in Causes(e, list)
      BY <1>2, <1>3, <2>2, <3>1, <3>2, <3>3, <3>4, <3>5, <3>8, <3>9
    <3>11. Caused(q, list, a, b)
      BY <3>10, CausedAdds
    <3> QED BY <3>2, <3>4, <3>5, <3>9, <3>11
  <2> QED BY <2>1, <2>2
<1> QED BY <1>1, <1>3, <1>4 DEF EvdevTold

LEMMA SlideMoves ==
    ASSUME EvdevSound, NEW d \in Devices, NEW axis \in Axes, Slide(d, axis),
           NEW x \in Devices, NEW a \in Axes, MotionOf(x, a)
    PROVE  MotionOf(x, a)'
<1>1. UNCHANGED <<trace, rel>> /\ moved' = [moved EXCEPT ![d][axis] = @ + 1]
      /\ moved \in [Devices -> [Axes -> Int]]
  BY DEF Slide, Cause, task, EvdevSound
<1>2. /\ Adds(Pending(d), Raw("rel", axis, 1), Pending(d)')
      /\ \A y \in Devices : y # d => Pending(y)' = Pending(y)
  BY SlidePending
<1>3. PICK n \in Int : /\ Recorded(trace, x, a, 0, n)
                       /\ Coming(Pending(x), a, n + rel[x][a], moved[x][a])
  BY DEF MotionOf
<1>4. Coming(Pending(x)', a, n + rel[x][a], moved'[x][a])
  <2>1. CASE x # d
    <3>1. moved'[x] = moved[x]
      BY <1>1, <2>1
    <3> QED BY <1>2, <1>3, <2>1, <3>1
  <2>2. CASE x = d
    <3>1. PICK p : p = Pending(x)
      OBVIOUS
    <3>2. PICK q : q = Pending(x)'
      OBVIOUS
    <3>3. PICK e : e = Raw("rel", axis, 1)
      OBVIOUS
    <3>4. PICK u : u = n + rel[x][a]
      OBVIOUS
    <3>5. PICK v : v = moved[x][a]
      OBVIOUS
    <3>6. PICK w : w = moved'[x][a]
      OBVIOUS
    <3>7. v \in Int /\ moved'[d] = [moved[d] EXCEPT ![axis] = @ + 1] /\ moved[d] \in [Axes -> Int]
      BY <1>1, <3>5
    <3>8. w = IF a = axis THEN v + 1 ELSE v
      BY <2>2, <3>5, <3>6, <3>7
    <3>9. w \in Int /\ w = v + Slid(e, a)
      BY <3>3, <3>7, <3>8 DEF Slid, Raw
    <3>10. Adds(p, e, q) /\ Coming(p, a, u, v)
      BY <1>2, <1>3, <2>2, <3>1, <3>2, <3>3, <3>4, <3>5
    <3>11. Coming(q, a, u, w)
      BY <3>7, <3>9, <3>10, ComingAddsOne
    <3> QED BY <3>2, <3>4, <3>6, <3>11
  <2> QED BY <2>1, <2>2
<1> QED BY <1>1, <1>3, <1>4 DEF MotionOf

------------------------------------------------------------------------------
\* The wheel turns, which is two raw events.
Click(way) == Raw("wheel", "REL_WHEEL", -way)
Click120(way) == Raw("wheel", "REL_WHEEL_HI_RES", -120 * way)

LEMMA TurnPending ==
    ASSUME EvdevSound, NEW d \in Devices, NEW way, Turn(d, way)
    PROVE  /\ \E s : Adds(Pending(d), Click(way), s) /\ Adds(s, Click120(way), Pending(d)')
           /\ IsSeq(queue'[d])
           /\ \A x \in Devices : x # d => Pending(x)' = Pending(x) /\ queue'[x] = queue[x]
<1>1. queue' = [queue EXCEPT ![d] = @ \o <<Click(way), Click120(way)>>] /\ UNCHANGED <<pc, cur>>
  BY DEF Turn, Cause, task, Click, Click120
<1>2. PICK e : e = Click(way)
  OBVIOUS
<1>3. PICK f : f = Click120(way)
  OBVIOUS
<1>4. queue' = [queue EXCEPT ![d] = @ \o <<e, f>>]
  BY <1>1, <1>2, <1>3
<1>5. UNCHANGED <<pc, cur>>
  BY <1>1
<1>6. /\ \E s : Adds(Pending(d), e, s) /\ Adds(s, f, Pending(d)')
      /\ IsSeq(queue'[d])
      /\ \A x \in Devices : x # d => Pending(x)' = Pending(x) /\ queue'[x] = queue[x]
  BY <1>4, <1>5, PendingAddsTwo, Zenon
<1> QED BY <1>2, <1>3, <1>6

LEMMA TurnSound ==
    ASSUME EvdevSound, UNCHANGED recorder, NEW d \in Devices, NEW way, Turn(d, way)
    PROVE  EvdevSound'
<1>1. UNCHANGED <<trace, pc, cur, reg, rel, mods, held, made, moved>>
  BY DEF Turn, Turns, Cause, task
<1>2. PICK s : Adds(Pending(d), Click(way), s) /\ Adds(s, Click120(way), Pending(d)')
  BY TurnPending
<1>3. /\ IsSeq(queue'[d])
      /\ \A x \in Devices : x # d => Pending(x)' = Pending(x) /\ queue'[x] = queue[x]
  BY TurnPending
<1>4. Own(d, Click(way)) /\ Own(d, Click120(way))
  BY DEF Own, Click, Click120, Raw
<1>5. \A i \in 1..Len(Pending(d)') : Own(d, Pending(d)'[i])
  <2>1. PICK p : p = Pending(d)
    OBVIOUS
  <2>2. PICK q : q = Pending(d)'
    OBVIOUS
  <2>3. PICK e : e = Click(way)
    OBVIOUS
  <2>4. PICK f : f = Click120(way)
    OBVIOUS
  <2>5. \A i \in 1..Len(s) : Own(d, s[i])
    <3>1. Adds(p, e, s) /\ Own(d, e) /\ \A i \in 1..Len(p) : Own(d, p[i])
      BY <1>2, <1>4, <2>1, <2>3 DEF EvdevSound
    <3> QED BY <3>1, OwnAdds
  <2>6. Adds(s, f, q) /\ Own(d, f)
    BY <1>2, <1>4, <2>2, <2>4
  <2> QED BY <2>2, <2>5, <2>6, OwnAdds
<1>6. \A x \in Devices : \A i \in 1..Len(Pending(x)') : Own(x, Pending(x)'[i])
  BY <1>3, <1>5 DEF EvdevSound
<1>7. DOMAIN queue' = Devices /\ \A x \in Devices : IsSeq(queue'[x])
  <2>1. DOMAIN queue' = DOMAIN queue
    BY DEF Turn, Cause
  <2> QED BY <1>3, <2>1 DEF EvdevSound
<1> QED BY <1>1, <1>6, <1>7 DEF EvdevSound

\* A raw event that says nothing of presses.
LEMMA CausedSame ==
    ASSUME NEW p, NEW e, NEW q, Adds(p, e, q), ~Yields(e), NEW n \in Masks, n = BitsAfter(e, n),
           NEW list, NEW a, NEW k \in Nat, Caused(p, list, a, <<n, k>>)
    PROVE  Caused(q, list, a, <<n, k>>)
<1>1. PICK b : b = <<n, k>>
  OBVIOUS
<1>2. <<b, b>> \in Causes(e, list)
  BY <1>1, CausesNone
<1>3. Caused(q, list, a, b)
  BY <1>1, <1>2, CausedAdds
<1> QED BY <1>1, <1>3

LEMMA TurnTold ==
    ASSUME EvdevSound, NEW d \in Devices, NEW way, Turn(d, way), NEW x \in Devices, EvdevTold(x)
    PROVE  EvdevTold(x)'
<1>1. UNCHANGED <<trace, pc, cur, reg, rel, mods, held, made>> /\ HeldBits' = HeldBits
  BY DEF Turn, Turns, Cause, task, HeldBits
<1>2. PICK j \in Nat, m \in Masks, n \in Masks :
        /\ Told(Level, trace, x, made[x], 0, j)
        /\ Caused(Pending(x), made[x], <<m, j>>, <<n, Len(made[x])>>)
        /\ Sure(x) => /\ m = mods /\ n = HeldBits
                      /\ pc[x] = "store" => reg[x] = mods
  BY DEF EvdevTold
<1>3. Caused(Pending(x)', made[x], <<m, j>>, <<n, Len(made[x])>>)
  <2>1. CASE x # d
    BY <1>2, <2>1, TurnPending
  <2>2. CASE x = d
    <3>1. PICK y : Adds(Pending(d), Click(way), y) /\ Adds(y, Click120(way), Pending(d)')
      BY TurnPending
    <3>2. PICK p : p = Pending(d)
      OBVIOUS
    <3>3. PICK q : q = Pending(d)'
      OBVIOUS
    <3>4. PICK list : list = made[d]
      OBVIOUS
    <3>5. PICK e : e = Click(way)
      OBVIOUS
    <3>6. PICK f : f = Click120(way)
      OBVIOUS
    <3>7. PICK a : a = <<m, j>>
      OBVIOUS
    <3>8. PICK k : k = Len(list)
      OBVIOUS
    <3>9. k \in Nat
      BY <3>4, <3>8 DEF EvdevSound, IsSeq
    <3>10. ~Yields(e) /\ n = BitsAfter(e, n)
      BY <3>5 DEF Click, Raw, Yields, BitsAfter
    <3>11. ~Yields(f) /\ n = BitsAfter(f, n)
      BY <3>6 DEF Click120, Raw, Yields, BitsAfter
    <3>12. Adds(p, e, y) /\ Adds(y, f, q) /\ Caused(p, list, a, <<n, k>>)
      BY <1>2, <2>2, <3>1, <3>2, <3>3, <3>4, <3>5, <3>6, <3>7, <3>8
    <3>13. Caused(y, list, a, <<n, k>>)
      BY <3>9, <3>10, <3>12, CausedSame
    <3>14. Caused(q, list, a, <<n, k>>)
      BY <3>9, <3>11, <3>12, <3>13, CausedSame
    <3> QED BY <2>2, <3>3, <3>4, <3>7, <3>8, <3>14
  <2> QED BY <2>1, <2>2
<1> QED BY <1>1, <1>2, <1>3 DEF EvdevTold

LEMMA TurnMoves ==
    ASSUME EvdevSound, NEW d \in Devices, NEW way, Turn(d, way),
           NEW x \in Devices, NEW a \in Axes, MotionOf(x, a)
    PROVE  MotionOf(x, a)'
<1>1. UNCHANGED <<trace, rel, moved>>
  BY DEF Turn, Cause, task
<1>2. PICK y : Adds(Pending(d), Click(way), y) /\ Adds(y, Click120(way), Pending(d)')
  BY TurnPending
<1>3. PICK n \in Int : /\ Recorded(trace, x, a, 0, n)
                       /\ Coming(Pending(x), a, n + rel[x][a], moved[x][a])
  BY DEF MotionOf
<1>4. Coming(Pending(x)', a, n + rel[x][a], moved[x][a])
  <2>1. CASE x # d
    BY <1>3, <2>1, TurnPending
  <2>2. CASE x = d
    <3>1. PICK p : p = Pending(x)
      OBVIOUS
    <3>2. PICK q : q = Pending(x)'
      OBVIOUS
    <3>3. PICK e : e = Click(way)
      OBVIOUS
    <3>4. PICK f : f = Click120(way)
      OBVIOUS
    <3>5. PICK u : u = n + rel[x][a]
      OBVIOUS
    <3>6. PICK v : v = moved[x][a]
      OBVIOUS
    <3>7. v \in Int /\ v = v + Slid(e, a) /\ v = v + Slid(f, a)
      BY <3>3, <3>4, <3>6 DEF EvdevSound, Slid, Click, Click120, Raw
    <3>8. Adds(p, e, y) /\ Adds(y, f, q) /\ Coming(p, a, u, v)
      BY <1>2, <1>3, <2>2, <3>1, <3>2, <3>3, <3>4, <3>5, <3>6
    <3>9. Coming(y, a, u, v)
      BY <3>7, <3>8, ComingAddsOne
    <3>10. Coming(q, a, u, v)
      BY <3>7, <3>8, <3>9, ComingAddsOne
    <3> QED BY <3>2, <3>5, <3>6, <3>10
  <2> QED BY <2>1, <2>2
<1> QED BY <1>1, <1>3, <1>4 DEF MotionOf

------------------------------------------------------------------------------
(* Recordings: the task of a device.                                       *)

\* From mask m and number j, the raw event e leads to mask o and number i.
Onward(e, list, m, j, o, i) ==
    /\ o = BitsAfter(e, m)
    /\ IF Yields(e) THEN <<j, i>> \in Nexts(Level, list, SaidBy(e, m)) ELSE i = j

LEMMA StoryMoves ==
    ASSUME NEW e, NEW list, NEW u, NEW c, <<u, c>> \in Causes(e, list), NEW m, NEW j, u = <<m, j>>
    PROVE  \E o \in Masks, i \in Nat : c = <<o, i>> /\ Onward(e, list, m, j, o, i)
<1>1. c \in Masks \X Nat
  BY CausesPairs
<1>2. PICK o \in Masks, i \in Nat : c = <<o, i>>
  BY <1>1
<1>3. <<<<m, j>>, <<o, i>>>> \in Causes(e, list)
  BY <1>2
<1>4. /\ o = BitsAfter(e, m)
      /\ IF Yields(e) THEN <<j, i>> \in Nexts(Level, list, SaidBy(e, m)) ELSE <<j, i>> \in Same
  BY <1>3, CausesIs
<1>5. ~Yields(e) => i = j
  BY <1>4, SameIs
<1>6. Onward(e, list, m, j, o, i)
  BY <1>4, <1>5 DEF Onward
<1> QED BY <1>2, <1>6

LEMMA MotionStays ==
    ASSUME NEW x \in Devices, NEW a \in Axes, MotionOf(x, a),
           UNCHANGED <<trace, rel, moved>>, Pending(x)' = Pending(x)
    PROVE  MotionOf(x, a)'
  BY DEF MotionOf

LEMMA TellingStays ==
    ASSUME NEW x \in Devices, EvdevTold(x), UNCHANGED <<trace, made, held>>,
           Pending(x)' = Pending(x),
           Sure(x) => mods' = mods /\ (pc'[x] = "store" => reg'[x] = mods')
    PROVE  EvdevTold(x)'
<1>1. HeldBits' = HeldBits
  BY DEF HeldBits
<1> QED BY <1>1 DEF EvdevTold

LEMMA TickEInv ==
    ASSUME EInv, UNCHANGED recorder, Tick
    PROVE  EInv'
<1>1. UNCHANGED <<trace, inputs, held, made, queue, pc, cur, stamp, reg, rel, mods, moved>>
  BY DEF Tick, user, task
<1>2. \A x \in Devices : Pending(x)' = Pending(x)
  BY <1>1 DEF Pending
<1>3. EvdevSound'
  BY <1>1, <1>2 DEF EInv, EvdevSound
<1>4. EvdevTells'
  <2>1. \A x \in Devices : EvdevTold(x) => EvdevTold(x)'
    <3>1. SUFFICES ASSUME NEW x \in Devices, EvdevTold(x) PROVE EvdevTold(x)'
      OBVIOUS
    <3>2. Sure(x) => mods' = mods /\ (pc'[x] = "store" => reg'[x] = mods')
      BY <1>1, <3>1 DEF EvdevTold
    <3> QED BY <1>1, <1>2, <3>1, <3>2, TellingStays
  <2> QED BY <2>1 DEF EInv, EvdevTells
<1>5. EvdevMoves'
  BY <1>1, <1>2, MotionStays DEF EInv, EvdevMoves
<1> QED BY <1>3, <1>4, <1>5 DEF EInv

LEMMA TakeEInv ==
    ASSUME EInv, UNCHANGED recorder, NEW d \in Devices, Take(d)
    PROVE  EInv'
<1>1. UNCHANGED <<trace, inputs, held, made, reg, rel, mods, moved>>
      /\ pc[d] = "idle" /\ pc' = [pc EXCEPT ![d] = "map"]
      /\ pc \in [Devices -> {"idle", "map", "store", "flush"}]
  BY DEF Take, user, EInv, EvdevSound
<1>2. \A x \in Devices : Pending(x)' = Pending(x) /\ IsSeq(queue'[x])
  BY TakePending DEF EInv
<1>3. pc'[d] = "map" /\ \A x \in Devices : x # d => pc'[x] = pc[x] /\ cur'[x] = cur[x]
  BY <1>1 DEF Take, EInv, EvdevSound
<1>4. EvdevSound'
  <2>1. DOMAIN cur' = Devices /\ DOMAIN queue' = Devices
    BY DEF Take, EInv, EvdevSound
  <2>2. \A x \in Devices : pc'[x] = "store" => cur'[x].type = "key" /\ cur'[x].code \in ModKeys
    BY <1>3 DEF EInv, EvdevSound
  <2>3. \A x \in Devices : \A i \in 1..Len(Pending(x)') : Own(x, Pending(x)'[i])
    BY <1>2 DEF EInv, EvdevSound
  <2> QED BY <1>1, <1>2, <2>1, <2>2, <2>3 DEF EInv, EvdevSound
<1>5. EvdevTells'
  <2>1. \A x \in Devices : EvdevTold(x) => EvdevTold(x)'
    <3>1. SUFFICES ASSUME NEW x \in Devices, EvdevTold(x) PROVE EvdevTold(x)'
      OBVIOUS
    <3>2. Sure(x) => mods' = mods /\ (pc'[x] = "store" => reg'[x] = mods')
      BY <1>1, <1>3, <3>1 DEF EvdevTold
    <3> QED BY <1>1, <1>2, <3>1, <3>2, TellingStays
  <2> QED BY <2>1 DEF EInv, EvdevTells
<1>6. EvdevMoves'
  BY <1>1, <1>2, MotionStays DEF EInv, EvdevMoves
<1> QED BY <1>4, <1>5, <1>6 DEF EInv

LEMMA ModLoadEInv ==
    ASSUME EInv, UNCHANGED recorder, NEW d \in Devices, ModLoad(d)
    PROVE  EInv'
<1>1. UNCHANGED <<trace, inputs, held, made, queue, cur, rel, mods, moved>>
      /\ pc[d] = "map" /\ pc' = [pc EXCEPT ![d] = "store"]
      /\ pc \in [Devices -> {"idle", "map", "store", "flush"}]
      /\ reg' = [reg EXCEPT ![d] = mods] /\ reg \in [Devices -> Masks]
  BY DEF ModLoad, user, EInv, EvdevSound
<1>2. pc'[d] = "store" /\ reg'[d] = mods
      /\ \A x \in Devices : x # d => pc'[x] = pc[x] /\ reg'[x] = reg[x]
  BY <1>1
<1>3. \A x \in Devices : Pending(x)' = Pending(x)
  BY <1>1, <1>2 DEF Pending
<1>4. EvdevSound'
  <2>1. \A x \in Devices : pc'[x] = "store" => cur'[x].type = "key" /\ cur'[x].code \in ModKeys
    BY <1>1, <1>2 DEF EInv, EvdevSound, ModLoad
  <2>2. \A x \in Devices : \A i \in 1..Len(Pending(x)') : Own(x, Pending(x)'[i])
    BY <1>3 DEF EInv, EvdevSound
  <2> QED BY <1>1, <2>1, <2>2 DEF EInv, EvdevSound
<1>5. EvdevTells'
  <2>1. \A x \in Devices : EvdevTold(x) => EvdevTold(x)'
    <3>1. SUFFICES ASSUME NEW x \in Devices, EvdevTold(x) PROVE EvdevTold(x)'
      OBVIOUS
    <3>2. Sure(x) => mods' = mods /\ (pc'[x] = "store" => reg'[x] = mods')
      BY <1>1, <1>2, <3>1 DEF EvdevTold
    <3> QED BY <1>1, <1>3, <3>1, <3>2, TellingStays
  <2> QED BY <2>1 DEF EInv, EvdevTells
<1>6. EvdevMoves'
  BY <1>1, <1>3, MotionStays DEF EInv, EvdevMoves
<1> QED BY <1>4, <1>5, <1>6 DEF EInv

------------------------------------------------------------------------------
\* The task is done with an event, which is no longer pending.
LEMMA MapSound ==
    ASSUME EvdevSound, UNCHANGED <<recorder, queue, cur, moved, held, made>>, NEW d \in Devices,
           pc[d] \in {"map", "store"}, NEW label \in {"idle", "flush"},
           pc' = [pc EXCEPT ![d] = label], reg' \in [Devices -> Masks], IsSeq(trace'),
           rel' \in [Devices -> [Axes -> Int]], mods' \in Masks
    PROVE  EvdevSound'
<1>1. /\ Drops(Pending(d), Pending(d)')
      /\ \A x \in Devices : x # d => Pending(x)' = Pending(x)
  BY MapPending
<1>2. \A x \in Devices : \A i \in 1..Len(Pending(x)') : Own(x, Pending(x)'[i])
  <2>1. PICK p : p = Pending(d)
    OBVIOUS
  <2>2. PICK q : q = Pending(d)'
    OBVIOUS
  <2>3. Drops(p, q) /\ \A i \in 1..Len(p) : Own(d, p[i])
    BY <1>1, <2>1, <2>2 DEF EvdevSound
  <2>4. \A i \in 1..Len(q) : Own(d, q[i])
    BY <2>3, OwnDrops
  <2> QED BY <1>1, <2>2, <2>4 DEF EvdevSound
<1>3. pc' \in [Devices -> {"idle", "map", "store", "flush"}]
      /\ \A x \in Devices : pc'[x] = "store" => pc[x] = "store"
  BY DEF EvdevSound
<1> QED BY <1>2, <1>3 DEF EvdevSound, Masks

\* The event in hand is one of the device.
LEMMA CurIsOwn ==
    ASSUME EvdevSound, NEW d \in Devices, pc[d] \in {"map", "store"}
    PROVE  Own(d, cur[d])
<1>1. PICK q : q = queue[d]
  OBVIOUS
<1>2. PICK c : c = cur[d]
  OBVIOUS
<1>3. PICK s : s = <<c>> \o q
  OBVIOUS
<1>4. IsSeq(q)
  BY <1>1 DEF EvdevSound
<1>5. IsSeq(s) /\ s # <<>> /\ Head(s) = c
  BY <1>3, <1>4, TailOfOne
<1>6. Pending(d) = s
  BY <1>1, <1>2, <1>3 DEF Pending
<1>7. Drops(s, Tail(s)) /\ \A i \in 1..Len(s) : Own(d, s[i])
  BY <1>5, <1>6, TailDrops DEF EvdevSound
<1> QED BY <1>2, <1>5, <1>7, OwnDrops

\* Motion that is neither recorded nor added up.
LEMMA MapStill ==
    ASSUME EvdevSound, NEW d \in Devices, pc[d] \in {"map", "store"},
           cur[d].type # "rel", UNCHANGED <<queue, cur, rel, moved>>,
           NEW label \in {"idle", "flush"}, pc' = [pc EXCEPT ![d] = label],
           \/ UNCHANGED trace
           \/ \E e : Adds(trace, e, trace') /\ e.rec.kind # "move",
           NEW x \in Devices, NEW a \in Axes, MotionOf(x, a)
    PROVE  MotionOf(x, a)'
<1>1. PICK n \in Int : /\ Recorded(trace, x, a, 0, n)
                       /\ Coming(Pending(x), a, n + rel[x][a], moved[x][a])
  BY DEF MotionOf
<1>2. Recorded(trace', x, a, 0, n)
  <2>1. CASE UNCHANGED trace
    BY <1>1, <2>1
  <2>2. ASSUME NEW e, Adds(trace, e, trace') /\ e.rec.kind # "move"
        PROVE  Recorded(trace', x, a, 0, n)
    <3>1. PICK s : s = trace
      OBVIOUS
    <3>2. PICK t : t = trace'
      OBVIOUS
    <3>3. Adds(s, e, t) /\ Recorded(s, x, a, 0, n)
      BY <1>1, <2>2, <3>1, <3>2
    <3>4. <<n, n>> \in Plus(Distance(e, x, a))
      BY <2>2 DEF Plus, Distance
    <3>5. Recorded(t, x, a, 0, n)
      BY <3>3, <3>4, RecordedAdds
    <3> QED BY <3>2, <3>5
  <2> QED BY <2>1, <2>2
<1>3. Coming(Pending(x)', a, n + rel[x][a], moved[x][a])
  <2>1. /\ Drops(Pending(d), Pending(d)') /\ Head(Pending(d)) = cur[d]
        /\ \A y \in Devices : y # d => Pending(y)' = Pending(y)
    BY MapPending
  <2>2. CASE x # d
    BY <1>1, <2>1, <2>2
  <2>3. CASE x = d
    <3>1. PICK p : p = Pending(x)
      OBVIOUS
    <3>2. PICK q : q = Pending(x)'
      OBVIOUS
    <3>3. PICK u : u = n + rel[x][a]
      OBVIOUS
    <3>4. PICK v : v = moved[x][a]
      OBVIOUS
    <3>5. Drops(p, q) /\ Coming(p, a, u, v) /\ Head(p) = cur[d]
      BY <1>1, <2>1, <2>3, <3>1, <3>2, <3>3, <3>4
    <3>6. PICK c : <<u, c>> \in Plus(Slid(Head(p), a)) /\ Coming(q, a, c, v)
      BY <3>5, ComingDrops
    <3>7. c = u
      <4>1. Slid(Head(p), a) = 0
        BY <3>5 DEF Slid
      <4> QED BY <3>6, <4>1 DEF Plus
    <3> QED BY <3>2, <3>3, <3>4, <3>6, <3>7
  <2> QED BY <2>2, <2>3
<1> QED BY <1>1, <1>2, <1>3 DEF MotionOf

\* Neither kind of record says anything of another device.
LEMMA ToldAddsSame ==
    ASSUME NEW how, NEW s, NEW e, NEW t, Adds(s, e, t), NEW d, ~Kept(e, d), NEW list,
           NEW k \in Nat, Told(how, s, d, list, 0, k)
    PROVE  Told(how, t, d, list, 0, k)
<1>1. <<k, k>> \in Tells(how, e, d, list)
  BY SameIs DEF Tells
<1> QED BY <1>1, ToldAdds

\* What agrees with a record is told where it is.
LEMMA NextsAgree ==
    ASSUME NEW how, NEW list, NEW j, NEW i, NEW r, NEW s, <<j, i>> \in Nexts(how, list, r),
           Agree(how = "chords", s, r)
    PROVE  <<j, i>> \in Nexts(how, list, s)
<1>1. /\ j \in Nat /\ i \in Nat /\ i = j + 1 /\ i <= Len(list)
      /\ Agree(how = "chords", r, list[i])
  BY NextsIs
<1>2. Agree(how = "chords", s, list[i])
  BY <1>1 DEF Agree
<1> QED BY <1>1, <1>2, NextsIs

\* What the task maps is what was to come next.
LEMMA MapTold ==
    ASSUME EvdevSound, NEW d \in Devices, pc[d] \in {"map", "store"},
           NEW label \in {"idle", "flush"}, pc' = [pc EXCEPT ![d] = label],
           UNCHANGED <<queue, cur, held, made, mods, reg>>,
           ~(cur[d].type = "key" /\ cur[d].code \in ModKeys),
           IF Yields(cur[d])
           THEN \E r : Adds(trace, r, trace') /\ r.dev = d /\ r.rec = SaidBy(cur[d], mods)
           ELSE \/ UNCHANGED trace
                \/ \E r : Adds(trace, r, trace') /\ r.rec.kind = "scroll",
           NEW x \in Devices, EvdevTold(x)
    PROVE  EvdevTold(x)'
<1>1. PICK j \in Nat, m \in Masks, n \in Masks :
        /\ Told(Level, trace, x, made[x], 0, j)
        /\ Caused(Pending(x), made[x], <<m, j>>, <<n, Len(made[x])>>)
        /\ Sure(x) => /\ m = mods /\ n = HeldBits
                      /\ pc[x] = "store" => reg[x] = mods
  BY DEF EvdevTold
<1>2. /\ Drops(Pending(d), Pending(d)') /\ Head(Pending(d)) = cur[d]
      /\ \A y \in Devices : y # d => Pending(y)' = Pending(y)
  BY MapPending
<1>3. HeldBits' = HeldBits
  BY DEF HeldBits
<1>4. pc'[d] = label /\ \A y \in Devices : y # d => pc'[y] = pc[y]
  BY DEF EvdevSound
<1>5. CASE x # d
  <2>1. Told(Level, trace', x, made[x], 0, j)
    <3>1. CASE UNCHANGED trace
      BY <1>1, <3>1
    <3>2. ASSUME NEW r, Adds(trace, r, trace'), r.dev = d \/ r.rec.kind = "scroll"
          PROVE  Told(Level, trace', x, made[x], 0, j)
      <4>1. PICK s : s = trace
        OBVIOUS
      <4>2. PICK t : t = trace'
        OBVIOUS
      <4>3. PICK list : list = made[x]
        OBVIOUS
      <4>4. Adds(s, r, t) /\ Told(Level, s, x, list, 0, j) /\ ~Kept(r, x)
        BY <1>1, <1>5, <3>2, <4>1, <4>2, <4>3 DEF Kept
      <4>5. Told(Level, t, x, list, 0, j)
        BY <4>4, ToldAddsSame
      <4> QED BY <4>2, <4>3, <4>5
    <3> QED BY <3>1, <3>2
  <2> QED BY <1>1, <1>2, <1>3, <1>4, <1>5, <2>1 DEF EvdevTold
<1>6. CASE x = d
  <2>1. PICK p : p = Pending(d)
    OBVIOUS
  <2>2. PICK q : q = Pending(d)'
    OBVIOUS
  <2>3. PICK list : list = made[d]
    OBVIOUS
  <2>4. PICK e : e = cur[d]
    OBVIOUS
  <2>5. Drops(p, q) /\ Head(p) = e /\ Caused(p, list, <<m, j>>, <<n, Len(list)>>)
    BY <1>1, <1>2, <1>6, <2>1, <2>2, <2>3, <2>4
  <2>6. PICK o \in Masks, i \in Nat :
         Onward(e, list, m, j, o, i) /\ Caused(q, list, <<o, i>>, <<n, Len(list)>>)
    <3>1. PICK u : u = <<m, j>>
      OBVIOUS
    <3>2. PICK v : v = <<n, Len(list)>>
      OBVIOUS
    <3>3. Drops(p, q) /\ Head(p) = e /\ Caused(p, list, u, v)
      BY <2>5, <3>1, <3>2
    <3>4. PICK c : <<u, c>> \in Causes(e, list) /\ Caused(q, list, c, v)
      BY <3>3, CausedDrops
    <3>5. PICK o \in Masks, i \in Nat : c = <<o, i>> /\ Onward(e, list, m, j, o, i)
      BY <3>1, <3>4, StoryMoves
    <3>6. Caused(q, list, <<o, i>>, <<n, Len(list)>>)
      BY <3>2, <3>4, <3>5
    <3> QED BY <3>5, <3>6
  <2>7. o = m
    BY <2>4, <2>6 DEF BitsAfter, Onward
  <2>8. Told(Level, trace', d, list, 0, i)
    <3>1. CASE ~Yields(e)
      <4>1. i = j
        BY <2>6, <3>1 DEF Onward
      <4>2. CASE UNCHANGED trace
        BY <1>1, <1>6, <2>3, <4>1, <4>2
      <4>3. ASSUME NEW r, Adds(trace, r, trace'), r.rec.kind = "scroll"
            PROVE  Told(Level, trace', d, list, 0, i)
        <5>1. PICK s : s = trace
          OBVIOUS
        <5>2. PICK t : t = trace'
          OBVIOUS
        <5>3. Adds(s, r, t) /\ Told(Level, s, d, list, 0, j) /\ ~Kept(r, d)
          BY <1>1, <1>6, <2>3, <4>3, <5>1, <5>2 DEF Kept
        <5>4. Told(Level, t, d, list, 0, j)
          BY <5>3, ToldAddsSame
        <5> QED BY <4>1, <5>2, <5>4
      <4> QED BY <2>4, <3>1, <4>2, <4>3
    <3>2. CASE Yields(e)
      <4>1. PICK r : Adds(trace, r, trace') /\ r.dev = d /\ r.rec = SaidBy(e, mods)
        BY <2>4, <3>2
      <4>2. Agree(Level = "chords", SaidBy(e, mods), SaidBy(e, m))
        <5>1. PICK h : h = mods
          OBVIOUS
        <5>2. PICK k : k = e.code
          OBVIOUS
        <5>3. Own(d, e)
          BY <2>4, CurIsOwn
        <5>4. ~HasKeys(d) => k \in Buttons
          BY <3>2, <5>2, <5>3 DEF Own, HasKeys, Yields
        <5>5. Level = "chords" => k \in Buttons \/ h = m
          BY <1>1, <1>6, <5>1, <5>4 DEF Level, Sure
        <5>6. Agree(Level = "chords", Press(k, h), Press(k, m))
          BY <5>5, PressesAgree
        <5> QED BY <5>1, <5>2, <5>6 DEF SaidBy
      <4>3. Kept(r, d)
        <5>1. e.code \notin ModKeys /\ r.rec = Press(e.code, mods)
          BY <3>2, <4>1 DEF SaidBy, Yields
        <5>2. r.rec.code = e.code /\ r.rec.kind \in {"click", "key"}
          BY <5>1 DEF Press, Record
        <5> QED BY <4>1, <5>1, <5>2 DEF Kept
      <4>4. <<j, i>> \in Tells(Level, r, d, list)
        <5>1. PICK u : u = SaidBy(e, m)
          OBVIOUS
        <5>2. PICK v : v = r.rec
          OBVIOUS
        <5>3. <<j, i>> \in Nexts(Level, list, u) /\ Agree(Level = "chords", v, u)
          BY <2>6, <3>2, <4>1, <4>2, <5>1, <5>2 DEF Onward
        <5>4. <<j, i>> \in Nexts(Level, list, v)
          BY <5>3, NextsAgree
        <5> QED BY <4>3, <5>2, <5>4 DEF Tells
      <4>5. PICK s : s = trace
        OBVIOUS
      <4>6. PICK t : t = trace'
        OBVIOUS
      <4>7. Adds(s, r, t) /\ Told(Level, s, d, list, 0, j)
        BY <1>1, <1>6, <2>3, <4>1, <4>5, <4>6
      <4>8. Told(Level, t, d, list, 0, i)
        BY <4>4, <4>7, ToldAdds
      <4> QED BY <4>6, <4>8
    <3> QED BY <3>1, <3>2
  <2>9. /\ Told(Level, trace', d, made'[d], 0, i)
        /\ Caused(Pending(d)', made'[d], <<m, i>>, <<n, Len(made'[d])>>)
    BY <2>2, <2>3, <2>6, <2>7, <2>8
  <2>10. Sure(d) => m = mods' /\ n = HeldBits' /\ (pc'[d] = "store" => reg'[d] = mods')
    BY <1>1, <1>3, <1>4, <1>6
  <2> QED BY <1>6, <2>9, <2>10 DEF EvdevTold
<1> QED BY <1>5, <1>6

LEMMA EmitAdds ==
    ASSUME EvdevSound, NEW d, NEW rec, Emit(d, rec)
    PROVE  Adds(trace, [dev |-> d, rec |-> rec], trace') /\ IsSeq(trace')
<1>1. PICK s : s = trace
  OBVIOUS
<1>2. PICK e : e = [dev |-> d, rec |-> rec]
  OBVIOUS
<1>3. IsSeq(s) /\ trace' = Append(s, e)
  BY <1>1, <1>2 DEF EvdevSound, Emit
<1>4. Adds(s, e, Append(s, e))
  BY <1>3, AppendAdds
<1> QED BY <1>1, <1>2, <1>3, <1>4 DEF Adds

LEMMA MapKeyEInv ==
    ASSUME EInv, UNCHANGED recorder, NEW d \in Devices, MapKey(d)
    PROVE  EInv'
<1>1. UNCHANGED <<inputs, held, made, queue, cur, reg, rel, mods, moved>> /\ EvdevSound
      /\ pc[d] = "map" /\ pc' = [pc EXCEPT ![d] = "idle"]
      /\ cur[d].type = "key" /\ cur[d].code \notin ModKeys
  BY DEF MapKey, Done, user, EInv
<1>2. PICK r : r = [dev |-> d, rec |-> Press(cur[d].code, mods)]
  OBVIOUS
<1>3. IF cur[d].value = 1 THEN Adds(trace, r, trace') /\ IsSeq(trace') ELSE UNCHANGED trace
  <2>1. CASE cur[d].value = 1
    <3>1. PICK rec : rec = Press(cur[d].code, mods)
      OBVIOUS
    <3>2. Emit(d, rec)
      BY <2>1, <3>1 DEF MapKey, Pressing
    <3>3. Adds(trace, [dev |-> d, rec |-> rec], trace') /\ IsSeq(trace')
      BY <1>1, <3>2, EmitAdds
    <3> QED BY <1>2, <2>1, <3>1, <3>3
  <2>2. CASE cur[d].value # 1
    BY <2>2 DEF MapKey, Pressing
  <2> QED BY <2>1, <2>2
<1>4. Yields(cur[d]) <=> cur[d].value = 1
  BY <1>1 DEF Yields
<1>5. r.dev = d /\ r.rec = SaidBy(cur[d], mods) /\ r.rec.kind # "move"
  BY <1>1, <1>2 DEF SaidBy, Press, Record
<1>6. EvdevSound'
  <2>1. /\ IsSeq(trace') /\ reg' \in [Devices -> Masks]
        /\ rel' \in [Devices -> [Axes -> Int]] /\ mods' \in Masks
    BY <1>1, <1>3 DEF EvdevSound, Masks
  <2> QED BY <1>1, <2>1, MapSound
<1>7. \A x \in Devices : EvdevTold(x) => EvdevTold(x)'
  <2>1. ASSUME NEW x \in Devices, EvdevTold(x) PROVE EvdevTold(x)'
    <3>1. IF Yields(cur[d])
          THEN \E s : Adds(trace, s, trace') /\ s.dev = d /\ s.rec = SaidBy(cur[d], mods)
          ELSE \/ UNCHANGED trace
               \/ \E s : Adds(trace, s, trace') /\ s.rec.kind = "scroll"
      BY <1>3, <1>4, <1>5
    <3> QED BY <1>1, <2>1, <3>1, MapTold
  <2> QED BY <2>1
<1>8. \A x \in Devices, a \in Axes : MotionOf(x, a) => MotionOf(x, a)'
  <2>1. ASSUME NEW x \in Devices, NEW a \in Axes, MotionOf(x, a) PROVE MotionOf(x, a)'
    <3>1. UNCHANGED trace \/ \E e : Adds(trace, e, trace') /\ e.rec.kind # "move"
      BY <1>3, <1>5
    <3> QED BY <1>1, <2>1, <3>1, MapStill
  <2> QED BY <2>1
<1> QED BY <1>6, <1>7, <1>8 DEF EInv, EvdevTells, EvdevMoves

LEMMA MapWheelEInv ==
    ASSUME EInv, UNCHANGED recorder, NEW d \in Devices, MapWheel(d)
    PROVE  EInv'
<1>1. UNCHANGED <<inputs, held, made, queue, cur, reg, rel, mods, moved>> /\ EvdevSound
      /\ pc[d] = "map" /\ pc' = [pc EXCEPT ![d] = "idle"] /\ cur[d].type = "wheel"
  BY DEF MapWheel, Done, user, EInv
<1>2. PICK r : r = [dev |-> d, rec |-> Scroll(cur[d].value)]
  OBVIOUS
<1>3. Adds(trace, r, trace') /\ IsSeq(trace')
  <2>1. PICK rec : rec = Scroll(cur[d].value)
    OBVIOUS
  <2>2. Emit(d, rec)
    BY <2>1 DEF MapWheel
  <2>3. Adds(trace, [dev |-> d, rec |-> rec], trace') /\ IsSeq(trace')
    BY <1>1, <2>2, EmitAdds
  <2> QED BY <1>2, <2>1, <2>3
<1>4. ~Yields(cur[d])
  BY <1>1 DEF Yields
<1>5. r.rec.kind = "scroll"
  BY <1>2 DEF Scroll, Record
<1>6. EvdevSound'
  <2>1. reg' \in [Devices -> Masks] /\ rel' \in [Devices -> [Axes -> Int]] /\ mods' \in Masks
    BY <1>1 DEF EvdevSound, Masks
  <2> QED BY <1>1, <1>3, <2>1, MapSound
<1>7. \A x \in Devices : EvdevTold(x) => EvdevTold(x)'
  <2>1. ASSUME NEW x \in Devices, EvdevTold(x) PROVE EvdevTold(x)'
    <3>1. IF Yields(cur[d])
          THEN \E s : Adds(trace, s, trace') /\ s.dev = d /\ s.rec = SaidBy(cur[d], mods)
          ELSE \/ UNCHANGED trace
               \/ \E s : Adds(trace, s, trace') /\ s.rec.kind = "scroll"
      BY <1>3, <1>4, <1>5
    <3>2. ~(cur[d].type = "key" /\ cur[d].code \in ModKeys)
      BY <1>1
    <3> QED BY <1>1, <2>1, <3>1, <3>2, MapTold
  <2> QED BY <2>1
<1>8. \A x \in Devices, a \in Axes : MotionOf(x, a) => MotionOf(x, a)'
  <2>1. ASSUME NEW x \in Devices, NEW a \in Axes, MotionOf(x, a) PROVE MotionOf(x, a)'
    <3>1. UNCHANGED trace \/ \E e : Adds(trace, e, trace') /\ e.rec.kind # "move"
      BY <1>3, <1>5
    <3> QED BY <1>1, <2>1, <3>1, MapStill
  <2> QED BY <2>1
<1> QED BY <1>6, <1>7, <1>8 DEF EInv, EvdevTells, EvdevMoves

\* The mask after a modifier is the one the next press is recorded with.
LEMMA ModStoreTold ==
    ASSUME EvdevSound, NEW d \in Devices, ModStore(d),
           NEW x \in Devices, EvdevTold(x)
    PROVE  EvdevTold(x)'
<1>1. UNCHANGED <<inputs, held, made, queue, cur, reg, rel, moved, trace>>
      /\ pc[d] = "store" /\ pc' = [pc EXCEPT ![d] = "idle"]
      /\ cur[d].type = "key" /\ cur[d].code \in ModKeys
      /\ mods' = Masked(reg[d], BitOf[cur[d].code], cur[d].value)
  BY DEF ModStore, Done, user, EvdevSound
<1>2. HasKeys(d)
  <2>1. cur[d].code \in KeysOf[d]
    BY <1>1, CurIsOwn DEF Own
  <2> QED BY <1>1, <2>1, DeskAssumption DEF HasKeys, ModKeys
<1>3. /\ Drops(Pending(d), Pending(d)') /\ Head(Pending(d)) = cur[d]
      /\ \A y \in Devices : y # d => Pending(y)' = Pending(y)
  BY <1>1, MapPending
<1>4. CASE x # d
  <2>1. ~Sure(x)
    BY <1>2, <1>4 DEF Sure, OneKeyboard, OwnBits
  <2> QED BY <1>1, <1>3, <1>4, <2>1, TellingStays
<1>5. CASE x = d
  <2>1. PICK j \in Nat, m \in Masks, n \in Masks :
        /\ Told(Level, trace, d, made[d], 0, j)
        /\ Caused(Pending(d), made[d], <<m, j>>, <<n, Len(made[d])>>)
        /\ Sure(d) => m = mods /\ n = HeldBits /\ reg[d] = mods
    BY <1>1, <1>5 DEF EvdevTold
  <2>2. PICK p : p = Pending(d)
    OBVIOUS
  <2>3. PICK q : q = Pending(d)'
    OBVIOUS
  <2>4. PICK list : list = made[d]
    OBVIOUS
  <2>5. PICK e : e = cur[d]
    OBVIOUS
  <2>6. Drops(p, q) /\ Head(p) = e /\ Caused(p, list, <<m, j>>, <<n, Len(list)>>)
    BY <1>3, <2>1, <2>2, <2>3, <2>4, <2>5
  <2>7. PICK o \in Masks, i \in Nat :
         Onward(e, list, m, j, o, i) /\ Caused(q, list, <<o, i>>, <<n, Len(list)>>)
    <3>1. PICK u : u = <<m, j>>
      OBVIOUS
    <3>2. PICK v : v = <<n, Len(list)>>
      OBVIOUS
    <3>3. Drops(p, q) /\ Head(p) = e /\ Caused(p, list, u, v)
      BY <2>6, <3>1, <3>2
    <3>4. PICK c : <<u, c>> \in Causes(e, list) /\ Caused(q, list, c, v)
      BY <3>3, CausedDrops
    <3>5. PICK o \in Masks, i \in Nat : c = <<o, i>> /\ Onward(e, list, m, j, o, i)
      BY <3>1, <3>4, StoryMoves
    <3>6. Caused(q, list, <<o, i>>, <<n, Len(list)>>)
      BY <3>2, <3>4, <3>5
    <3> QED BY <3>5, <3>6
  <2>8. ~Yields(e) /\ (Sure(d) => o = mods')
    BY <1>1, <2>1, <2>5, <2>7 DEF Yields, BitsAfter, Onward
  <2>9. pc'[d] = "idle" /\ HeldBits' = HeldBits
    BY <1>1 DEF EvdevSound, HeldBits
  <2>10. Told(Level, trace', d, made'[d], 0, i)
         /\ Caused(Pending(d)', made'[d], <<o, i>>, <<n, Len(made'[d])>>)
    BY <1>1, <2>1, <2>3, <2>4, <2>7, <2>8 DEF Onward
  <2> QED BY <1>5, <2>1, <2>8, <2>9, <2>10 DEF EvdevTold
<1> QED BY <1>4, <1>5

LEMMA ModStoreEInv ==
    ASSUME EInv, UNCHANGED recorder, NEW d \in Devices, ModStore(d)
    PROVE  EInv'
<1>1. UNCHANGED <<inputs, held, made, queue, cur, reg, rel, moved, trace>>
      /\ pc[d] = "store" /\ pc' = [pc EXCEPT ![d] = "idle"] /\ EvdevSound
      /\ cur[d].type = "key" /\ cur[d].code \in ModKeys
      /\ mods' = Masked(reg[d], BitOf[cur[d].code], cur[d].value)
  BY DEF ModStore, Done, user, EvdevSound, EInv
<1>2. mods' \in Masks
  <2>1. reg[d] \in Masks
    BY <1>1 DEF EvdevSound
  <2>2. BitOf[cur[d].code] \in {BitOf[k] : k \in ModKeys}
    BY <1>1
  <2>3. \A m \in Masks, b \in {BitOf[k] : k \in ModKeys} : \A v : Masked(m, b, v) \in Masks
    BY DEF Masked, Masks
  <2> QED BY <1>1, <2>1, <2>2, <2>3
<1>3. EvdevSound'
  <2>1. IsSeq(trace') /\ reg' \in [Devices -> Masks] /\ rel' \in [Devices -> [Axes -> Int]]
    BY <1>1 DEF EvdevSound
  <2> QED BY <1>1, <1>2, <2>1, MapSound
<1>4. \A x \in Devices : EvdevTold(x) => EvdevTold(x)'
  BY <1>1, ModStoreTold
<1>5. \A x \in Devices, a \in Axes : MotionOf(x, a) => MotionOf(x, a)'
  <2>1. ASSUME NEW x \in Devices, NEW a \in Axes, MotionOf(x, a) PROVE MotionOf(x, a)'
    <3>1. cur[d].type # "rel" /\ UNCHANGED trace
      BY <1>1
    <3> QED BY <1>1, <2>1, <3>1, MapStill
  <2> QED BY <2>1
<1> QED BY <1>3, <1>4, <1>5 DEF EInv, EvdevTells, EvdevMoves

\* Motion goes from the event in hand to the accumulator.
LEMMA AccumulateMoves ==
    ASSUME EvdevSound, NEW d \in Devices, Accumulate(d), NEW x \in Devices, NEW a \in Axes,
           MotionOf(x, a)
    PROVE  MotionOf(x, a)'
<1>1. PICK k \in Int : /\ Recorded(trace, x, a, 0, k)
                       /\ Coming(Pending(x), a, k + rel[x][a], moved[x][a])
  BY DEF MotionOf
<1>2. PICK label \in {"idle", "flush"} : pc' = [pc EXCEPT ![d] = label]
  BY DEF Accumulate, Done
<1>3. UNCHANGED <<queue, cur, trace, moved>> /\ pc[d] = "map" /\ cur[d].type = "rel"
      /\ rel' = [rel EXCEPT ![d][cur[d].code] = @ + cur[d].value]
  BY DEF Accumulate
<1>4. /\ Drops(Pending(d), Pending(d)') /\ Head(Pending(d)) = cur[d]
      /\ \A y \in Devices : y # d => Pending(y)' = Pending(y)
  BY <1>2, <1>3, MapPending
<1>5. CASE x # d
  <2>1. rel'[x] = rel[x] /\ Pending(x)' = Pending(x)
    BY <1>3, <1>4, <1>5 DEF EvdevSound
  <2> QED BY <1>1, <1>3, <2>1 DEF MotionOf
<1>6. CASE x = d
  <2>1. PICK p : p = Pending(d)
    OBVIOUS
  <2>2. PICK q : q = Pending(d)'
    OBVIOUS
  <2>3. PICK e : e = cur[d]
    OBVIOUS
  <2>4. PICK b : b = k + rel[d][a]
    OBVIOUS
  <2>5. PICK z : z = moved[d][a]
    OBVIOUS
  <2>6. Drops(p, q) /\ Head(p) = e /\ Coming(p, a, b, z)
    BY <1>1, <1>4, <1>6, <2>1, <2>2, <2>3, <2>4, <2>5
  <2>7. PICK c : <<b, c>> \in Plus(Slid(e, a)) /\ Coming(q, a, c, z)
    BY <2>6, ComingDrops
  <2>8. c = b + Slid(e, a)
    BY <2>7 DEF Plus
  <2>9. Own(d, e)
    BY <1>3, <2>3, CurIsOwn
  <2>10. e.code \in Axes /\ e.value \in Int /\ e.type = "rel"
    BY <1>3, <2>3, <2>9 DEF Own
  <2>11. rel \in [Devices -> [Axes -> Int]]
    BY DEF EvdevSound
  <2>12. rel[d][a] \in Int /\ rel'[d][a] = rel[d][a] + Slid(e, a) /\ Slid(e, a) \in Int
    BY <1>3, <2>3, <2>10, <2>11 DEF Slid
  <2>13. c = k + rel'[d][a]
    BY <2>4, <2>8, <2>12
  <2>14. Recorded(trace', x, a, 0, k) /\ Coming(Pending(x)', a, k + rel'[x][a], moved'[x][a])
    BY <1>1, <1>3, <1>6, <2>2, <2>5, <2>7, <2>13
  <2> QED BY <2>14 DEF MotionOf
<1> QED BY <1>5, <1>6

LEMMA AccumulateEInv ==
    ASSUME EInv, UNCHANGED recorder, NEW d \in Devices, Accumulate(d)
    PROVE  EInv'
<1>1. PICK label \in {"idle", "flush"} : pc' = [pc EXCEPT ![d] = label]
  BY DEF Accumulate, Done
<1>2. UNCHANGED <<inputs, held, made, queue, cur, reg, mods, moved, trace>> /\ EvdevSound
      /\ pc[d] = "map" /\ cur[d].type = "rel"
      /\ rel' = [rel EXCEPT ![d][cur[d].code] = @ + cur[d].value]
  BY DEF Accumulate, user, EInv
<1>3. EvdevSound'
  <2>1. cur[d].code \in Axes /\ cur[d].value \in Int
    BY <1>2, CurIsOwn DEF Own
  <2>2. rel \in [Devices -> [Axes -> Int]]
    BY <1>2 DEF EvdevSound
  <2>3. rel' \in [Devices -> [Axes -> Int]]
    <3>1. PICK e : e = cur[d]
      OBVIOUS
    <3>2. e.code \in Axes /\ e.value \in Int /\ rel' = [rel EXCEPT ![d][e.code] = @ + e.value]
      BY <1>2, <2>1, <3>1
    <3>3. rel[d] \in [Axes -> Int]
      BY <2>2
    <3>4. [rel[d] EXCEPT ![e.code] = @ + e.value] \in [Axes -> Int]
      BY <3>2, <3>3
    <3>5. rel' = [rel EXCEPT ![d] = [rel[d] EXCEPT ![e.code] = @ + e.value]]
      BY <3>2
    <3> QED BY <2>2, <3>4, <3>5
  <2>4. IsSeq(trace') /\ reg' \in [Devices -> Masks] /\ mods' \in Masks
    BY <1>2 DEF EvdevSound
  <2> QED BY <1>1, <1>2, <2>3, <2>4, MapSound
<1>4. \A x \in Devices : EvdevTold(x) => EvdevTold(x)'
  <2>1. ASSUME NEW x \in Devices, EvdevTold(x) PROVE EvdevTold(x)'
    <3>1. ~Yields(cur[d])
      BY <1>2 DEF Yields
    <3>2. IF Yields(cur[d])
          THEN \E s : Adds(trace, s, trace') /\ s.dev = d /\ s.rec = SaidBy(cur[d], mods)
          ELSE UNCHANGED trace
      BY <1>2, <3>1
    <3>3. ~(cur[d].type = "key" /\ cur[d].code \in ModKeys)
      BY <1>2
    <3> QED BY <1>1, <1>2, <2>1, <3>2, <3>3, MapTold
  <2> QED BY <2>1
<1>5. \A x \in Devices, a \in Axes : MotionOf(x, a) => MotionOf(x, a)'
  BY <1>2, AccumulateMoves
<1> QED BY <1>3, <1>4, <1>5 DEF EInv, EvdevTells, EvdevMoves

\* Motion goes from the accumulator to the trace.
LEMMA FlushSteps ==
    ASSUME EvdevSound, NEW d \in Devices, Flush(d)
    PROVE  /\ \E e : /\ Adds(trace, e, trace') /\ e.dev = d
                     /\ e.rec.kind = "move" /\ e.rec.value = rel[d]
           /\ IsSeq(trace')
           /\ \A x \in Devices : Pending(x)' = Pending(x)
           /\ UNCHANGED <<inputs, held, made, queue, cur, reg, mods, moved>>
           /\ pc' = [pc EXCEPT ![d] = "idle"]
           /\ rel' = [rel EXCEPT ![d] = Still]
<1>1. /\ UNCHANGED <<inputs, held, made, queue, cur, reg, mods, moved>>
      /\ pc' = [pc EXCEPT ![d] = "idle"] /\ pc[d] = "flush"
      /\ rel' = [rel EXCEPT ![d] = Still]
      /\ Emit(d, Move(rel[d]))
  BY DEF Flush, Done, user
<1>2. PICK r : r = Move(rel[d])
  OBVIOUS
<1>3. PICK e : e = [dev |-> d, rec |-> r]
  OBVIOUS
<1>4. Emit(d, r)
  BY <1>1, <1>2
<1>5. Adds(trace, e, trace') /\ IsSeq(trace')
  BY <1>3, <1>4, EmitAdds
<1>6. e.dev = d /\ e.rec.kind = "move" /\ e.rec.value = rel[d]
  BY <1>2, <1>3 DEF Move, Record
<1>7. \A x \in Devices : Pending(x)' = Pending(x)
  BY <1>1 DEF EvdevSound, Pending
<1> QED BY <1>1, <1>5, <1>6, <1>7

LEMMA FlushMoves ==
    ASSUME EvdevSound, NEW d \in Devices, Flush(d), NEW x \in Devices, NEW a \in Axes,
           MotionOf(x, a)
    PROVE  MotionOf(x, a)'
<1>1. PICK k \in Int : /\ Recorded(trace, x, a, 0, k)
                       /\ Coming(Pending(x), a, k + rel[x][a], moved[x][a])
  BY DEF MotionOf
<1>2. PICK e : /\ Adds(trace, e, trace') /\ e.dev = d
               /\ e.rec.kind = "move" /\ e.rec.value = rel[d]
  BY FlushSteps
<1>3. Pending(x)' = Pending(x) /\ moved' = moved /\ rel' = [rel EXCEPT ![d] = Still]
  BY FlushSteps
<1>4. PICK i : i = k + Distance(e, x, a)
  OBVIOUS
<1>5. rel \in [Devices -> [Axes -> Int]]
  BY DEF EvdevSound
<1>6. i \in Int /\ Distance(e, x, a) \in Int /\ i + rel'[x][a] = k + rel[x][a]
  <2>1. CASE x = d
    <3>1. Distance(e, x, a) = rel[x][a] /\ rel'[x][a] = 0 /\ rel[x][a] \in Int
      BY <1>2, <1>3, <1>5, <2>1 DEF Distance, Still
    <3> QED BY <1>4, <3>1
  <2>2. CASE x # d
    <3>1. Distance(e, x, a) = 0 /\ rel'[x][a] = rel[x][a] /\ rel[x][a] \in Int
      BY <1>2, <1>3, <1>5, <2>2 DEF Distance
    <3> QED BY <1>4, <3>1
  <2> QED BY <2>1, <2>2
<1>7. Recorded(trace', x, a, 0, i)
  <2>1. PICK s : s = trace
    OBVIOUS
  <2>2. PICK t : t = trace'
    OBVIOUS
  <2>3. <<k, i>> \in Plus(Distance(e, x, a))
    BY <1>4, <1>6 DEF Plus
  <2>4. Adds(s, e, t) /\ Recorded(s, x, a, 0, k)
    BY <1>1, <1>2, <2>1, <2>2
  <2>5. Recorded(t, x, a, 0, i)
    BY <2>3, <2>4, RecordedAdds
  <2> QED BY <2>2, <2>5
<1>8. Coming(Pending(x)', a, i + rel'[x][a], moved'[x][a])
  BY <1>1, <1>3, <1>6
<1> QED BY <1>6, <1>7, <1>8 DEF MotionOf

LEMMA FlushEInv ==
    ASSUME EInv, UNCHANGED recorder, NEW d \in Devices, Flush(d)
    PROVE  EInv'
<1>1. EvdevSound
  BY DEF EInv
<1>2. PICK e : /\ Adds(trace, e, trace') /\ e.dev = d
               /\ e.rec.kind = "move" /\ e.rec.value = rel[d]
  BY <1>1, FlushSteps
<1>3. /\ IsSeq(trace')
      /\ \A x \in Devices : Pending(x)' = Pending(x)
      /\ UNCHANGED <<inputs, held, made, queue, cur, reg, mods, moved>>
      /\ pc' = [pc EXCEPT ![d] = "idle"]
      /\ rel' = [rel EXCEPT ![d] = Still]
  BY <1>1, FlushSteps
<1>4. HeldBits' = HeldBits
  BY <1>3 DEF HeldBits
<1>5. EvdevSound'
  <2>1. rel' \in [Devices -> [Axes -> Int]]
    BY <1>1, <1>3 DEF EvdevSound, Still
  <2>2. pc' \in [Devices -> {"idle", "map", "store", "flush"}]
        /\ \A x \in Devices : pc'[x] = "store" => pc[x] = "store"
    BY <1>1, <1>3 DEF EvdevSound
  <2> QED BY <1>1, <1>3, <2>1, <2>2 DEF EvdevSound
<1>6. \A x \in Devices : EvdevTold(x) => EvdevTold(x)'
  <2>1. ASSUME NEW x \in Devices, EvdevTold(x) PROVE EvdevTold(x)'
    <3>1. PICK j \in Nat, m \in Masks, n \in Masks :
            /\ Told(Level, trace, x, made[x], 0, j)
            /\ Caused(Pending(x), made[x], <<m, j>>, <<n, Len(made[x])>>)
            /\ Sure(x) => /\ m = mods /\ n = HeldBits
                          /\ pc[x] = "store" => reg[x] = mods
      BY <2>1 DEF EvdevTold
    <3>2. PICK s : s = trace
      OBVIOUS
    <3>3. PICK t : t = trace'
      OBVIOUS
    <3>4. PICK list : list = made[x]
      OBVIOUS
    <3>5. Adds(s, e, t) /\ Told(Level, s, x, list, 0, j) /\ ~Kept(e, x)
      BY <1>2, <3>1, <3>2, <3>3, <3>4 DEF Kept
    <3>6. Told(Level, t, x, list, 0, j)
      BY <3>5, ToldAddsSame
    <3>7. pc'[x] = "store" => pc[x] = "store"
      BY <1>1, <1>3 DEF EvdevSound
    <3>8. Told(Level, trace', x, made'[x], 0, j)
          /\ Caused(Pending(x)', made'[x], <<m, j>>, <<n, Len(made'[x])>>)
      BY <1>3, <3>1, <3>3, <3>4, <3>6
    <3> QED BY <1>3, <1>4, <3>1, <3>7, <3>8 DEF EvdevTold
  <2> QED BY <2>1
<1>7. \A x \in Devices, a \in Axes : MotionOf(x, a) => MotionOf(x, a)'
  BY <1>1, FlushMoves
<1> QED BY <1>5, <1>6, <1>7 DEF EInv, EvdevTells, EvdevMoves

LEMMA EvdevStep ==
    ASSUME EInv, UNCHANGED recorder, EvdevNext
    PROVE  EInv'
<1>1. ASSUME NEW d \in Devices, NEW k \in KeysOf[d], NEW value \in 0..2, Strike(d, k, value)
      PROVE  EInv'
  <2>1. EvdevSound
    BY DEF EInv
  <2>2. EvdevSound'
    BY <1>1, <2>1, StrikeSound
  <2>3. \A x \in Devices : EvdevTold(x) => EvdevTold(x)'
    BY <1>1, <2>1, StrikeTold
  <2>4. \A x \in Devices, a \in Axes : MotionOf(x, a) => MotionOf(x, a)'
    BY <1>1, <2>1, StrikeMoves
  <2> QED BY <2>2, <2>3, <2>4 DEF EInv, EvdevTells, EvdevMoves
<1>2. ASSUME NEW d \in Mice, NEW axis \in Axes, Slide(d, axis) PROVE EInv'
  <2>1. EvdevSound /\ d \in Devices
    BY <1>2, DeskAssumption DEF EInv
  <2>2. EvdevSound'
    BY <1>2, <2>1, SlideSound
  <2>3. \A x \in Devices : EvdevTold(x) => EvdevTold(x)'
    BY <1>2, <2>1, SlideTold
  <2>4. \A x \in Devices, a \in Axes : MotionOf(x, a) => MotionOf(x, a)'
    BY <1>2, <2>1, SlideMoves
  <2> QED BY <2>2, <2>3, <2>4 DEF EInv, EvdevTells, EvdevMoves
<1>3. ASSUME NEW d \in Mice, NEW way \in Ways, Turn(d, way) PROVE EInv'
  <2>1. EvdevSound /\ d \in Devices
    BY <1>3, DeskAssumption DEF EInv
  <2>2. EvdevSound'
    BY <1>3, <2>1, TurnSound
  <2>3. \A x \in Devices : EvdevTold(x) => EvdevTold(x)'
    BY <1>3, <2>1, TurnTold
  <2>4. \A x \in Devices, a \in Axes : MotionOf(x, a) => MotionOf(x, a)'
    BY <1>3, <2>1, TurnMoves
  <2> QED BY <2>2, <2>3, <2>4 DEF EInv, EvdevTells, EvdevMoves
<1>4. CASE Tick
  BY <1>4, TickEInv
<1>5. ASSUME NEW d \in Devices, Task(d) PROVE EInv'
  BY <1>5, TakeEInv, ModLoadEInv, ModStoreEInv, MapKeyEInv, MapWheelEInv, AccumulateEInv,
     FlushEInv DEF Task
<1> QED BY <1>1, <1>2, <1>3, <1>4, <1>5 DEF EvdevNext

LEMMA EInvInit == RecordingsInit => EInv
<1> SUFFICES ASSUME RecordingsInit PROVE EInv
  OBVIOUS
<1>1. /\ trace = <<>> /\ recorder \in {"evdev", "portal"}
      /\ pc = [d \in Devices |-> "idle"] /\ queue = [d \in Devices |-> <<>>]
      /\ cur = [d \in Devices |-> Nothing] /\ reg = [d \in Devices |-> {}]
      /\ rel = [d \in Devices |-> Still] /\ moved = [d \in Devices |-> Still]
      /\ mods = {} /\ made = [d \in Devices |-> <<>>] /\ held = [d \in Devices |-> {}]
  BY DEF RecordingsInit, RecordingInit, EvdevInit
<1>2. IsSeq(<<>>) /\ Len(<<>>) = 0
  BY NoneIsSeq
<1>3. \A d \in Devices : Pending(d) = <<>>
  BY <1>1 DEF Pending
<1>4. Still \in [Axes -> Int] /\ {} \in Masks
  BY DEF Still, Masks
<1>5. EvdevSound
  <2>1. /\ pc \in [Devices -> {"idle", "map", "store", "flush"}]
        /\ DOMAIN cur = Devices /\ DOMAIN queue = Devices /\ reg \in [Devices -> Masks]
        /\ rel \in [Devices -> [Axes -> Int]] /\ moved \in [Devices -> [Axes -> Int]]
        /\ DOMAIN made = Devices /\ DOMAIN held = Devices /\ mods \in Masks
    BY <1>1, <1>4
  <2>2. \A d \in Devices : IsSeq(queue[d]) /\ IsSeq(made[d]) /\ held[d] \subseteq KeysOf[d]
                           /\ pc[d] # "store"
    BY <1>1, <1>2
  <2>3. \A d \in Devices : \A i \in 1..Len(Pending(d)) : Own(d, Pending(d)[i])
    <3>1. \A d \in Devices : 1..Len(Pending(d)) = {}
      BY <1>2, <1>3
    <3> QED BY <3>1
  <2> QED BY <1>1, <1>2, <2>1, <2>2, <2>3 DEF EvdevSound
<1>6. HeldBits = {}
  <2>1. UNION Range(held) = {}
    BY <1>1 DEF Range
  <2> QED BY <2>1 DEF HeldBits
<1>7. ASSUME NEW d \in Devices PROVE EvdevTold(d)
  <2>1. Told(Level, <<>>, d, <<>>, 0, 0)
    BY <1>2, WayOfNone DEF Told
  <2>2. Caused(<<>>, <<>>, <<{}, 0>>, <<{}, 0>>)
    BY <1>2, WayOfNone DEF Caused
  <2>3. made[d] = <<>> /\ reg[d] = {}
    BY <1>1
  <2> QED BY <1>1, <1>2, <1>3, <1>4, <1>6, <2>1, <2>2, <2>3 DEF EvdevTold
<1>8. ASSUME NEW d \in Devices, NEW a \in Axes PROVE MotionOf(d, a)
  <2>1. Recorded(<<>>, d, a, 0, 0)
    BY <1>2, WayOfNone DEF Recorded
  <2>2. Coming(<<>>, a, 0, 0)
    BY <1>2, WayOfNone DEF Coming
  <2>3. 0 + rel[d][a] = 0 /\ moved[d][a] = 0
    BY <1>1 DEF Still
  <2> QED BY <1>1, <1>3, <2>1, <2>2, <2>3 DEF MotionOf
<1> QED BY <1>5, <1>7, <1>8 DEF EInv, EvdevTells, EvdevMoves

\* Whatever leaves the evdev tasks, the user and the trace alone.
LEMMA RestEInv ==
    ASSUME EInv, UNCHANGED <<user, trace, evdev, recorder>>
    PROVE  EInv'
<1>1. UNCHANGED <<trace, recorder, inputs, held, made, clock, queue, pc, cur, reg, rel, mods,
                  moved>>
  BY DEF user, evdev, task
<1>2. \A d \in Devices : Pending(d)' = Pending(d)
  BY <1>1 DEF Pending
<1>3. EvdevSound'
  BY <1>1, <1>2 DEF EInv, EvdevSound
<1>4. HeldBits' = HeldBits
  BY <1>1 DEF HeldBits
<1>5. \A d \in Devices : EvdevTold(d) => EvdevTold(d)'
  <2>1. ASSUME NEW d \in Devices, EvdevTold(d) PROVE EvdevTold(d)'
    <3>1. Sure(d) => mods' = mods /\ (pc'[d] = "store" => reg'[d] = mods')
      BY <1>1, <2>1 DEF EvdevTold
    <3> QED BY <1>1, <1>2, <2>1, <3>1, TellingStays
  <2> QED BY <2>1
<1>6. \A d \in Devices, a \in Axes : MotionOf(d, a) => MotionOf(d, a)'
  BY <1>1, <1>2, MotionStays
<1> QED BY <1>1, <1>3, <1>5, <1>6 DEF EInv, EvdevTells, EvdevMoves

\* What a portal recording does to the desk.
LEMMA PortalSound ==
    ASSUME EvdevSound, UNCHANGED <<evdev, recorder>>, IsSeq(trace'),
           DOMAIN made' = Devices, DOMAIN held' = Devices,
           \A d \in Devices : IsSeq(made'[d]) /\ held'[d] \subseteq KeysOf[d]
    PROVE  EvdevSound'
<1>1. UNCHANGED <<recorder, clock, queue, pc, cur, reg, rel, mods, moved>>
  BY DEF evdev, task
<1>2. \A d \in Devices : Pending(d)' = Pending(d)
  BY <1>1 DEF Pending
<1> QED BY <1>1, <1>2 DEF EvdevSound

LEMMA PumpTrace ==
    ASSUME EvdevSound, PumpReads
    PROVE  /\ IsSeq(trace')
           /\ UNCHANGED trace \/ \E d, rec : Emit(d, rec)
<1>1. UNCHANGED trace \/ \E d, rec : Emit(d, rec)
  BY Zenon DEF PumpReads, MapPress, MapModifiers, MapPlace, MapMotion, MapScroll
<1>2. ASSUME NEW d, NEW rec, Emit(d, rec) PROVE IsSeq(trace')
  BY <1>2, EmitAdds
<1>3. IsSeq(trace)
  BY DEF EvdevSound
<1> QED BY <1>1, <1>2, <1>3

LEMMA PortalStep ==
    ASSUME EInv, recorder = "portal", UNCHANGED <<evdev, recorder>>, PortalNext
    PROVE  EInv'
<1>1. EvdevSound
  BY DEF EInv
<1>2. EvdevSound' => EInv'
  BY DEF EInv, EvdevTells, EvdevMoves
<1>3. DOMAIN made = Devices /\ DOMAIN held = Devices /\ IsSeq(trace)
      /\ \A d \in Devices : IsSeq(made[d]) /\ held[d] \subseteq KeysOf[d]
  BY <1>1 DEF EvdevSound
<1>4. ASSUME NEW d \in Devices, NEW k \in KeysOf[d], NEW value \in 0..1, KeyMoves(d, k, value)
      PROVE  EvdevSound'
  <2>1. Strikes(d, k, value) /\ trace' = trace
    BY <1>4 DEF KeyMoves, Sends
  <2>2. DOMAIN made' = Devices /\ \A x \in Devices : IsSeq(made'[x])
    BY <1>1, <2>1, StrikeMade
  <2>3. DOMAIN held' = Devices /\ \A x \in Devices : held'[x] \subseteq KeysOf[x]
    BY <1>3, <2>1 DEF Strikes
  <2> QED BY <1>1, <1>3, <2>1, <2>2, <2>3, PortalSound
<1>5. ASSUME NEW d \in Mice, NEW axis \in Axes, NEW by \in Steps, Glide(d, axis, by)
      PROVE  EvdevSound'
  <2>1. UNCHANGED <<trace, made, held>>
    BY <1>5 DEF Glide, Sends
  <2> QED BY <1>1, <1>3, <2>1, PortalSound
<1>6. ASSUME NEW d \in Mice, NEW at \in Places, Aim(d, at) PROVE EvdevSound'
  <2>1. UNCHANGED <<trace, made, held>>
    BY <1>6 DEF Aim, Sends
  <2> QED BY <1>1, <1>3, <2>1, PortalSound
<1>7. ASSUME NEW d, NEW a, Wheel(d, a) \/ Finger(d, a) PROVE EvdevSound'
  <2>1. UNCHANGED <<trace, made, held>>
    BY <1>7 DEF Wheel, Finger, Turns, Sends
  <2> QED BY <1>1, <1>3, <2>1, PortalSound
<1>8. CASE PumpReads
  <2>1. IsSeq(trace') /\ UNCHANGED <<made, held>>
    BY <1>1, <1>8, PumpTrace DEF PumpReads, user
  <2> QED BY <1>1, <1>2, <1>3, <2>1, PortalSound
<1> QED BY <1>2, <1>4, <1>5, <1>6, <1>7, <1>8 DEF PortalNext

LEMMA NothingPending ==
    ASSUME Caught, NEW d \in Devices
    PROVE  Pending(d) = <<>> /\ Len(Pending(d)) = 0
  BY NoneIsSeq DEF Caught, EvdevCaught, Pending

------------------------------------------------------------------------------
(* Recordings: what a portal recording has told, and is about to tell.      *)

\* An event on the wire is a press of d, what the pump writes of it under a mask,
\* and the mask after it.
Counts(e, d) ==
    /\ e.ev \in {"button", "key"} /\ e.dev = d
    /\ e.value = 1 /\ e.code \notin ModKeys
Written(e, bits) == Press(e.code, bits)
Shown(e, bits) == IF e.ev = "modifiers" THEN e.bits ELSE bits

Reads(e, d, list) ==
    {p \in (Masks \X Nat) \X (Masks \X Nat) :
        /\ p[2][1] = Shown(e, p[1][1])
        /\ IF Counts(e, d) THEN <<p[1][2], p[2][2]>> \in Nexts("chords", list, Written(e, p[1][1]))
                           ELSE <<p[1][2], p[2][2]>> \in Same}

\* What the pump will tell of d is what the list has after a, up to b.
Unread(s, d, list, a, b) == Way(Len(s), [i \in 1..Len(s) |-> Reads(s[i], d, list)], a, b)

\* The trace has told k of the presses of d, and the wire will tell
\* the rest, from the mask of the pump to the modifiers held now.
PortalTold(d) ==
    \E k \in Nat : /\ Told("chords", trace, d, made[d], 0, k)
                   /\ Unread(wire, d, made[d], <<mask, k>>, <<HeldBits, Len(made[d])>>)

PInv == /\ IsSeq(wire)
        /\ recorder = "portal" => \A d \in Devices : PortalTold(d)

\* From mask m and number j, event e of the wire leads to mask o and number i.
Leads(e, d, list, m, j, o, i) ==
    /\ o = Shown(e, m)
    /\ IF Counts(e, d) THEN <<j, i>> \in Nexts("chords", list, Written(e, m)) ELSE i = j

LEMMA ReadsIs ==
    ASSUME NEW e, NEW d, NEW list, NEW j, NEW k, NEW m, NEW n
    PROVE  <<<<m, j>>, <<n, k>>>> \in Reads(e, d, list) <=>
              /\ m \in Masks /\ n \in Masks /\ j \in Nat /\ k \in Nat
              /\ Leads(e, d, list, m, j, n, k)
<1> DEFINE p == <<<<m, j>>, <<n, k>>>>
<1>1. p[1] = <<m, j>> /\ p[2] = <<n, k>>
  OBVIOUS
<1>2. p[1][1] = m /\ p[1][2] = j /\ p[2][1] = n /\ p[2][2] = k
  OBVIOUS
<1>3. p \in (Masks \X Nat) \X (Masks \X Nat) <=>
         m \in Masks /\ n \in Masks /\ j \in Nat /\ k \in Nat
  <2>1. \A S, T, u, v : <<u, v>> \in S \X T <=> u \in S /\ v \in T
    OBVIOUS
  <2>2. <<m, j>> \in Masks \X Nat <=> m \in Masks /\ j \in Nat
    BY <2>1, Zenon
  <2>3. <<n, k>> \in Masks \X Nat <=> n \in Masks /\ k \in Nat
    BY <2>1, Zenon
  <2>4. p \in (Masks \X Nat) \X (Masks \X Nat)
           <=> <<m, j>> \in Masks \X Nat /\ <<n, k>> \in Masks \X Nat
    BY <2>1, Zenon
  <2> QED BY <2>2, <2>3, <2>4
<1> HIDE DEF p
<1>4. p \in Reads(e, d, list) <=>
         /\ p \in (Masks \X Nat) \X (Masks \X Nat)
         /\ p[2][1] = Shown(e, p[1][1])
         /\ IF Counts(e, d) THEN <<p[1][2], p[2][2]>> \in Nexts("chords", list, Written(e, p[1][1]))
                            ELSE <<p[1][2], p[2][2]>> \in Same
  BY DEF Reads
<1>5. p \in Reads(e, d, list) <=>
              /\ m \in Masks /\ n \in Masks /\ j \in Nat /\ k \in Nat
              /\ n = Shown(e, m)
              /\ IF Counts(e, d) THEN <<j, k>> \in Nexts("chords", list, Written(e, m))
                                 ELSE <<j, k>> \in Same
  BY <1>2, <1>3, <1>4
<1>6. <<j, k>> \in Same <=> j \in Nat /\ k = j
  BY SameIs
<1> QED BY <1>5, <1>6 DEF p, Leads

LEMMA ReadsPairs ==
    ASSUME NEW e, NEW d, NEW list, NEW u, NEW v, <<u, v>> \in Reads(e, d, list)
    PROVE  v \in Masks \X Nat
<1> DEFINE p == <<u, v>>
<1>1. p[2] = v
  OBVIOUS
<1> HIDE DEF p
<1>2. p \in (Masks \X Nat) \X (Masks \X Nat)
  BY DEF p, Reads
<1> QED BY <1>1, <1>2

LEMMA ReadsLeads ==
    ASSUME NEW e, NEW d, NEW list, NEW u, NEW c, <<u, c>> \in Reads(e, d, list),
           NEW m, NEW j, u = <<m, j>>
    PROVE  \E o \in Masks, i \in Nat : c = <<o, i>> /\ Leads(e, d, list, m, j, o, i)
<1>1. c \in Masks \X Nat
  BY ReadsPairs
<1>2. PICK o \in Masks, i \in Nat : c = <<o, i>>
  BY <1>1
<1>3. <<<<m, j>>, <<o, i>>>> \in Reads(e, d, list)
  BY <1>2
<1>4. Leads(e, d, list, m, j, o, i)
  BY <1>3, ReadsIs
<1> QED BY <1>2, <1>4

LEMMA ReadsExtend ==
    ASSUME NEW list, NEW more, Extends(list, more), NEW e, NEW d
    PROVE  Reads(e, d, list) \subseteq Reads(e, d, more)
<1>1. \A rec : Nexts("chords", list, rec) \subseteq Nexts("chords", more, rec)
  BY NextsExtend
<1>2. ASSUME NEW p \in Reads(e, d, list) PROVE p \in Reads(e, d, more)
  <2>1. /\ p \in (Masks \X Nat) \X (Masks \X Nat)
        /\ p[2][1] = Shown(e, p[1][1])
        /\ IF Counts(e, d) THEN <<p[1][2], p[2][2]>> \in Nexts("chords", list, Written(e, p[1][1]))
                           ELSE <<p[1][2], p[2][2]>> \in Same
    BY <1>2 DEF Reads
  <2>2. IF Counts(e, d) THEN <<p[1][2], p[2][2]>> \in Nexts("chords", more, Written(e, p[1][1]))
                        ELSE <<p[1][2], p[2][2]>> \in Same
    BY <1>1, <2>1
  <2> QED BY <2>1, <2>2 DEF Reads
<1> QED BY <1>2

LEMMA UnreadExtends ==
    ASSUME NEW s, IsSeq(s), NEW d, NEW list, NEW more, Extends(list, more), NEW a, NEW b,
           Unread(s, d, list, a, b)
    PROVE  Unread(s, d, more, a, b)
<1> DEFINE R == [i \in 1..Len(s) |-> Reads(s[i], d, list)]
           Q == [i \in 1..Len(s) |-> Reads(s[i], d, more)]
<1>1. Len(s) \in Nat
  BY DEF IsSeq
<1>2. \A i \in 1..Len(s) : R[i] \subseteq Q[i]
  BY ReadsExtend
<1>3. Way(Len(s), R, a, b)
  BY DEF Unread
<1> HIDE DEF R, Q
<1>4. Way(Len(s), Q, a, b)
  BY <1>1, <1>2, <1>3, WayAllows
<1> QED BY <1>4 DEF Unread, Q

LEMMA UnreadAdds ==
    ASSUME NEW s, NEW e, NEW t, Adds(s, e, t), NEW d, NEW list, NEW a, NEW b, NEW c,
           Unread(s, d, list, a, b), <<b, c>> \in Reads(e, d, list)
    PROVE  Unread(t, d, list, a, c)
<1> DEFINE R == [i \in 1..Len(s) |-> Reads(s[i], d, list)]
           Q == [i \in 1..Len(t) |-> Reads(t[i], d, list)]
<1>1. Len(s) \in Nat /\ Len(t) = Len(s) + 1
  BY DEF Adds
<1>2. \A i \in 1..Len(s) : R[i] = Q[i]
  BY <1>1 DEF Adds
<1>3. <<b, c>> \in Q[Len(s) + 1]
  BY <1>1 DEF Adds
<1>4. Way(Len(s), R, a, b)
  BY DEF Unread
<1> HIDE DEF R, Q
<1>5. Way(Len(s) + 1, Q, a, c)
  BY <1>1, <1>2, <1>3, <1>4, WayGoesOn
<1> QED BY <1>1, <1>5 DEF Unread, Q

LEMMA UnreadDrops ==
    ASSUME NEW s, NEW t, Drops(s, t), NEW d, NEW list, NEW a, NEW b,
           Unread(s, d, list, a, b)
    PROVE  \E c : <<a, c>> \in Reads(Head(s), d, list) /\ Unread(t, d, list, c, b)
<1> DEFINE R == [i \in 1..Len(s) |-> Reads(s[i], d, list)]
           Q == [i \in 1..Len(t) |-> Reads(t[i], d, list)]
<1>1. Len(s) \in Nat \ {0} /\ Len(t) = Len(s) - 1
  BY DEF Drops
<1>2. \A i \in 1..(Len(s) - 1) : R[i + 1] = Q[i]
  BY <1>1 DEF Drops
<1>3. R[1] = Reads(Head(s), d, list)
  BY <1>1 DEF Drops
<1>4. Way(Len(s), R, a, b)
  BY DEF Unread
<1> HIDE DEF R, Q
<1>5. \E c : <<a, c>> \in R[1] /\ Way(Len(s) - 1, Q, c, b)
  BY <1>1, <1>2, <1>4, WayBegins
<1> QED BY <1>1, <1>3, <1>5 DEF Unread, Q

\* One event more on the wire, and perhaps one more record in the list.
LEMMA UnreadGoesOn ==
    ASSUME NEW w, IsSeq(w), NEW e, NEW t, Adds(w, e, t), NEW d, NEW list, NEW more,
           Extends(list, more), NEW a, NEW m \in Masks, NEW o \in Masks, NEW j \in Nat,
           NEW i \in Nat, NEW b, b = <<m, j>>, NEW c, c = <<o, i>>,
           Unread(w, d, list, a, b), Leads(e, d, more, m, j, o, i)
    PROVE  Unread(t, d, more, a, c)
<1>1. Unread(w, d, more, a, b)
  BY UnreadExtends
<1>2. <<<<m, j>>, <<o, i>>>> \in Reads(e, d, more)
  BY ReadsIs
<1>3. <<b, c>> \in Reads(e, d, more)
  BY <1>2
<1> QED BY <1>1, <1>3, UnreadAdds

------------------------------------------------------------------------------
(* Recordings: the steps of a portal recording.                             *)

\* An event e on the wire, with what it may have added to the list of x.
LEMMA WireAdds ==
    ASSUME EvdevSound, NEW x \in Devices, PortalTold(x), NEW e, NEW w, Adds(wire, e, w),
           IsSeq(wire), Extends(made[x], made'[x]), UNCHANGED <<trace, mask>>,
           NEW o \in Masks, Leads(e, x, made'[x], HeldBits, Len(made[x]), o, Len(made'[x]))
    PROVE  \E k \in Nat :
              /\ Told("chords", trace', x, made'[x], 0, k)
              /\ Unread(w, x, made'[x], <<mask', k>>, <<o, Len(made'[x])>>)
<1>1. PICK k \in Nat : /\ Told("chords", trace, x, made[x], 0, k)
                       /\ Unread(wire, x, made[x], <<mask, k>>, <<HeldBits, Len(made[x])>>)
  BY DEF PortalTold
<1>2. PICK list : list = made[x]
  OBVIOUS
<1>3. PICK more : more = made'[x]
  OBVIOUS
<1>4. PICK s : s = trace
  OBVIOUS
<1>5. PICK v : v = wire
  OBVIOUS
<1>6. PICK h : h = HeldBits
  OBVIOUS
<1>7. PICK a : a = <<mask, k>>
  OBVIOUS
<1>8. PICK j : j = Len(list)
  OBVIOUS
<1>9. PICK i : i = Len(more)
  OBVIOUS
<1>10. PICK b : b = <<h, j>>
  OBVIOUS
<1>11. PICK c : c = <<o, i>>
  OBVIOUS
<1>12. h \in Masks
  BY <1>6, HeldIsMask
<1>13. Extends(list, more) /\ j \in Nat /\ i \in Nat
  BY <1>2, <1>3, <1>8, <1>9 DEF Extends
<1>14. IsSeq(s) /\ IsSeq(v) /\ Adds(v, e, w) /\ Told("chords", s, x, list, 0, k)
  BY <1>1, <1>2, <1>4, <1>5 DEF EvdevSound
<1>15. Unread(v, x, list, a, b)
  BY <1>1, <1>2, <1>5, <1>6, <1>7, <1>8, <1>10
<1>16. Leads(e, x, more, h, j, o, i)
  BY <1>2, <1>3, <1>6, <1>8, <1>9
<1>17. Told("chords", s, x, more, 0, k)
  BY <1>13, <1>14, ToldExtends
<1>18. Unread(w, x, more, a, c)
  BY <1>10, <1>11, <1>12, <1>13, <1>14, <1>15, <1>16, UnreadGoesOn
<1> QED BY <1>3, <1>4, <1>7, <1>9, <1>11, <1>17, <1>18

\* An event that is no press of x, and no change of the mask.
LEMMA LeadsNowhere ==
    ASSUME NEW e, NEW x, ~Counts(e, x), e.ev # "modifiers", NEW list, NEW m, NEW j
    PROVE  Leads(e, x, list, m, j, m, j)
  BY DEF Leads, Shown

LEMMA LeadsOn ==
    ASSUME NEW e, NEW x, Counts(e, x), NEW list, NEW more, NEW m,
           Adds(list, Written(e, m), more)
    PROVE  Leads(e, x, more, m, Len(list), m, Len(more))
<1>1. e.ev # "modifiers"
  BY DEF Counts
<1>2. <<Len(list), Len(more)>> \in Nexts("chords", more, Written(e, m))
  BY NextsIs DEF Adds, Agree
<1> QED BY <1>1, <1>2 DEF Leads, Shown

LEMMA KeyMovesPInv ==
    ASSUME EvdevSound, PInv, recorder = "portal", UNCHANGED recorder,
           NEW d \in Devices, NEW k \in KeysOf[d], NEW value \in 0..1, KeyMoves(d, k, value)
    PROVE  PInv'
<1>1. PICK e : e = [ev |-> IF k \in Buttons THEN "button" ELSE "key",
                    dev |-> d, code |-> k, value |-> value]
  OBVIOUS
<1>2. PICK f : f = [ev |-> "modifiers", bits |-> HeldBits']
  OBVIOUS
<1>3. /\ wire' = wire \o (<<e>> \o (IF HeldBits' = HeldBits THEN <<>> ELSE <<f>>))
      /\ UNCHANGED <<trace, mask>> /\ Strikes(d, k, value)
  BY <1>1, <1>2 DEF KeyMoves, Sends
<1>4. IsSeq(wire) /\ \A x \in Devices : PortalTold(x)
  BY DEF PInv
<1>5. /\ \A x \in Devices : IsSeq(made'[x]) /\ Extends(made[x], made'[x])
      /\ \A x \in Devices : x # d => made'[x] = made[x]
      /\ IF value = 1 /\ k \notin ModKeys THEN Adds(made[d], Press(k, HeldBits), made'[d])
                                          ELSE made'[d] = made[d]
  BY <1>3, StrikeMade
<1>6. HeldBits \in Masks /\ HeldBits' \in Masks
  <2>1. HeldBits' \in Masks
    BY DEF HeldBits, Masks
  <2> QED BY <2>1, HeldIsMask
<1>7. ASSUME NEW x \in Devices
      PROVE  Leads(e, x, made'[x], HeldBits, Len(made[x]), HeldBits, Len(made'[x]))
  <2>1. Counts(e, x) <=> x = d /\ value = 1 /\ k \notin ModKeys
    BY <1>1 DEF Counts
  <2>2. CASE Counts(e, x)
    <3>1. PICK m : m = HeldBits
      OBVIOUS
    <3>2. Written(e, m) = Press(k, m)
      BY <1>1 DEF Written
    <3>3. PICK list : list = made[x]
      OBVIOUS
    <3>4. PICK more : more = made'[x]
      OBVIOUS
    <3>5. Adds(list, Written(e, m), more)
      BY <1>5, <2>1, <2>2, <3>1, <3>2, <3>3, <3>4
    <3>6. Leads(e, x, more, m, Len(list), m, Len(more))
      BY <2>2, <3>5, LeadsOn
    <3> QED BY <3>1, <3>3, <3>4, <3>6
  <2>3. CASE ~Counts(e, x)
    <3>1. made'[x] = made[x]
      BY <1>5, <2>1, <2>3
    <3>2. e.ev # "modifiers"
      BY <1>1
    <3>3. PICK list : list = made[x]
      OBVIOUS
    <3>4. PICK m : m = HeldBits
      OBVIOUS
    <3>5. PICK j : j = Len(list)
      OBVIOUS
    <3>6. Leads(e, x, list, m, j, m, j)
      BY <2>3, <3>2, LeadsNowhere
    <3> QED BY <3>1, <3>3, <3>4, <3>5, <3>6
  <2> QED BY <2>2, <2>3
<1>8. PICK v : v = wire
  OBVIOUS
<1>9. PICK w : w = Append(v, e)
  OBVIOUS
<1>10. IsSeq(v) /\ Adds(v, e, w) /\ IsSeq(w)
  BY <1>4, <1>8, <1>9, AppendAdds DEF Adds
<1>11. v \o <<e>> = w /\ v \o <<e, f>> = Append(w, f)
  BY <1>9, <1>10, JoinIsAppend, JoinTwo
<1>12. ASSUME NEW x \in Devices
       PROVE  \E i \in Nat :
                 /\ Told("chords", trace', x, made'[x], 0, i)
                 /\ Unread(w, x, made'[x], <<mask', i>>, <<HeldBits, Len(made'[x])>>)
  BY <1>3, <1>4, <1>5, <1>6, <1>7, <1>8, <1>10, WireAdds
<1>13. CASE HeldBits' = HeldBits
  <2>1. wire' = w
    <3>1. <<e>> \o <<>> = <<e>>
      OBVIOUS
    <3> QED BY <1>3, <1>8, <1>11, <1>13, <3>1
  <2>2. \A x \in Devices : PortalTold(x)'
    BY <1>12, <1>13, <2>1 DEF PortalTold
  <2> QED BY <1>10, <2>1, <2>2 DEF PInv
<1>14. CASE HeldBits' # HeldBits
  <2>1. PICK t : t = Append(w, f)
    OBVIOUS
  <2>2. wire' = t
    <3>1. <<e>> \o <<f>> = <<e, f>>
      BY OneAndOne
    <3> QED BY <1>3, <1>8, <1>11, <1>14, <2>1, <3>1
  <2>3. Adds(w, f, t) /\ IsSeq(t)
    BY <1>10, <2>1, AppendAdds DEF Adds
  <2>4. ASSUME NEW x \in Devices PROVE PortalTold(x)'
    <3>1. PICK i \in Nat :
             /\ Told("chords", trace', x, made'[x], 0, i)
             /\ Unread(w, x, made'[x], <<mask', i>>, <<HeldBits, Len(made'[x])>>)
      BY <1>12
    <3>2. PICK more : more = made'[x]
      OBVIOUS
    <3>3. PICK j : j = Len(more)
      OBVIOUS
    <3>4. PICK h \in Masks : h = HeldBits
      BY <1>6
    <3>5. PICK o \in Masks : o = HeldBits'
      BY <1>6
    <3>6. PICK a : a = <<mask', i>>
      OBVIOUS
    <3>7. PICK b : b = <<h, j>>
      OBVIOUS
    <3>8. PICK c : c = <<o, j>>
      OBVIOUS
    <3>9. j \in Nat /\ Extends(more, more)
      BY <1>5, <3>2, <3>3 DEF Extends
    <3>10. Leads(f, x, more, h, j, o, j)
      BY <1>2, <3>5 DEF Leads, Shown, Counts
    <3>11. Unread(w, x, more, a, b)
      BY <3>1, <3>2, <3>3, <3>4, <3>6, <3>7
    <3>12. Unread(t, x, more, a, c)
      BY <1>10, <2>3, <3>7, <3>8, <3>9, <3>10, <3>11, UnreadGoesOn
    <3> QED BY <2>2, <3>1, <3>2, <3>3, <3>5, <3>6, <3>8, <3>12 DEF PortalTold
  <2> QED BY <2>2, <2>3, <2>4 DEF PInv
<1> QED BY <1>13, <1>14

\* An event that the server sends while no key moves.
LEMMA SendsPInv ==
    ASSUME EvdevSound, PInv, recorder = "portal", UNCHANGED <<recorder, held>>,
           NEW e, Sends(<<e>>),
           \A x \in Devices :
              /\ Extends(made[x], made'[x])
              /\ Leads(e, x, made'[x], HeldBits, Len(made[x]), HeldBits, Len(made'[x]))
    PROVE  PInv'
<1>1. UNCHANGED <<trace, mask>> /\ wire' = wire \o <<e>>
  BY DEF Sends
<1>2. IsSeq(wire) /\ \A x \in Devices : PortalTold(x)
  BY DEF PInv
<1>3. Adds(wire, e, wire') /\ IsSeq(wire')
  <2>1. PICK v : v = wire
    OBVIOUS
  <2>2. PICK w : w = Append(v, e)
    OBVIOUS
  <2>3. Adds(v, e, w) /\ IsSeq(w) /\ v \o <<e>> = w
    BY <1>2, <2>1, <2>2, AppendAdds, JoinIsAppend DEF Adds
  <2> QED BY <1>1, <2>1, <2>3
<1>4. HeldBits' = HeldBits
  BY DEF HeldBits
<1>5. PICK h \in Masks : h = HeldBits
  BY HeldIsMask
<1>6. PICK w : w = wire'
  OBVIOUS
<1>7. ASSUME NEW x \in Devices PROVE PortalTold(x)'
  <2>1. Leads(e, x, made'[x], HeldBits, Len(made[x]), h, Len(made'[x]))
    BY <1>5
  <2>2. Adds(wire, e, w)
    BY <1>3, <1>6
  <2>3. PICK k \in Nat :
              /\ Told("chords", trace', x, made'[x], 0, k)
              /\ Unread(w, x, made'[x], <<mask', k>>, <<h, Len(made'[x])>>)
    BY <1>1, <1>2, <2>1, <2>2, WireAdds
  <2> QED BY <1>4, <1>5, <1>6, <2>3 DEF PortalTold
<1> QED BY <1>3, <1>7 DEF PInv

LEMMA UserPInv ==
    ASSUME EvdevSound, PInv, recorder = "portal", UNCHANGED recorder, NEW d \in Mice,
           \/ \E axis \in Axes, by \in Steps : Glide(d, axis, by)
           \/ \E at \in Places : Aim(d, at)
           \/ \E way \in Ways : Wheel(d, way)
           \/ \E by \in Steps : Finger(d, by)
    PROVE  PInv'
<1>1. d \in Devices
  BY DeskAssumption
<1>2. \A x \in Devices : Len(made[x]) \in Nat
  BY DEF EvdevSound, IsSeq
<1>3. ASSUME NEW e, e.ev \in {"motion", "place", "discrete", "smooth"}, Sends(<<e>>),
             UNCHANGED <<held, made>>
      PROVE  PInv'
  <2>1. ASSUME NEW x \in Devices
        PROVE  /\ Extends(made[x], made'[x])
               /\ Leads(e, x, made'[x], HeldBits, Len(made[x]), HeldBits, Len(made'[x]))
    <3>1. ~Counts(e, x) /\ e.ev # "modifiers"
      BY <1>3 DEF Counts
    <3>2. PICK list : list = made[x]
      OBVIOUS
    <3>3. PICK m : m = HeldBits
      OBVIOUS
    <3>4. PICK j : j = Len(list)
      OBVIOUS
    <3>5. Leads(e, x, list, m, j, m, j)
      BY <3>1, LeadsNowhere
    <3>6. made'[x] = made[x]
      BY <1>3
    <3> QED BY <1>2, <3>2, <3>3, <3>4, <3>5, <3>6 DEF Extends
  <2> QED BY <1>3, <2>1, SendsPInv
<1>4. ASSUME NEW axis \in Axes, NEW by \in Steps, Glide(d, axis, by) PROVE PInv'
  <2>1. PICK e : e = [ev |-> "motion", dev |-> d, by |-> [Still EXCEPT ![axis] = by]]
    OBVIOUS
  <2>2. Sends(<<e>>) /\ UNCHANGED <<held, made>>
    BY <1>4, <2>1 DEF Glide
  <2> QED BY <1>3, <2>1, <2>2
<1>5. ASSUME NEW at \in Places, Aim(d, at) PROVE PInv'
  <2>1. PICK e : e = [ev |-> "place", dev |-> d, at |-> at]
    OBVIOUS
  <2>2. Sends(<<e>>) /\ UNCHANGED <<held, made>>
    BY <1>5, <2>1 DEF Aim
  <2> QED BY <1>3, <2>1, <2>2
<1>6. ASSUME NEW way \in Ways, Wheel(d, way) PROVE PInv'
  <2>1. PICK e : e = [ev |-> "discrete", dev |-> d, value |-> 120 * way]
    OBVIOUS
  <2>2. Sends(<<e>>) /\ UNCHANGED <<held, made>>
    BY <1>6, <2>1 DEF Wheel, Turns
  <2> QED BY <1>3, <2>1, <2>2
<1>7. ASSUME NEW by \in Steps, Finger(d, by) PROVE PInv'
  <2>1. PICK e : e = [ev |-> "smooth", dev |-> d, value |-> by]
    OBVIOUS
  <2>2. Sends(<<e>>) /\ UNCHANGED <<held, made>>
    BY <1>7, <2>1 DEF Finger, Turns
  <2> QED BY <1>3, <2>1, <2>2
<1> QED BY <1>4, <1>5, <1>6, <1>7

\* What the pump writes of an event e, for a replay at x.
LEMMA PumpWrites ==
    ASSUME EvdevSound, PumpReads, NEW e, e = Head(wire), NEW x \in Devices
    PROVE  /\ mask' = Shown(e, mask)
           /\ IF Counts(e, x)
              THEN \E r : Adds(trace, r, trace') /\ Kept(r, x) /\ r.rec = Written(e, mask)
              ELSE UNCHANGED trace \/ \E r : Adds(trace, r, trace') /\ ~Kept(r, x)
<1>1. MapPress(e) \/ MapModifiers(e) \/ MapPlace(e) \/ MapMotion(e) \/ MapScroll(e)
  BY DEF PumpReads
<1>2. ASSUME NEW d, NEW rec, Emit(d, rec)
      PROVE  \E r : Adds(trace, r, trace') /\ r.dev = d /\ r.rec = rec
  <2>1. PICK r : r = [dev |-> d, rec |-> rec]
    OBVIOUS
  <2>2. Adds(trace, r, trace')
    BY <1>2, <2>1, EmitAdds
  <2> QED BY <2>1, <2>2
<1>3. CASE MapPress(e)
  <2>1. mask' = Shown(e, mask)
    BY <1>3 DEF MapPress, Shown
  <2>2. Counts(e, x) <=> e.dev = x /\ e.value = 1 /\ e.code \notin ModKeys
    BY <1>3 DEF MapPress, Counts
  <2>3. CASE e.value = 1
    <3>1. PICK rec : rec = Press(e.code, mask)
      OBVIOUS
    <3>2. PICK d : d = e.dev
      OBVIOUS
    <3>3. Emit(d, rec)
      BY <1>3, <2>3, <3>1, <3>2 DEF MapPress
    <3>4. PICK r : Adds(trace, r, trace') /\ r.dev = d /\ r.rec = rec
      BY <1>2, <3>3
    <3>5. rec.code = e.code /\ rec.kind = IF e.code \in Buttons THEN "click" ELSE "key"
      BY <3>1 DEF Press, Record
    <3>6. e.code \in Buttons => e.code \notin ModKeys
      BY DeskAssumption DEF ModKeys
    <3>7. Kept(r, x) <=> Counts(e, x)
      BY <2>2, <2>3, <3>2, <3>4, <3>5, <3>6 DEF Kept
    <3>8. Written(e, mask) = rec
      BY <1>3, <3>1 DEF MapPress, Written
    <3> QED BY <2>1, <3>4, <3>7, <3>8
  <2>4. CASE e.value # 1
    <3>1. UNCHANGED trace
      BY <1>3, <2>4 DEF MapPress
    <3> QED BY <2>1, <2>2, <2>4, <3>1
  <2> QED BY <2>3, <2>4
<1>4. CASE MapModifiers(e)
  BY <1>4 DEF MapModifiers, Counts, Shown
<1>5. CASE MapPlace(e)
  <2>1. e.ev = "place" /\ mask' = mask
    BY <1>5 DEF MapPlace
  <2>2. UNCHANGED trace \/ \E at : Emit(e.dev, Place(at))
    BY <1>5, Zenon DEF MapPlace
  <2>3. UNCHANGED trace \/ \E r : Adds(trace, r, trace') /\ ~Kept(r, x)
    <3>1. ASSUME NEW at, Emit(e.dev, Place(at)) PROVE \E r : Adds(trace, r, trace') /\ ~Kept(r, x)
      <4>1. PICK rec : rec = Place(at)
        OBVIOUS
      <4>2. PICK d : d = e.dev
        OBVIOUS
      <4>3. Emit(d, rec)
        BY <3>1, <4>1, <4>2
      <4>4. PICK r : Adds(trace, r, trace') /\ r.dev = d /\ r.rec = rec
        BY <1>2, <4>3
      <4>5. rec.kind = "place"
        BY <4>1 DEF Place, Record
      <4> QED BY <4>4, <4>5 DEF Kept
    <3> QED BY <2>2, <3>1
  <2> QED BY <2>1, <2>3 DEF Counts, Shown
<1>6. CASE MapMotion(e)
  <2>1. e.ev = "motion" /\ mask' = mask
    BY <1>6 DEF MapMotion
  <2>2. UNCHANGED trace \/ \E by : Emit(e.dev, Move(by))
    BY <1>6, Zenon DEF MapMotion
  <2>3. UNCHANGED trace \/ \E r : Adds(trace, r, trace') /\ ~Kept(r, x)
    <3>1. ASSUME NEW by, Emit(e.dev, Move(by)) PROVE \E r : Adds(trace, r, trace') /\ ~Kept(r, x)
      <4>1. PICK rec : rec = Move(by)
        OBVIOUS
      <4>2. PICK d : d = e.dev
        OBVIOUS
      <4>3. Emit(d, rec)
        BY <3>1, <4>1, <4>2
      <4>4. PICK r : Adds(trace, r, trace') /\ r.dev = d /\ r.rec = rec
        BY <1>2, <4>3
      <4>5. rec.kind = "move"
        BY <4>1 DEF Move, Record
      <4> QED BY <4>4, <4>5 DEF Kept
    <3> QED BY <2>2, <3>1
  <2> QED BY <2>1, <2>3 DEF Counts, Shown
<1>7. CASE MapScroll(e)
  <2>1. e.ev \in {"discrete", "smooth"} /\ mask' = mask
    BY <1>7 DEF MapScroll
  <2>2. PICK value : Emit(e.dev, Scroll(value))
    BY <1>7 DEF MapScroll
  <2>3. PICK rec : rec = Scroll(value)
    OBVIOUS
  <2>4. PICK d : d = e.dev
    OBVIOUS
  <2>5. Emit(d, rec)
    BY <2>2, <2>3, <2>4
  <2>6. PICK r : Adds(trace, r, trace') /\ r.dev = d /\ r.rec = rec
    BY <1>2, <2>5
  <2>7. rec.kind = "scroll"
    BY <2>3 DEF Scroll, Record
  <2>8. ~Kept(r, x)
    BY <2>6, <2>7 DEF Kept
  <2> QED BY <2>1, <2>6, <2>8 DEF Counts, Shown
<1> QED BY <1>1, <1>3, <1>4, <1>5, <1>6, <1>7

LEMMA PumpTold ==
    ASSUME EvdevSound, IsSeq(wire), PumpReads, NEW x \in Devices, PortalTold(x)
    PROVE  PortalTold(x)'
<1>1. UNCHANGED <<made, held>> /\ wire # <<>> /\ wire' = Tail(wire)
  BY DEF PumpReads, user
<1>2. HeldBits' = HeldBits
  BY <1>1 DEF HeldBits
<1>3. PICK j \in Nat : /\ Told("chords", trace, x, made[x], 0, j)
                       /\ Unread(wire, x, made[x], <<mask, j>>, <<HeldBits, Len(made[x])>>)
  BY DEF PortalTold
<1>4. PICK w : w = wire
  OBVIOUS
<1>5. PICK t : t = wire'
  OBVIOUS
<1>6. PICK e : e = Head(wire)
  OBVIOUS
<1>7. Drops(w, t) /\ Head(w) = e
  BY <1>1, <1>4, <1>5, <1>6, TailDrops
<1>8. PICK m : m = mask
  OBVIOUS
<1>9. PICK u : u = <<m, j>>
  OBVIOUS
<1>10. PICK v : v = <<HeldBits, Len(made[x])>>
  OBVIOUS
<1>11. PICK list : list = made[x]
  OBVIOUS
<1>12. Unread(w, x, list, u, v)
  BY <1>3, <1>4, <1>8, <1>9, <1>10, <1>11
<1>13. PICK c : <<u, c>> \in Reads(e, x, list) /\ Unread(t, x, list, c, v)
  BY <1>7, <1>12, UnreadDrops
<1>14. PICK o \in Masks, i \in Nat : c = <<o, i>> /\ Leads(e, x, list, m, j, o, i)
  BY <1>9, <1>13, ReadsLeads
<1>15. /\ mask' = Shown(e, m)
       /\ IF Counts(e, x)
          THEN \E r : Adds(trace, r, trace') /\ Kept(r, x) /\ r.rec = Written(e, m)
          ELSE UNCHANGED trace \/ \E r : Adds(trace, r, trace') /\ ~Kept(r, x)
  BY <1>6, <1>8, PumpWrites
<1>16. o = mask'
  BY <1>14, <1>15 DEF Leads
<1>17. PICK s : s = trace
  OBVIOUS
<1>18. PICK z : z = trace'
  OBVIOUS
<1>19. Told("chords", s, x, list, 0, j)
  BY <1>3, <1>11, <1>17
<1>20. Told("chords", z, x, list, 0, i)
  <2>1. CASE Counts(e, x)
    <3>1. PICK r : Adds(s, r, z) /\ Kept(r, x) /\ r.rec = Written(e, m)
      BY <1>15, <1>17, <1>18, <2>1
    <3>2. <<j, i>> \in Tells("chords", r, x, list)
      BY <1>14, <2>1, <3>1 DEF Leads, Tells
    <3> QED BY <1>19, <3>1, <3>2, ToldAdds
  <2>2. CASE ~Counts(e, x)
    <3>1. i = j
      BY <1>14, <2>2 DEF Leads
    <3>2. CASE UNCHANGED trace
      BY <1>17, <1>18, <1>19, <3>1, <3>2
    <3>3. ASSUME NEW r, Adds(s, r, z), ~Kept(r, x) PROVE Told("chords", z, x, list, 0, i)
      BY <1>19, <3>1, <3>3, ToldAddsSame
    <3> QED BY <1>15, <1>17, <1>18, <2>2, <3>2, <3>3
  <2> QED BY <2>1, <2>2
<1>21. Unread(t, x, list, <<o, i>>, v)
  BY <1>13, <1>14
<1> QED BY <1>1, <1>2, <1>5, <1>10, <1>11, <1>16, <1>18, <1>20, <1>21 DEF PortalTold

LEMMA PortalPInv ==
    ASSUME EvdevSound, PInv, recorder = "portal", UNCHANGED recorder, PortalNext
    PROVE  PInv'
<1>1. CASE PumpReads
  <2>1. IsSeq(wire) /\ \A x \in Devices : PortalTold(x)
    BY DEF PInv
  <2>2. IsSeq(wire')
    <3>1. PICK w : w = wire
      OBVIOUS
    <3>2. IsSeq(Tail(w))
      BY <1>1, <2>1, <3>1, TailDrops DEF PumpReads, Drops
    <3> QED BY <1>1, <3>1, <3>2 DEF PumpReads
  <2>3. \A x \in Devices : PortalTold(x)'
    BY <1>1, <2>1, PumpTold
  <2> QED BY <2>2, <2>3 DEF PInv
<1> QED BY <1>1, KeyMovesPInv, UserPInv DEF PortalNext

LEMMA PInvInit == RecordingsInit => PInv
<1> SUFFICES ASSUME RecordingsInit PROVE PInv
  OBVIOUS
<1>1. /\ trace = <<>> /\ wire = <<>> /\ mask = {}
      /\ made = [d \in Devices |-> <<>>] /\ held = [d \in Devices |-> {}]
  BY DEF RecordingsInit, RecordingInit, PortalInit
<1>2. IsSeq(<<>>) /\ Len(<<>>) = 0
  BY NoneIsSeq
<1>3. HeldBits = {}
  <2>1. UNION Range(held) = {}
    BY <1>1 DEF Range
  <2> QED BY <2>1 DEF HeldBits
<1>4. ASSUME NEW d \in Devices PROVE PortalTold(d)
  <2>1. Told("chords", <<>>, d, <<>>, 0, 0)
    BY <1>2, WayOfNone DEF Told
  <2>2. Unread(<<>>, d, <<>>, <<{}, 0>>, <<{}, 0>>)
    BY <1>2, WayOfNone DEF Unread
  <2> QED BY <1>1, <1>2, <1>3, <2>1, <2>2 DEF PortalTold
<1> QED BY <1>1, <1>2, <1>4 DEF PInv

LEMMA RestPInv ==
    ASSUME PInv, UNCHANGED <<user, trace, portal, recorder>>
    PROVE  PInv'
<1>1. UNCHANGED <<trace, wire, mask, made, held, recorder>>
  BY DEF user, portal
<1>2. HeldBits' = HeldBits
  BY <1>1 DEF HeldBits
<1> QED BY <1>1, <1>2 DEF PInv, PortalTold

------------------------------------------------------------------------------
(* Recordings: the replay.                                                  *)

\* The recordings whose chords are those of the user.
Telling == IF recorder = "portal" \/ OneKeyboard THEN "chords" ELSE "keys"

\* What is left to do at d is what the list of d has after what was done.
Doing(d) ==
    /\ IsSeq(acts[d]) /\ Len(acts[d]) <= Len(made[d])
    /\ \A i \in 1..Len(acts[d]) : Agree(Telling = "chords", acts[d][i], made[d][i])
    /\ Told(Telling, left, d, made[d], Len(acts[d]), Len(made[d]))

RInv ==
    /\ IsSeq(left) /\ DOMAIN acts = Devices
    /\ \A d \in Devices : replay = "no" => acts[d] = <<>>
    /\ replay # "no" => \A d \in Devices : Doing(d)
    /\ replay = "ok" => left = <<>>

RecordInv == EInv /\ PInv /\ RInv

LEMMA RInvInit == RecordingsInit => RInv
  BY NoneIsSeq DEF RecordingsInit, ReplayInit, RInv

LEMMA RestRInv ==
    ASSUME RInv, UNCHANGED <<player, recorder>>, replay # "no" => UNCHANGED made
    PROVE  RInv'
<1>1. UNCHANGED <<replay, left, acts, recorder>>
  BY DEF player
<1>2. Telling' = Telling
  BY <1>1 DEF Telling
<1> QED BY <1>1, <1>2 DEF RInv, Doing

\* A recording that has been read has told everything.
LEMMA AllTold ==
    ASSUME EInv, PInv, Caught, NEW d \in Devices
    PROVE  Told(Telling, trace, d, made[d], 0, Len(made[d]))
<1>1. CASE recorder = "evdev"
  <2>1. PICK k \in Nat, m, n \in Masks :
          /\ Told(Level, trace, d, made[d], 0, k)
          /\ Caused(Pending(d), made[d], <<m, k>>, <<n, Len(made[d])>>)
    BY <1>1 DEF EInv, EvdevTells, EvdevTold
  <2>2. PICK u : u = <<m, k>>
    OBVIOUS
  <2>3. PICK v : v = <<n, Len(made[d])>>
    OBVIOUS
  <2>4. PICK R : Way(0, R, u, v)
    BY <2>1, <2>2, <2>3, NothingPending DEF Caused
  <2>5. u = v
    BY <2>4, WayOfNone
  <2>6. k = Len(made[d])
    BY <2>2, <2>3, <2>5
  <2>7. Telling = Level
    BY <1>1 DEF Telling, Level
  <2> QED BY <2>1, <2>6, <2>7
<1>2. CASE recorder = "portal"
  <2>1. PICK k \in Nat :
          /\ Told("chords", trace, d, made[d], 0, k)
          /\ Unread(wire, d, made[d], <<mask, k>>, <<HeldBits, Len(made[d])>>)
    BY <1>2 DEF PInv, PortalTold
  <2>2. PICK u : u = <<mask, k>>
    OBVIOUS
  <2>3. PICK v : v = <<HeldBits, Len(made[d])>>
    OBVIOUS
  <2>4. Len(wire) = 0
    BY NoneIsSeq DEF Caught
  <2>5. PICK R : Way(0, R, u, v)
    BY <2>1, <2>2, <2>3, <2>4 DEF Unread
  <2>6. u = v
    BY <2>5, WayOfNone
  <2>7. k = Len(made[d])
    BY <2>2, <2>3, <2>6
  <2>8. Telling = "chords"
    BY <1>2 DEF Telling
  <2> QED BY <2>1, <2>7, <2>8
<1> QED BY <1>1, <1>2 DEF EInv, EvdevSound

LEMMA StartRInv ==
    ASSUME EInv, PInv, RInv, Caught, StartReplay, UNCHANGED <<user, trace, recorder>>
    PROVE  RInv'
<1>1. /\ left' = trace /\ acts' = acts /\ made' = made /\ recorder' = recorder
      /\ replay = "no" /\ replay' = "running"
  BY DEF StartReplay, user
<1>2. IsSeq(left') /\ DOMAIN acts' = Devices
  BY <1>1 DEF EInv, EvdevSound, RInv
<1>3. Telling' = Telling
  BY <1>1 DEF Telling
<1>4. ASSUME NEW d \in Devices PROVE Doing(d)'
  <2>1. Told(Telling, trace, d, made[d], 0, Len(made[d]))
    BY AllTold
  <2>2. acts'[d] = <<>> /\ IsSeq(<<>>) /\ Len(<<>>) = 0
    BY <1>1, NoneIsSeq DEF RInv
  <2>3. Len(made[d]) \in Nat
    BY DEF EInv, EvdevSound, IsSeq
  <2> QED BY <1>1, <1>3, <2>1, <2>2, <2>3 DEF Doing
<1> QED BY <1>1, <1>2, <1>3, <1>4 DEF RInv

\* What is done at d goes on as the list of d does.
LEMMA DoingAdds ==
    ASSUME NEW how, NEW done, IsSeq(done), NEW list, Len(list) \in Nat,
           Len(done) <= Len(list),
           \A i \in 1..Len(done) : Agree(how = "chords", done[i], list[i]),
           NEW rec, NEW i, <<Len(done), i>> \in Nexts(how, list, rec)
    PROVE  /\ IsSeq(Append(done, rec)) /\ Len(Append(done, rec)) = i /\ i <= Len(list)
           /\ \A j \in 1..i : Agree(how = "chords", Append(done, rec)[j], list[j])
<1>1. i = Len(done) + 1 /\ i <= Len(list) /\ Agree(how = "chords", rec, list[i])
  BY NextsIs
<1>2. PICK more : more = Append(done, rec)
  OBVIOUS
<1>3. Adds(done, rec, more)
  BY <1>2, AppendAdds
<1>4. Len(more) = i /\ IsSeq(more) /\ more[i] = rec
      /\ \A j \in 1..Len(done) : more[j] = done[j]
  BY <1>1, <1>3 DEF Adds
<1>5. Len(done) \in Nat
  BY DEF IsSeq
<1>6. \A j \in 1..i : j = i \/ j \in 1..Len(done)
  BY <1>1, <1>5
<1>7. \A j \in 1..i : Agree(how = "chords", more[j], list[j])
  BY <1>1, <1>4, <1>6
<1> QED BY <1>1, <1>2, <1>4, <1>7

LEMMA PlayRInv ==
    ASSUME EInv, RInv, PlayNext, UNCHANGED <<user, trace, recorder>>
    PROVE  RInv'
<1>1. UNCHANGED <<made, recorder, replay>> /\ replay = "running"
      /\ left # <<>> /\ left' = Tail(left)
  BY DEF PlayNext, user
<1>2. PICK s : s = left
  OBVIOUS
<1>3. PICK t : t = Tail(s)
  OBVIOUS
<1>4. PICK e : e = Head(s)
  OBVIOUS
<1>5. Drops(s, t) /\ Head(s) = e /\ IsSeq(t)
  BY <1>1, <1>2, <1>3, <1>4, TailDrops DEF RInv, Drops
<1>6. left = s /\ left' = t
  BY <1>1, <1>2, <1>3
<1>7. \/ /\ e.rec.kind = "key" /\ e.rec.code \in Named
         /\ acts' = [acts EXCEPT ![e.dev] = Append(@, e.rec)]
      \/ /\ e.rec.kind = "click"
         /\ acts' = [acts EXCEPT ![e.dev] = Append(@, e.rec)]
      \/ e.rec.kind \in {"scroll", "move", "place"} /\ acts' = acts
  BY <1>4, <1>6 DEF PlayNext, PlayKey, PlayClick, PlayScroll, PlayMove, Act
<1>8. DOMAIN acts = Devices /\ DOMAIN acts' = Devices
  BY <1>7 DEF RInv
<1>9. ASSUME NEW d \in Devices
      PROVE  acts'[d] = IF Kept(e, d) THEN Append(acts[d], e.rec) ELSE acts[d]
  <2>1. \A k \in Named : k \notin ModKeys
    BY ReplayAssumption
  <2> QED BY <1>7, <1>8, <2>1 DEF Kept
<1>10. Telling' = Telling
  BY <1>1 DEF Telling
<1>11. ASSUME NEW d \in Devices, Doing(d) PROVE Doing(d)'
  <2>1. PICK done : done = acts[d]
    OBVIOUS
  <2>2. PICK list : list = made[d]
    OBVIOUS
  <2>3. PICK k : k = Len(done)
    OBVIOUS
  <2>4. PICK n : n = Len(list)
    OBVIOUS
  <2>5. PICK how : how = Telling
    OBVIOUS
  <2>6. /\ IsSeq(done) /\ k <= n /\ Told(how, s, d, list, k, n)
        /\ \A i \in 1..k : Agree(how = "chords", done[i], list[i])
    BY <1>6, <1>11, <2>5, <2>1, <2>2, <2>3, <2>4 DEF Doing
  <2>7. PICK i : <<k, i>> \in Tells(how, e, d, list) /\ Told(how, t, d, list, i, n)
    BY <1>5, <2>6, ToldDrops
  <2>8. n \in Nat /\ k \in Nat
    BY <2>2, <2>3, <2>4, <2>6 DEF EInv, EvdevSound, IsSeq
  <2>9. CASE Kept(e, d)
    <3>1. <<k, i>> \in Nexts(how, list, e.rec)
      BY <2>7, <2>9 DEF Tells
    <3>2. PICK rec : rec = e.rec
      OBVIOUS
    <3>3. PICK more : more = Append(done, rec)
      OBVIOUS
    <3>4. /\ IsSeq(more) /\ Len(more) = i /\ i <= n
          /\ \A j \in 1..i : Agree(how = "chords", more[j], list[j])
      <4>1. \A j \in 1..Len(done) : Agree(how = "chords", done[j], list[j])
        BY <2>3, <2>6
      <4>2. Len(list) \in Nat /\ Len(done) <= Len(list)
        BY <2>3, <2>4, <2>6, <2>8
      <4>3. <<Len(done), i>> \in Nexts(how, list, rec)
        BY <2>3, <3>1, <3>2
      <4> HIDE DEF Agree
      <4>4. /\ IsSeq(Append(done, rec)) /\ Len(Append(done, rec)) = i /\ i <= Len(list)
            /\ \A j \in 1..i : Agree(how = "chords", Append(done, rec)[j], list[j])
        BY <2>6, <4>1, <4>2, <4>3, DoingAdds
      <4> QED BY <2>4, <3>3, <4>4
    <3>5. acts'[d] = more
      BY <1>9, <2>1, <2>9, <3>2, <3>3
    <3> QED BY <1>1, <1>6, <1>10, <2>5, <2>2, <2>4, <2>7, <3>4, <3>5 DEF Doing
  <2>10. CASE ~Kept(e, d)
    <3>1. i = k
      BY <2>7, <2>10, SameIs DEF Tells
    <3>2. acts'[d] = done
      BY <1>9, <2>1, <2>10
    <3> QED BY <1>1, <1>6, <1>10, <2>5, <2>2, <2>3, <2>4, <2>6, <2>7, <3>1, <3>2 DEF Doing
  <2> QED BY <2>9, <2>10
<1>12. IsSeq(left')
  BY <1>5, <1>6
<1> QED BY <1>1, <1>8, <1>10, <1>11, <1>12 DEF RInv

LEMMA StopRInv ==
    ASSUME RInv, PlayFails \/ EndReplay, UNCHANGED <<user, trace, recorder>>
    PROVE  RInv'
<1>1. UNCHANGED <<made, recorder, left, acts>> /\ replay = "running" /\ replay' # "no"
      /\ (replay' = "ok" => left = <<>>)
  BY DEF PlayFails, EndReplay, user
<1>2. Telling' = Telling
  BY <1>1 DEF Telling
<1>3. \A d \in Devices : Doing(d) => Doing(d)'
  BY <1>1, <1>2 DEF Doing
<1> QED BY <1>1, <1>2, <1>3 DEF RInv

\* What the trace has told of each device is what the list of the device begins
\* with, and the raw events, the wire and the trace left to replay will tell the
\* rest; what it has recorded of each motion, what waits in the accumulator and
\* what is to come make up the motion.
THEOREM RecordingsSound == RecordingsSpec => []RecordInv
<1>1. RecordingsInit => RecordInv
  BY EInvInit, PInvInit, RInvInit DEF RecordInv
<1>2. RecordInv /\ [RecordingsNext]_everything => RecordInv'
  <2> SUFFICES ASSUME RecordInv, [RecordingsNext]_everything PROVE RecordInv'
    OBVIOUS
  <2>1. EInv /\ PInv /\ RInv /\ EvdevSound
    BY DEF RecordInv, EInv
  <2>2. CASE /\ recorder = "evdev" /\ replay = "no" /\ EvdevNext
             /\ UNCHANGED <<portal, player, recorder>>
    <3>1. EInv'
      BY <2>1, <2>2, EvdevStep
    <3>2. PInv'
      BY <2>1, <2>2 DEF PInv, portal
    <3>3. RInv'
      BY <2>1, <2>2, RestRInv
    <3> QED BY <3>1, <3>2, <3>3 DEF RecordInv
  <2>3. CASE /\ recorder = "portal" /\ replay = "no" /\ PortalNext
             /\ UNCHANGED <<evdev, player, recorder>>
    <3>1. EInv'
      BY <2>1, <2>3, PortalStep
    <3>2. PInv'
      BY <2>1, <2>3, PortalPInv
    <3>3. RInv'
      BY <2>1, <2>3, RestRInv
    <3> QED BY <3>1, <3>2, <3>3 DEF RecordInv
  <2>4. CASE UNCHANGED <<user, trace, evdev, portal, recorder>>
    <3>1. EInv'
      BY <2>1, <2>4, RestEInv
    <3>2. PInv'
      BY <2>1, <2>4, RestPInv
    <3>3. made' = made
      BY <2>4 DEF user
    <3>4. CASE Caught /\ StartReplay
      BY <2>1, <2>4, <3>4, StartRInv, <3>1, <3>2 DEF RecordInv
    <3>5. CASE PlayNext
      BY <2>1, <2>4, <3>5, PlayRInv, <3>1, <3>2 DEF RecordInv
    <3>6. CASE PlayFails \/ EndReplay
      BY <2>1, <2>4, <3>6, StopRInv, <3>1, <3>2 DEF RecordInv
    <3>7. CASE UNCHANGED everything
      <4>1. UNCHANGED <<player, recorder>>
        BY <3>7 DEF everything
      <4>2. RInv'
        BY <2>1, <3>3, <4>1, RestRInv
      <4> QED BY <3>1, <3>2, <4>2 DEF RecordInv
    <3>8. \/ (Caught /\ StartReplay)
          \/ PlayNext \/ PlayFails \/ EndReplay \/ UNCHANGED everything
          \/ (replay = "no" /\ UNCHANGED player)
      BY DEF RecordingsNext, Play
    <3>9. CASE UNCHANGED player
      BY <2>1, <2>4, <3>1, <3>2, <3>3, <3>9, RestRInv DEF RecordInv
    <3> QED BY <3>4, <3>5, <3>6, <3>7, <3>8, <3>9
  <2> QED BY <2>2, <2>3, <2>4 DEF RecordingsNext, everything
<1> QED BY <1>1, <1>2, PTL DEF RecordingsSpec

\* A replay repeats the presses of each device, in order and nothing twice,
\* however far the tasks that recorded them lagged behind; and all of them, if it
\* ends well.  Each key comes with the modifiers that were held when it went down,
\* but for evdev with keys on several devices or two modifier keys of one bit:
\* the tasks of two keyboards race for the shared mask, and evdev_to_rec clears
\* the bit of a modifier when one of the two keys that have it goes up.
THEOREM RecordingsAreRepeated == RecordingsSpec => []ReplayRepeats
<1>1. RecordInv => ReplayRepeats
  <2> DEFINE sure == recorder = "portal" \/ OneKeyboard
  <2>1. sure <=> Telling = "chords"
    BY DEF Telling
  <2> HIDE DEF sure
  <2> SUFFICES ASSUME RecordInv, NEW d \in Devices
               PROVE  /\ Len(acts[d]) <= Len(made[d])
                      /\ \A i \in 1..Len(acts[d]) :
                            Agree(Telling = "chords", acts[d][i], made[d][i])
                      /\ replay = "ok" => Len(acts[d]) = Len(made[d])
    BY <2>1 DEF ReplayRepeats, sure
  <2>2. CASE replay = "no"
    <3>1. Len(made[d]) \in Nat /\ Len(acts[d]) = 0
      BY <2>2, NoneIsSeq DEF RecordInv, RInv, EInv, EvdevSound, IsSeq
    <3> QED BY <2>2, <3>1
  <2>3. CASE replay # "no"
    <3>1. Doing(d)
      BY <2>3 DEF RecordInv, RInv
    <3>2. ASSUME replay = "ok" PROVE Len(acts[d]) = Len(made[d])
      <4>1. Len(left) = 0
        BY <3>2, NoneIsSeq DEF RecordInv, RInv
      <4>2. PICK k : k = Len(acts[d])
        OBVIOUS
      <4>3. PICK n : n = Len(made[d])
        OBVIOUS
      <4>4. Told(Telling, left, d, made[d], k, n)
        BY <3>1, <4>2, <4>3 DEF Doing
      <4>5. PICK R : Way(0, R, k, n)
        BY <4>1, <4>4 DEF Told
      <4> QED BY <4>2, <4>3, <4>5, WayOfNone
    <3> QED BY <3>1, <3>2 DEF Doing
  <2> QED BY <2>2, <2>3
<1> QED BY <1>1, RecordingsSound, PTL

\* The throttle of the evdev tasks loses no motion and counts none twice: what
\* was recorded and what waits in the accumulator make up what the mouse did.
THEOREM NoMotionLost == RecordingsSpec => []MotionConserved
<1>1. RecordInv => EInv
  BY DEF RecordInv
<1>2. EInv => MotionConserved
  <2> SUFFICES ASSUME EInv, recorder = "evdev", Caught, NEW d \in Devices, NEW a \in Axes
               PROVE  moved[d][a] =
                         rel[d][a] + Total([i \in DOMAIN trace |-> Distance(trace[i], d, a)])
    BY DEF MotionConserved
  <2>1. PICK k \in Int : /\ Recorded(trace, d, a, 0, k)
                         /\ Coming(Pending(d), a, k + rel[d][a], moved[d][a])
    BY DEF EInv, EvdevMoves, MotionOf
  <2>2. k + rel[d][a] = moved[d][a]
    <3>1. Coming(Pending(d), a, k + rel[d][a], moved[d][a])
             => Way(0, [i \in 1..Len(Pending(d)) |-> Plus(Slid(Pending(d)[i], a))],
                    k + rel[d][a], moved[d][a])
      BY NothingPending DEF Coming
    <3>2. PICK R : Way(0, R, k + rel[d][a], moved[d][a])
      BY <2>1, <3>1
    <3> QED BY <3>2, WayOfNone
  <2>3. PICK s : s = [i \in DOMAIN trace |-> Distance(trace[i], d, a)]
    OBVIOUS
  <2>4. PICK n \in Nat : n = Len(trace) /\ DOMAIN trace = 1..n
    BY DEF EInv, EvdevSound, IsSeq
  <2>5. Len(s) = n
    BY <2>3, <2>4
  <2>6. Way(n, [i \in 1..n |-> Plus(s[i])], 0, k)
    <3>1. [i \in 1..n |-> Plus(s[i])] = [i \in 1..n |-> Plus(Distance(trace[i], d, a))]
      BY <2>3, <2>4
    <3> QED BY <2>1, <2>4, <3>1 DEF Recorded
  <2>7. Total(s) = k
    BY <2>5, <2>6, WayIsTotal
  <2>8. rel[d][a] \in Int
    BY DEF EInv, EvdevSound
  <2> QED BY <2>2, <2>3, <2>7, <2>8
<1> QED BY <1>1, <1>2, RecordingsSound, PTL

------------------------------------------------------------------------------
(* Recordings: where the clicks of a portal recording land, on one axis.    *)

\* How far a replay has gone along an axis, or where it is once it was placed;
\* with how many motions and clicks.
Sights == [x : Int, n : Nat, p : BOOLEAN, k : Nat]
Origin == [x |-> 0, n |-> 0, p |-> FALSE, k |-> 0]

\* Where the user's pointer was, in half pixels, and after how many clicks.
Hands == [h : Int, k : Nat]

\* Event e of the trace, and the clicks that are made.  A click after a place, or
\* of a recording with relative motion only, is near that of the user.
Sees(e, a, relative, list, u, v) ==
    IF e.rec.kind = "move" THEN v = [u EXCEPT !.x = @ + e.rec.value[a], !.n = @ + 1]
    ELSE IF e.rec.kind = "place" THEN v = [u EXCEPT !.x = e.rec.value[a], !.p = TRUE]
    ELSE IF e.rec.kind = "click"
    THEN /\ v = [u EXCEPT !.k = @ + 1] /\ v.k <= Len(list)
         /\ u.p \/ relative => Magnitude(2 * u.x - list[v.k][a]) < 2 * (Threshold + u.n)
    ELSE v = u

\* Event e of the wire.
Points(e, a, list, u, v) ==
    IF e.ev = "motion" THEN v = [u EXCEPT !.h = @ + e.by[a]]
    ELSE IF e.ev = "place" THEN v = [u EXCEPT !.h = e.at[a]]
    ELSE IF e.ev = "button" /\ e.value = 1
    THEN v = [u EXCEPT !.k = @ + 1] /\ v.k <= Len(list) /\ list[v.k][a] = u.h
    ELSE v = u

Sight(e, a, relative, list) == {q \in Sights \X Sights : Sees(e, a, relative, list, q[1], q[2])}
Point(e, a, list) == {q \in Hands \X Hands : Points(e, a, list, q[1], q[2])}

Seen(s, a, relative, list, u, v) ==
    Way(Len(s), [i \in 1..Len(s) |-> Sight(s[i], a, relative, list)], u, v)
Pointed(s, a, list, u, v) == Way(Len(s), [i \in 1..Len(s) |-> Point(s[i], a, list)], u, v)

LEMMA SightIs ==
    ASSUME NEW e, NEW a, NEW relative, NEW list, NEW u, NEW v
    PROVE  <<u, v>> \in Sight(e, a, relative, list) <=>
              u \in Sights /\ v \in Sights /\ Sees(e, a, relative, list, u, v)
<1> DEFINE p == <<u, v>>
<1>1. p[1] = u /\ p[2] = v
  OBVIOUS
<1>2. p \in Sights \X Sights <=> u \in Sights /\ v \in Sights
  BY Zenon
<1> HIDE DEF p
<1>3. p \in Sight(e, a, relative, list) <=>
         p \in Sights \X Sights /\ Sees(e, a, relative, list, p[1], p[2])
  BY DEF Sight
<1>4. p \in Sight(e, a, relative, list) <=>
         u \in Sights /\ v \in Sights /\ Sees(e, a, relative, list, u, v)
  BY <1>1, <1>2, <1>3
<1> QED BY <1>4 DEF p

LEMMA PointIs ==
    ASSUME NEW e, NEW a, NEW list, NEW u, NEW v
    PROVE  <<u, v>> \in Point(e, a, list) <=>
              u \in Hands /\ v \in Hands /\ Points(e, a, list, u, v)
<1> DEFINE p == <<u, v>>
<1>1. p[1] = u /\ p[2] = v
  OBVIOUS
<1>2. p \in Hands \X Hands <=> u \in Hands /\ v \in Hands
  BY Zenon
<1> HIDE DEF p
<1>3. p \in Point(e, a, list) <=>
         p \in Hands \X Hands /\ Points(e, a, list, p[1], p[2])
  BY DEF Point
<1>4. p \in Point(e, a, list) <=>
         u \in Hands /\ v \in Hands /\ Points(e, a, list, u, v)
  BY <1>1, <1>2, <1>3
<1> QED BY <1>4 DEF p

LEMMA SightExtends ==
    ASSUME NEW list, NEW more, Extends(list, more), NEW e, NEW a, NEW relative
    PROVE  Sight(e, a, relative, list) \subseteq Sight(e, a, relative, more)
<1>1. ASSUME NEW q \in Sight(e, a, relative, list) PROVE q \in Sight(e, a, relative, more)
  <2>1. q \in Sights \X Sights /\ Sees(e, a, relative, list, q[1], q[2])
    BY <1>1 DEF Sight
  <2>2. PICK u \in Sights, v \in Sights : u = q[1] /\ v = q[2]
    BY <2>1
  <2>3. Sees(e, a, relative, more, u, v)
    <3>1. CASE e.rec.kind = "click"
      <4>1. /\ v = [u EXCEPT !.k = @ + 1] /\ v.k <= Len(list)
            /\ u.p \/ relative => Magnitude(2 * u.x - list[v.k][a]) < 2 * (Threshold + u.n)
        BY <2>1, <2>2, <3>1 DEF Sees
      <4>2. v.k \in 1..Len(list)
        <5>1. u.k \in Nat /\ v.k = u.k + 1
          BY <4>1 DEF Sights
        <5> QED BY <4>1, <5>1 DEF Extends
      <4>3. v.k <= Len(more) /\ more[v.k] = list[v.k]
        BY <4>2 DEF Extends
      <4> QED BY <3>1, <4>1, <4>3 DEF Sees
    <3>2. CASE e.rec.kind # "click"
      BY <2>1, <2>2, <3>2 DEF Sees
    <3> QED BY <3>1, <3>2
  <2> QED BY <2>1, <2>2, <2>3 DEF Sight
<1> QED BY <1>1

LEMMA PointExtends ==
    ASSUME NEW list, NEW more, Extends(list, more), NEW e, NEW a
    PROVE  Point(e, a, list) \subseteq Point(e, a, more)
<1>1. ASSUME NEW q \in Point(e, a, list) PROVE q \in Point(e, a, more)
  <2>1. q \in Hands \X Hands /\ Points(e, a, list, q[1], q[2])
    BY <1>1 DEF Point
  <2>2. PICK u \in Hands, v \in Hands : u = q[1] /\ v = q[2]
    BY <2>1
  <2>3. Points(e, a, more, u, v)
    <3>1. CASE e.ev = "button" /\ e.value = 1
      <4>1. v = [u EXCEPT !.k = @ + 1] /\ v.k <= Len(list) /\ list[v.k][a] = u.h
        BY <2>1, <2>2, <3>1 DEF Points
      <4>2. v.k \in 1..Len(list)
        <5>1. u.k \in Nat /\ v.k = u.k + 1
          BY <4>1 DEF Hands
        <5> QED BY <4>1, <5>1 DEF Extends
      <4>3. v.k <= Len(more) /\ more[v.k] = list[v.k]
        BY <4>2 DEF Extends
      <4> QED BY <3>1, <4>1, <4>3 DEF Points
    <3>2. CASE ~(e.ev = "button" /\ e.value = 1)
      BY <2>1, <2>2, <3>2 DEF Points
    <3> QED BY <3>1, <3>2
  <2> QED BY <2>1, <2>2, <2>3 DEF Point
<1> QED BY <1>1

LEMMA SeenExtends ==
    ASSUME NEW s, IsSeq(s), NEW a, NEW relative, NEW list, NEW more, Extends(list, more),
           NEW u, NEW v, Seen(s, a, relative, list, u, v)
    PROVE  Seen(s, a, relative, more, u, v)
<1> DEFINE R == [i \in 1..Len(s) |-> Sight(s[i], a, relative, list)]
           Q == [i \in 1..Len(s) |-> Sight(s[i], a, relative, more)]
<1>1. Len(s) \in Nat
  BY DEF IsSeq
<1>2. \A i \in 1..Len(s) : R[i] \subseteq Q[i]
  BY SightExtends
<1>3. Way(Len(s), R, u, v)
  BY DEF Seen
<1> HIDE DEF R, Q
<1>4. Way(Len(s), Q, u, v)
  BY <1>1, <1>2, <1>3, WayAllows
<1> QED BY <1>4 DEF Seen, Q

LEMMA PointedExtends ==
    ASSUME NEW s, IsSeq(s), NEW a, NEW list, NEW more, Extends(list, more),
           NEW u, NEW v, Pointed(s, a, list, u, v)
    PROVE  Pointed(s, a, more, u, v)
<1> DEFINE R == [i \in 1..Len(s) |-> Point(s[i], a, list)]
           Q == [i \in 1..Len(s) |-> Point(s[i], a, more)]
<1>1. Len(s) \in Nat
  BY DEF IsSeq
<1>2. \A i \in 1..Len(s) : R[i] \subseteq Q[i]
  BY PointExtends
<1>3. Way(Len(s), R, u, v)
  BY DEF Pointed
<1> HIDE DEF R, Q
<1>4. Way(Len(s), Q, u, v)
  BY <1>1, <1>2, <1>3, WayAllows
<1> QED BY <1>4 DEF Pointed, Q

LEMMA SeenAdds ==
    ASSUME NEW s, NEW e, NEW t, Adds(s, e, t), NEW a, NEW relative, NEW list,
           NEW u, NEW v, NEW w, Seen(s, a, relative, list, u, v),
           v \in Sights, w \in Sights, Sees(e, a, relative, list, v, w)
    PROVE  Seen(t, a, relative, list, u, w)
<1> DEFINE R == [i \in 1..Len(s) |-> Sight(s[i], a, relative, list)]
           Q == [i \in 1..Len(t) |-> Sight(t[i], a, relative, list)]
<1>1. Len(s) \in Nat /\ Len(t) = Len(s) + 1
  BY DEF Adds
<1>2. \A i \in 1..Len(s) : R[i] = Q[i]
  BY <1>1 DEF Adds
<1>3. <<v, w>> \in Sight(e, a, relative, list)
  BY SightIs
<1>4. <<v, w>> \in Q[Len(s) + 1]
  BY <1>1, <1>3 DEF Adds
<1>5. Way(Len(s), R, u, v)
  BY DEF Seen
<1> HIDE DEF R, Q
<1>6. Way(Len(s) + 1, Q, u, w)
  BY <1>1, <1>2, <1>4, <1>5, WayGoesOn
<1> QED BY <1>1, <1>6 DEF Seen, Q

LEMMA SeenDrops ==
    ASSUME NEW s, NEW t, Drops(s, t), NEW a, NEW relative, NEW list, NEW u, NEW v,
           Seen(s, a, relative, list, u, v)
    PROVE  \E w \in Sights :
              Sees(Head(s), a, relative, list, u, w) /\ Seen(t, a, relative, list, w, v)
<1> DEFINE R == [i \in 1..Len(s) |-> Sight(s[i], a, relative, list)]
           Q == [i \in 1..Len(t) |-> Sight(t[i], a, relative, list)]
<1>1. Len(s) \in Nat \ {0} /\ Len(t) = Len(s) - 1
  BY DEF Drops
<1>2. \A i \in 1..(Len(s) - 1) : R[i + 1] = Q[i]
  BY <1>1 DEF Drops
<1>3. R[1] = Sight(Head(s), a, relative, list)
  BY <1>1 DEF Drops
<1>4. Way(Len(s), R, u, v)
  BY DEF Seen
<1> HIDE DEF R, Q
<1>5. PICK w : <<u, w>> \in R[1] /\ Way(Len(s) - 1, Q, w, v)
  BY <1>1, <1>2, <1>4, WayBegins
<1>6. PICK e : e = Head(s)
  OBVIOUS
<1>7. w \in Sights /\ Sees(e, a, relative, list, u, w)
  BY <1>3, <1>5, <1>6, SightIs
<1> QED BY <1>1, <1>5, <1>6, <1>7 DEF Seen, Q

LEMMA PointedAdds ==
    ASSUME NEW s, NEW e, NEW t, Adds(s, e, t), NEW a, NEW list,
           NEW u, NEW v, NEW w, Pointed(s, a, list, u, v),
           v \in Hands, w \in Hands, Points(e, a, list, v, w)
    PROVE  Pointed(t, a, list, u, w)
<1> DEFINE R == [i \in 1..Len(s) |-> Point(s[i], a, list)]
           Q == [i \in 1..Len(t) |-> Point(t[i], a, list)]
<1>1. Len(s) \in Nat /\ Len(t) = Len(s) + 1
  BY DEF Adds
<1>2. \A i \in 1..Len(s) : R[i] = Q[i]
  BY <1>1 DEF Adds
<1>3. <<v, w>> \in Point(e, a, list)
  BY PointIs
<1>4. <<v, w>> \in Q[Len(s) + 1]
  BY <1>1, <1>3 DEF Adds
<1>5. Way(Len(s), R, u, v)
  BY DEF Pointed
<1> HIDE DEF R, Q
<1>6. Way(Len(s) + 1, Q, u, w)
  BY <1>1, <1>2, <1>4, <1>5, WayGoesOn
<1> QED BY <1>1, <1>6 DEF Pointed, Q

LEMMA PointedDrops ==
    ASSUME NEW s, NEW t, Drops(s, t), NEW a, NEW list, NEW u, NEW v,
           Pointed(s, a, list, u, v)
    PROVE  \E w \in Hands : Points(Head(s), a, list, u, w) /\ Pointed(t, a, list, w, v)
<1> DEFINE R == [i \in 1..Len(s) |-> Point(s[i], a, list)]
           Q == [i \in 1..Len(t) |-> Point(t[i], a, list)]
<1>1. Len(s) \in Nat \ {0} /\ Len(t) = Len(s) - 1
  BY DEF Drops
<1>2. \A i \in 1..(Len(s) - 1) : R[i + 1] = Q[i]
  BY <1>1 DEF Drops
<1>3. R[1] = Point(Head(s), a, list)
  BY <1>1 DEF Drops
<1>4. Way(Len(s), R, u, v)
  BY DEF Pointed
<1> HIDE DEF R, Q
<1>5. PICK w : <<u, w>> \in R[1] /\ Way(Len(s) - 1, Q, w, v)
  BY <1>1, <1>2, <1>4, WayBegins
<1>6. PICK e : e = Head(s)
  OBVIOUS
<1>7. w \in Hands /\ Points(e, a, list, u, w)
  BY <1>3, <1>5, <1>6, PointIs
<1> QED BY <1>1, <1>5, <1>6, <1>7 DEF Pointed, Q

LEMMA MagnitudeIs ==
    ASSUME NEW n \in Int, NEW m \in Int
    PROVE  /\ Magnitude(n) < m <=> -m < n /\ n < m
           /\ Magnitude(n) <= m <=> -m <= n /\ n <= m
           /\ Magnitude(n) \in Nat
<1>1. CASE n < 0
  BY <1>1 DEF Magnitude
<1>2. CASE ~(n < 0)
  BY <1>2 DEF Magnitude
<1> QED BY <1>1, <1>2

\* A pixel has two halves, of which one at most is dropped.
LEMMA PixelsIs ==
    ASSUME NEW n \in Int
    PROVE  Pixels(n) \in Int /\ Magnitude(n - 2 * Pixels(n)) <= 1
<1>1. CASE n < 0
  <2>1. PICK m \in Nat : m = -n
    BY <1>1
  <2>2. m \div 2 \in Int /\ 2 * (m \div 2) <= m /\ m <= 2 * (m \div 2) + 1
    BY <2>1
  <2>3. PICK q \in Int : q = m \div 2
    BY <2>2
  <2>4. Pixels(n) = -q
    BY <1>1, <2>1, <2>3 DEF Pixels
  <2>5. n - 2 * Pixels(n) \in Int /\ -1 <= n - 2 * Pixels(n) /\ n - 2 * Pixels(n) <= 1
    BY <2>1, <2>2, <2>3, <2>4
  <2> QED BY <2>4, <2>5, MagnitudeIs
<1>2. CASE ~(n < 0)
  <2>1. n \div 2 \in Int /\ 2 * (n \div 2) <= n /\ n <= 2 * (n \div 2) + 1
    BY <1>2
  <2>2. PICK q \in Int : q = n \div 2
    BY <2>1
  <2>3. Pixels(n) = q
    BY <1>2, <2>2 DEF Pixels
  <2>4. n - 2 * Pixels(n) \in Int /\ -1 <= n - 2 * Pixels(n) /\ n - 2 * Pixels(n) <= 1
    BY <2>1, <2>2, <2>3
  <2> QED BY <2>3, <2>4, MagnitudeIs
<1> QED BY <1>1, <1>2

------------------------------------------------------------------------------
\* What an event of the wire and a record of the trace may be.
Carried(e, kinds) ==
    /\ e.ev = "motion" => e.by \in [Axes -> Int] /\ "relative" \in kinds
    /\ e.ev = "place" => e.at \in [Axes -> Int] /\ "absolute" \in kinds
    /\ e.ev = "button" => e.code \in Buttons
    /\ e.ev = "key" => e.code \notin Buttons
Shaped(r) == r.rec.kind \in {"move", "place"} => r.rec.value \in [Axes -> Int]

LandSound ==
    /\ IsSeq(trace) /\ IsSeq(wire) /\ IsSeq(spots)
    /\ \A i \in 1..Len(wire) : Carried(wire[i], motions)
    /\ \A i \in 1..Len(trace) : Shaped(trace[i])
    /\ hand \in [Axes -> Int] /\ rest \in [Axes -> Int]
    /\ \A a \in Axes : Magnitude(rest[a]) < 2 * Threshold
    /\ \A place \in last : place \in [Axes -> Int]
    /\ motions \subseteq {"relative", "absolute"}

\* A recording with motion of one kind.
Kinds(relative) == IF relative THEN {"relative"} ELSE {"absolute"}

\* The pump has recorded where the pointer was at h, but for what is in the
\* accumulator and half a pixel for each motion, or to less than the threshold.
Close(relative, a, u, h) ==
    IF relative THEN ~u.p /\ Magnitude(h - 2 * u.x - rest[a]) <= u.n
    ELSE /\ u.p <=> last # {}
         /\ \A place \in last : u.x = place[a] /\ Magnitude(2 * u.x - h) < 2 * Threshold

HandAt(a) == [h |-> hand[a], k |-> Len(spots)]

Nears(relative, a) ==
    \E u \in Sights, w \in Hands :
        /\ Seen(trace, a, relative, spots, Origin, u)
        /\ Pointed(wire, a, spots, w, HandAt(a))
        /\ u.k = w.k /\ Close(relative, a, u, w.h)

LInv ==
    recorder = "portal" =>
        /\ LandSound
        /\ \A relative \in BOOLEAN : motions \subseteq Kinds(relative) =>
              \A a \in Axes : Nears(relative, a)

\* A click of the trace is where the user clicked, if the pump was close.
LEMMA ClickIsNear ==
    ASSUME LandSound, NEW relative \in BOOLEAN, NEW a \in Axes, NEW u \in Sights, NEW h \in Int,
           Close(relative, a, u, h), u.p \/ relative
    PROVE  Magnitude(2 * u.x - h) < 2 * (Threshold + u.n)
<1>1. u.x \in Int /\ u.n \in Nat /\ Threshold \in Nat /\ rest[a] \in Int
  BY PortalAssumption DEF Sights, LandSound
<1>2. PICK x \in Int, n \in Nat, r \in Int : x = u.x /\ n = u.n /\ r = rest[a]
  BY <1>1
<1>3. CASE relative
  <2>1. Magnitude(h - 2 * x - r) <= n /\ Magnitude(r) < 2 * Threshold
    BY <1>2, <1>3 DEF Close, LandSound
  <2>2. -n <= h - 2 * x - r /\ h - 2 * x - r <= n
    BY <2>1, MagnitudeIs
  <2>3. -(2 * Threshold) < r /\ r < 2 * Threshold
    BY <1>1, <2>1, MagnitudeIs
  <2>4. -(2 * (Threshold + n)) < 2 * x - h /\ 2 * x - h < 2 * (Threshold + n)
    BY <1>1, <2>2, <2>3
  <2>5. 2 * x - h \in Int /\ 2 * (Threshold + n) \in Int
    BY <1>1
  <2> QED BY <1>2, <2>4, <2>5, MagnitudeIs
<1>4. CASE ~relative
  <2>1. PICK place : place \in last
    BY <1>4 DEF Close
  <2>2. Magnitude(2 * x - h) < 2 * Threshold
    BY <1>2, <1>4, <2>1 DEF Close
  <2>3. 2 * x - h \in Int /\ 2 * Threshold \in Int /\ 2 * (Threshold + n) \in Int
        /\ 2 * Threshold <= 2 * (Threshold + n)
    BY <1>1
  <2>4. -(2 * Threshold) < 2 * x - h /\ 2 * x - h < 2 * Threshold
    BY <2>2, <2>3, MagnitudeIs
  <2>5. -(2 * (Threshold + n)) < 2 * x - h /\ 2 * x - h < 2 * (Threshold + n)
    BY <1>1, <2>4
  <2> QED BY <1>2, <2>3, <2>5, MagnitudeIs
<1> QED BY <1>3, <1>4

\* The server sends one event more.
LEMMA HandAdds ==
    ASSUME LandSound, NEW relative, NEW a \in Axes, Nears(relative, a), NEW e, NEW t,
           Adds(wire, e, t), Extends(spots, spots'), UNCHANGED <<trace, rest, last>>,
           NEW z \in Hands, Points(e, a, spots', HandAt(a), z)
    PROVE  \E u \in Sights, w \in Hands :
              /\ Seen(trace', a, relative, spots', Origin, u)
              /\ Pointed(t, a, spots', w, z)
              /\ u.k = w.k /\ Close(relative, a, u, w.h)'
<1>1. PICK u \in Sights, w \in Hands :
        /\ Seen(trace, a, relative, spots, Origin, u)
        /\ Pointed(wire, a, spots, w, HandAt(a))
        /\ u.k = w.k /\ Close(relative, a, u, w.h)
  BY DEF Nears
<1>2. PICK list : list = spots
  OBVIOUS
<1>3. PICK more : more = spots'
  OBVIOUS
<1>4. PICK s : s = trace
  OBVIOUS
<1>5. PICK v : v = wire
  OBVIOUS
<1>6. PICK y : y = HandAt(a)
  OBVIOUS
<1>7. /\ Seen(s, a, relative, list, Origin, u) /\ Pointed(v, a, list, w, y)
      /\ IsSeq(s) /\ IsSeq(v) /\ Extends(list, more) /\ Adds(v, e, t) /\ Points(e, a, more, y, z)
  BY <1>1, <1>2, <1>3, <1>4, <1>5, <1>6 DEF LandSound
<1>8. y \in Hands
  BY <1>6 DEF HandAt, Hands, LandSound, IsSeq
<1>9. Seen(s, a, relative, more, Origin, u)
  BY <1>7, SeenExtends
<1>10. Pointed(v, a, more, w, y)
  BY <1>7, PointedExtends
<1>11. Pointed(t, a, more, w, z)
  BY <1>7, <1>8, <1>10, PointedAdds
<1>12. Close(relative, a, u, w.h)'
  BY <1>1 DEF Close
<1> QED BY <1>1, <1>3, <1>4, <1>9, <1>11, <1>12

LEMMA CarriedAdds ==
    ASSUME LandSound, NEW e, NEW t, Adds(wire, e, t),
           motions \subseteq motions', Carried(e, motions')
    PROVE  \A i \in 1..Len(t) : Carried(t[i], motions')
<1>1. ASSUME NEW i \in 1..Len(wire) PROVE Carried(t[i], motions')
  BY <1>1 DEF LandSound, Carried, Adds
<1>2. \A i \in 1..Len(t) : i \in 1..Len(wire) \/ i = Len(t)
  BY DEF Adds
<1> QED BY <1>1, <1>2 DEF Adds

LEMMA SpotsAdd ==
    ASSUME LandSound, NEW d, NEW k, NEW value, KeyMoves(d, k, value)
    PROVE  /\ IsSeq(spots') /\ Extends(spots, spots')
           /\ IF value = 1 /\ k \in Buttons
              THEN Len(spots') = Len(spots) + 1 /\ spots'[Len(spots')] = hand
              ELSE spots' = spots
<1>1. PICK s : s = spots
  OBVIOUS
<1>2. PICK at : at = hand
  OBVIOUS
<1>3. IsSeq(s)
  BY <1>1 DEF LandSound
<1>4. CASE value = 1 /\ k \in Buttons
  <2>1. PICK t : t = Append(s, at)
    OBVIOUS
  <2>2. Adds(s, at, t)
    BY <1>3, <2>1, AppendAdds
  <2>3. spots' = t
    BY <1>1, <1>2, <1>4, <2>1 DEF KeyMoves
  <2>4. IsSeq(t) /\ Len(t) = Len(s) + 1 /\ t[Len(t)] = at
    BY <2>2 DEF Adds
  <2>5. Extends(s, t)
    BY <2>2, AddsExtends
  <2> QED BY <1>1, <1>2, <1>4, <2>3, <2>4, <2>5
<1>5. CASE ~(value = 1 /\ k \in Buttons)
  <2>1. spots' = spots
    BY <1>5 DEF KeyMoves
  <2>2. Extends(s, s)
    BY <1>3 DEF Extends, IsSeq
  <2> QED BY <1>1, <1>3, <1>5, <2>1, <2>2
<1> QED BY <1>4, <1>5

\* A press or a release on the wire; then, perhaps, a change of the mask.
LEMMA KeyMovesWire ==
    ASSUME IsSeq(wire), NEW d, NEW k, NEW value, KeyMoves(d, k, value)
    PROVE  \E e, f, w : /\ e = [ev |-> IF k \in Buttons THEN "button" ELSE "key",
                                dev |-> d, code |-> k, value |-> value]
                        /\ f.ev = "modifiers"
                        /\ Adds(wire, e, w) /\ (wire' = w \/ Adds(w, f, wire'))
<1>1. PICK e : e = [ev |-> IF k \in Buttons THEN "button" ELSE "key",
                    dev |-> d, code |-> k, value |-> value]
  OBVIOUS
<1>2. PICK f : f = [ev |-> "modifiers", bits |-> HeldBits']
  OBVIOUS
<1>3. wire' = wire \o (<<e>> \o (IF HeldBits' = HeldBits THEN <<>> ELSE <<f>>))
  BY <1>1, <1>2 DEF KeyMoves, Sends
<1>4. PICK v : v = wire
  OBVIOUS
<1>5. PICK w : w = Append(v, e)
  OBVIOUS
<1>6. PICK t : t = Append(w, f)
  OBVIOUS
<1>7. Adds(v, e, w) /\ IsSeq(v) /\ IsSeq(w)
  BY <1>4, <1>5, AppendAdds DEF Adds
<1>8. Adds(w, f, t)
  BY <1>6, <1>7, AppendAdds
<1>9. v \o <<e>> = w /\ v \o <<e, f>> = t
  BY <1>5, <1>6, <1>7, JoinIsAppend, JoinTwo
<1>10. <<e>> \o <<>> = <<e>> /\ <<e>> \o <<f>> = <<e, f>>
  <2>1. <<e>> \o <<>> = <<e>>
    OBVIOUS
  <2> QED BY <2>1, OneAndOne
<1>11. wire' = w \/ wire' = t
  BY <1>3, <1>4, <1>9, <1>10
<1>12. f.ev = "modifiers"
  BY <1>2
<1> QED BY <1>1, <1>4, <1>7, <1>8, <1>11, <1>12

LEMMA KeyMovesNears ==
    ASSUME LandSound, NEW d, NEW k, NEW value, KeyMoves(d, k, value),
           NEW relative, NEW a \in Axes, Nears(relative, a)
    PROVE  Nears(relative, a)'
<1>1. UNCHANGED <<trace, rest, last, hand>>
  BY DEF KeyMoves, Sends
<1>2. PICK e, f, w : /\ e = [ev |-> IF k \in Buttons THEN "button" ELSE "key",
                             dev |-> d, code |-> k, value |-> value]
                     /\ f.ev = "modifiers"
                     /\ Adds(wire, e, w) /\ (wire' = w \/ Adds(w, f, wire'))
  BY KeyMovesWire DEF LandSound
<1>3. /\ IsSeq(spots') /\ Extends(spots, spots')
      /\ IF value = 1 /\ k \in Buttons
         THEN Len(spots') = Len(spots) + 1 /\ spots'[Len(spots')] = hand
         ELSE spots' = spots
  BY SpotsAdd
<1>4. PICK y : y = HandAt(a)
  OBVIOUS
<1>5. PICK z : z = [h |-> hand[a], k |-> Len(spots')]
  OBVIOUS
<1>6. z \in Hands /\ Len(spots) \in Nat /\ hand[a] \in Int
  BY <1>3, <1>5 DEF Hands, LandSound, IsSeq
<1>7. PICK more : more = spots'
  OBVIOUS
<1>8. Points(e, a, more, y, z)
  <2>1. CASE value = 1 /\ k \in Buttons
    <3>1. e.ev = "button" /\ e.value = 1
      BY <1>2, <2>1
    <3>2. z = [y EXCEPT !.k = @ + 1] /\ z.k <= Len(more) /\ more[z.k][a] = y.h
      BY <1>3, <1>4, <1>5, <1>6, <1>7, <2>1 DEF HandAt
    <3> QED BY <3>1, <3>2 DEF Points
  <2>2. CASE ~(value = 1 /\ k \in Buttons)
    <3>1. e.ev \in {"button", "key"} /\ ~(e.ev = "button" /\ e.value = 1)
      BY <1>2, <2>2
    <3>2. z = y
      BY <1>3, <1>4, <1>5, <2>2 DEF HandAt
    <3> QED BY <3>1, <3>2 DEF Points
  <2> QED BY <2>1, <2>2
<1>9. PICK u \in Sights, v \in Hands :
        /\ Seen(trace', a, relative, spots', Origin, u)
        /\ Pointed(w, a, spots', v, z)
        /\ u.k = v.k /\ Close(relative, a, u, v.h)'
  BY <1>1, <1>2, <1>3, <1>4, <1>6, <1>7, <1>8, HandAdds
<1>10. Pointed(wire', a, spots', v, z)
  <2>1. CASE wire' = w
    BY <1>9, <2>1
  <2>2. CASE Adds(w, f, wire')
    <3>1. PICK t : t = wire'
      OBVIOUS
    <3>2. Points(f, a, more, z, z)
      BY <1>2 DEF Points
    <3>3. Adds(w, f, t) /\ Pointed(w, a, more, v, z)
      BY <1>7, <1>9, <2>2, <3>1
    <3>4. Pointed(t, a, more, v, z)
      BY <1>6, <3>2, <3>3, PointedAdds
    <3> QED BY <1>7, <3>1, <3>4
  <2> QED BY <1>2, <2>1, <2>2
<1>11. HandAt(a)' = z
  BY <1>1, <1>5 DEF HandAt
<1> QED BY <1>9, <1>10, <1>11 DEF Nears

LEMMA KeyMovesSound ==
    ASSUME LandSound, NEW d, NEW k, NEW value, KeyMoves(d, k, value)
    PROVE  LandSound'
<1>1. UNCHANGED <<trace, rest, last, hand, motions>>
  BY DEF KeyMoves, Sends
<1>2. PICK e, f, w : /\ e = [ev |-> IF k \in Buttons THEN "button" ELSE "key",
                             dev |-> d, code |-> k, value |-> value]
                     /\ f.ev = "modifiers"
                     /\ Adds(wire, e, w) /\ (wire' = w \/ Adds(w, f, wire'))
  BY KeyMovesWire DEF LandSound
<1>3. Carried(e, motions') /\ Carried(f, motions')
  BY <1>2 DEF Carried
<1>4. \A i \in 1..Len(w) : Carried(w[i], motions')
  BY <1>1, <1>2, <1>3, CarriedAdds
<1>5. PICK t : t = wire'
  OBVIOUS
<1>6. IsSeq(t) /\ \A i \in 1..Len(t) : Carried(t[i], motions')
  <2>1. CASE t = w
    BY <1>2, <1>4, <2>1 DEF Adds
  <2>2. CASE Adds(w, f, t)
    <3>1. \A i \in 1..Len(t) : i \in 1..Len(w) \/ i = Len(t)
      BY <2>2 DEF Adds
    <3>2. ASSUME NEW i \in 1..Len(t) PROVE Carried(t[i], motions')
      <4>1. CASE i \in 1..Len(w)
        BY <1>4, <2>2, <4>1 DEF Adds
      <4>2. CASE i = Len(t)
        BY <1>3, <2>2, <4>2 DEF Adds
      <4> QED BY <3>1, <4>1, <4>2
    <3> QED BY <2>2, <3>2 DEF Adds
  <2> QED BY <1>2, <1>5, <2>1, <2>2
<1>7. IsSeq(spots')
  BY SpotsAdd
<1> QED BY <1>1, <1>5, <1>6, <1>7 DEF LandSound, Shaped

\* An event that the server sends while no key moves.
LEMMA SendsNears ==
    ASSUME LandSound, NEW e, Sends(<<e>>), UNCHANGED spots, hand' \in [Axes -> Int],
           NEW relative, NEW a \in Axes, Nears(relative, a),
           \/ e.ev = "motion" /\ hand'[a] = hand[a] + e.by[a]
           \/ e.ev = "place" /\ hand'[a] = e.at[a]
           \/ e.ev \in {"discrete", "smooth"} /\ hand'[a] = hand[a]
    PROVE  Nears(relative, a)'
<1>1. UNCHANGED <<trace, rest, last>> /\ wire' = wire \o <<e>>
  BY DEF Sends
<1>2. PICK v : v = wire
  OBVIOUS
<1>3. PICK w : w = Append(v, e)
  OBVIOUS
<1>4. IsSeq(v) /\ Adds(v, e, w) /\ v \o <<e>> = w
  BY <1>2, <1>3, AppendAdds, JoinIsAppend DEF LandSound
<1>5. wire' = w /\ Adds(wire, e, w)
  BY <1>1, <1>2, <1>4
<1>6. PICK y : y = HandAt(a)
  OBVIOUS
<1>7. PICK z : z = HandAt(a)'
  OBVIOUS
<1>8. Len(spots) \in Nat
  BY DEF LandSound, IsSeq
<1>9. /\ z \in Hands /\ z = [h |-> hand'[a], k |-> Len(spots)]
      /\ y = [h |-> hand[a], k |-> Len(spots)]
  BY <1>6, <1>7, <1>8 DEF HandAt, Hands
<1>10. PICK more : more = spots'
  OBVIOUS
<1>11. Points(e, a, more, y, z)
  BY <1>9 DEF Points
<1>12. Extends(spots, spots')
  BY <1>8 DEF Extends
<1>13. PICK u \in Sights, x \in Hands :
        /\ Seen(trace', a, relative, spots', Origin, u)
        /\ Pointed(w, a, spots', x, z)
        /\ u.k = x.k /\ Close(relative, a, u, x.h)'
  <2>1. Points(e, a, spots', HandAt(a), z)
    BY <1>6, <1>10, <1>11
  <2>2. z \in Hands
    BY <1>9
  <2>3. UNCHANGED <<trace, rest, last>>
    BY <1>1
  <2> QED BY <1>5, <1>12, <2>1, <2>2, <2>3, HandAdds
<1> QED BY <1>5, <1>7, <1>13 DEF Nears

LEMMA SendsSound ==
    ASSUME LandSound, NEW e, Sends(<<e>>), UNCHANGED spots, hand' \in [Axes -> Int],
           motions \subseteq motions', motions' \subseteq {"relative", "absolute"},
           Carried(e, motions')
    PROVE  LandSound'
<1>1. UNCHANGED <<trace, rest, last>> /\ wire' = wire \o <<e>>
  BY DEF Sends
<1>2. PICK v : v = wire
  OBVIOUS
<1>3. PICK w : w = Append(v, e)
  OBVIOUS
<1>4. IsSeq(v) /\ Adds(v, e, w) /\ v \o <<e>> = w /\ IsSeq(w)
  BY <1>2, <1>3, AppendAdds, JoinIsAppend DEF LandSound, Adds
<1>5. wire' = w /\ Adds(wire, e, w)
  BY <1>1, <1>2, <1>4
<1>6. \A i \in 1..Len(w) : Carried(w[i], motions')
  BY <1>5, CarriedAdds
<1> QED BY <1>1, <1>4, <1>5, <1>6 DEF LandSound, Shaped

LEMMA UserLInv ==
    ASSUME LInv, recorder = "portal", UNCHANGED recorder, NEW d \in Mice,
           \/ \E axis \in Axes, by \in Steps : Glide(d, axis, by)
           \/ \E at \in Places : Aim(d, at)
           \/ \E way \in Ways : Wheel(d, way)
           \/ \E by \in Steps : Finger(d, by)
    PROVE  LInv'
<1>1. LandSound /\ \A relative \in BOOLEAN : motions \subseteq Kinds(relative) =>
                      \A a \in Axes : Nears(relative, a)
  BY DEF LInv
<1>2. hand \in [Axes -> Int] /\ motions \subseteq {"relative", "absolute"}
  BY <1>1 DEF LandSound
<1>3. ASSUME NEW axis \in Axes, NEW by \in Steps, Glide(d, axis, by) PROVE LInv'
  <2>1. PICK e : e = [ev |-> "motion", dev |-> d, by |-> [Still EXCEPT ![axis] = by]]
    OBVIOUS
  <2>2. /\ Sends(<<e>>) /\ UNCHANGED spots
        /\ hand' = [hand EXCEPT ![axis] = @ + by] /\ motions' = motions \cup {"relative"}
    BY <1>3, <2>1 DEF Glide
  <2>3. by \in Int
    BY PortalAssumption
  <2>4. e.by \in [Axes -> Int]
    BY <2>1, <2>3 DEF Still
  <2>5. hand' \in [Axes -> Int]
    BY <1>2, <2>2, <2>3
  <2>6. ASSUME NEW a \in Axes PROVE hand'[a] = hand[a] + e.by[a]
    <3>1. e.by[a] = IF a = axis THEN by ELSE 0
      BY <2>1 DEF Still
    <3>2. hand[a] \in Int /\ hand'[a] = IF a = axis THEN hand[a] + by ELSE hand[a]
      BY <1>2, <2>2
    <3> QED BY <3>1, <3>2
  <2>7. Carried(e, motions')
    BY <2>1, <2>2, <2>4 DEF Carried
  <2>8. LandSound'
    BY <1>1, <1>2, <2>2, <2>5, <2>7, SendsSound
  <2>9. ASSUME NEW relative \in BOOLEAN, motions' \subseteq Kinds(relative), NEW a \in Axes
        PROVE  Nears(relative, a)'
    <3>1. Nears(relative, a)
      BY <1>1, <2>2, <2>9
    <3>2. e.ev = "motion" /\ hand'[a] = hand[a] + e.by[a]
      BY <2>1, <2>6
    <3> QED BY <1>1, <2>2, <2>5, <3>1, <3>2, SendsNears
  <2> QED BY <2>8, <2>9 DEF LInv
<1>4. ASSUME NEW at \in Places, Aim(d, at) PROVE LInv'
  <2>1. PICK e : e = [ev |-> "place", dev |-> d, at |-> at]
    OBVIOUS
  <2>2. /\ Sends(<<e>>) /\ UNCHANGED spots
        /\ hand' = at /\ motions' = motions \cup {"absolute"}
    BY <1>4, <2>1 DEF Aim
  <2>3. at \in [Axes -> Int] /\ e.at = at /\ e.ev = "place"
    BY <2>1, PortalAssumption
  <2>4. Carried(e, motions')
    BY <2>2, <2>3 DEF Carried
  <2>5. LandSound'
    BY <1>1, <1>2, <2>2, <2>3, <2>4, SendsSound
  <2>6. ASSUME NEW relative \in BOOLEAN, motions' \subseteq Kinds(relative), NEW a \in Axes
        PROVE  Nears(relative, a)'
    <3>1. Nears(relative, a)
      BY <1>1, <2>2, <2>6
    <3> QED BY <1>1, <2>2, <2>3, <3>1, SendsNears
  <2> QED BY <2>5, <2>6 DEF LInv
<1>5. ASSUME NEW e, e.ev \in {"discrete", "smooth"}, Sends(<<e>>),
             UNCHANGED <<spots, hand, motions>>
      PROVE  LInv'
  <2>1. Carried(e, motions')
    BY <1>5 DEF Carried
  <2>2. LandSound'
    BY <1>1, <1>2, <1>5, <2>1, SendsSound
  <2>3. ASSUME NEW relative \in BOOLEAN, motions' \subseteq Kinds(relative), NEW a \in Axes
        PROVE  Nears(relative, a)'
    <3>1. Nears(relative, a)
      BY <1>1, <1>5, <2>3
    <3> QED BY <1>1, <1>2, <1>5, <3>1, SendsNears
  <2> QED BY <2>2, <2>3 DEF LInv
<1>6. ASSUME NEW way \in Ways, Wheel(d, way) PROVE LInv'
  <2>1. PICK e : e = [ev |-> "discrete", dev |-> d, value |-> 120 * way]
    OBVIOUS
  <2>2. Sends(<<e>>) /\ UNCHANGED <<spots, hand, motions>> /\ e.ev = "discrete"
    BY <1>6, <2>1 DEF Wheel
  <2> QED BY <1>5, <2>2
<1>7. ASSUME NEW by \in Steps, Finger(d, by) PROVE LInv'
  <2>1. PICK e : e = [ev |-> "smooth", dev |-> d, value |-> by]
    OBVIOUS
  <2>2. Sends(<<e>>) /\ UNCHANGED <<spots, hand, motions>> /\ e.ev = "smooth"
    BY <1>7, <2>1 DEF Finger
  <2> QED BY <1>5, <2>2
<1> QED BY <1>3, <1>4, <1>6, <1>7

------------------------------------------------------------------------------
(* Recordings: the pump keeps close.                                        *)

\* What a step of the pump does to the trace, on one axis.
LEMMA PumpGoes ==
    ASSUME LandSound, PumpReads, NEW relative \in BOOLEAN, NEW a \in Axes,
           NEW u \in Sights, NEW v \in Sights, NEW w \in Hands,
           Seen(trace, a, relative, spots, Origin, u),
           Pointed(wire', a, spots, w, HandAt(a)),
           v.k = w.k, Close(relative, a, v, w.h)',
           \/ UNCHANGED trace /\ v = u
           \/ \E r : Adds(trace, r, trace') /\ Sees(r, a, relative, spots, u, v)
    PROVE  Nears(relative, a)'
<1>1. UNCHANGED <<spots, hand, motions>>
  BY DEF PumpReads
<1>2. HandAt(a)' = HandAt(a)
  BY <1>1 DEF HandAt
<1>3. Seen(trace', a, relative, spots, Origin, v)
  <2>1. CASE UNCHANGED trace /\ v = u
    BY <2>1
  <2>2. ASSUME NEW r, Adds(trace, r, trace'), Sees(r, a, relative, spots, u, v)
        PROVE  Seen(trace', a, relative, spots, Origin, v)
    <3>1. PICK s : s = trace
      OBVIOUS
    <3>2. PICK t : t = trace'
      OBVIOUS
    <3>3. PICK list : list = spots
      OBVIOUS
    <3>4. /\ Adds(s, r, t) /\ Sees(r, a, relative, list, u, v)
          /\ Seen(s, a, relative, list, Origin, u)
      BY <2>2, <3>1, <3>2, <3>3
    <3>5. Seen(t, a, relative, list, Origin, v)
      BY <3>4, SeenAdds
    <3> QED BY <3>2, <3>3, <3>5
  <2> QED BY <2>1, <2>2
<1>4. Pointed(wire', a, spots', w, HandAt(a)')
  BY <1>1, <1>2
<1> QED BY <1>1, <1>3, <1>4 DEF Nears

\* The place that was recorded last is near a place that is not far from it.
LEMMA NotFar ==
    ASSUME NEW x \in Int, NEW h \in Int, Magnitude(Pixels(h) - x) < Threshold
    PROVE  Magnitude(2 * x - h) < 2 * Threshold
<1>1. Pixels(h) \in Int /\ Magnitude(h - 2 * Pixels(h)) <= 1 /\ Threshold \in Nat \ {0}
  BY PixelsIs, PortalAssumption
<1>2. PICK q \in Int : q = Pixels(h)
  BY <1>1
<1>3. -1 <= h - 2 * q /\ h - 2 * q <= 1
  BY <1>1, <1>2, MagnitudeIs
<1>4. -Threshold < q - x /\ q - x < Threshold
  BY <1>1, <1>2, MagnitudeIs
<1>5. -(2 * Threshold) < 2 * x - h /\ 2 * x - h < 2 * Threshold
  BY <1>1, <1>3, <1>4
<1> QED BY <1>1, <1>5, MagnitudeIs

LEMMA JustThere ==
    ASSUME NEW h \in Int
    PROVE  Pixels(h) \in Int /\ Magnitude(2 * Pixels(h) - h) < 2 * Threshold
<1>1. Pixels(h) \in Int /\ Threshold \in Nat \ {0}
  BY PixelsIs, PortalAssumption
<1>2. Magnitude(Pixels(h) - Pixels(h)) < Threshold
  BY <1>1, MagnitudeIs
<1> QED BY <1>1, <1>2, NotFar

LEMMA EmitGoes ==
    ASSUME IsSeq(trace), NEW d, NEW rec, Emit(d, rec)
    PROVE  \E r : Adds(trace, r, trace') /\ r.rec = rec
<1>1. PICK s : s = trace
  OBVIOUS
<1>2. PICK r : r = [dev |-> d, rec |-> rec]
  OBVIOUS
<1>3. trace' = Append(s, r)
  BY <1>1, <1>2 DEF Emit
<1>4. Adds(s, r, Append(s, r))
  BY <1>1, AppendAdds
<1> QED BY <1>1, <1>2, <1>3, <1>4

LEMMA PumpDrops ==
    ASSUME LandSound, PumpReads
    PROVE  /\ Drops(wire, wire') /\ IsSeq(wire') /\ Carried(Head(wire), motions)
           /\ \A i \in 1..Len(wire') : Carried(wire'[i], motions)
<1>1. wire # <<>> /\ wire' = Tail(wire)
  BY DEF PumpReads
<1>2. PICK v : v = wire
  OBVIOUS
<1>3. PICK w : w = Tail(v)
  OBVIOUS
<1>4. IsSeq(v) /\ v # <<>> /\ \A i \in 1..Len(v) : Carried(v[i], motions)
  BY <1>1, <1>2 DEF LandSound
<1>5. Drops(v, w) /\ IsSeq(w)
  BY <1>3, <1>4, TailDrops DEF Drops
<1>6. Carried(Head(v), motions)
  BY <1>4, <1>5 DEF Drops
<1>7. ASSUME NEW i \in 1..Len(w) PROVE Carried(w[i], motions)
  <2>1. i + 1 \in 1..Len(v) /\ w[i] = v[i + 1]
    BY <1>5 DEF Drops
  <2> QED BY <1>4, <2>1
<1> QED BY <1>1, <1>2, <1>3, <1>5, <1>6, <1>7

LEMMA PumpPlain ==
    ASSUME LandSound, PumpReads, MapPress(Head(wire)), NEW relative \in BOOLEAN, NEW a \in Axes,
           Nears(relative, a)
    PROVE  Nears(relative, a)'
<1>1. PICK e : e = Head(wire)
  OBVIOUS
<1>2. /\ e.ev \in {"button", "key"} /\ UNCHANGED <<last, rest>>
      /\ IF e.value = 1 THEN Emit(e.dev, Press(e.code, mask)) ELSE UNCHANGED trace
  BY <1>1 DEF MapPress
<1>3. PICK u \in Sights, w \in Hands :
        /\ Seen(trace, a, relative, spots, Origin, u)
        /\ Pointed(wire, a, spots, w, HandAt(a))
        /\ u.k = w.k /\ Close(relative, a, u, w.h)
  BY DEF Nears
<1>4. PICK z \in Hands : Points(e, a, spots, w, z) /\ Pointed(wire', a, spots, z, HandAt(a))
  BY <1>1, <1>3, PumpDrops, PointedDrops
<1>5. Carried(e, motions)
  BY <1>1, PumpDrops
<1>6. CASE e.ev = "button" /\ e.value = 1
  <2>1. PICK v : v = [u EXCEPT !.k = @ + 1]
    OBVIOUS
  <2>2. v \in Sights /\ v.k = u.k + 1 /\ v.x = u.x /\ v.n = u.n /\ v.p = u.p
    BY <2>1 DEF Sights
  <2>3. z = [w EXCEPT !.k = @ + 1] /\ z.k <= Len(spots) /\ spots[z.k][a] = w.h
    BY <1>4, <1>6 DEF Points
  <2>4. z.k = w.k + 1 /\ z.h = w.h /\ w.h \in Int
    BY <2>3 DEF Hands
  <2>5. v.k = z.k
    BY <1>3, <2>2, <2>4
  <2>6. u.p \/ relative => Magnitude(2 * u.x - w.h) < 2 * (Threshold + u.n)
    BY <1>3, <2>4, ClickIsNear
  <2>7. PICK rec : rec = Press(e.code, mask)
    OBVIOUS
  <2>8. rec.kind = "click"
    BY <1>5, <1>6, <2>7 DEF Carried, Press, Record
  <2>9. PICK r : Adds(trace, r, trace') /\ r.rec = rec
    BY <1>2, <1>6, <2>7, EmitGoes DEF LandSound
  <2>10. Sees(r, a, relative, spots, u, v)
    BY <2>1, <2>3, <2>5, <2>6, <2>8, <2>9 DEF Sees
  <2>11. Close(relative, a, v, z.h)'
    BY <1>2, <1>3, <2>2, <2>4 DEF Close
  <2> QED BY <1>3, <1>4, <2>2, <2>5, <2>9, <2>10, <2>11, PumpGoes
<1>7. CASE ~(e.ev = "button" /\ e.value = 1)
  <2>1. z = w
    BY <1>2, <1>4, <1>7 DEF Points
  <2>2. Close(relative, a, u, z.h)'
    BY <1>2, <1>3, <2>1 DEF Close
  <2>3. UNCHANGED trace \/ \E r : Adds(trace, r, trace') /\ Sees(r, a, relative, spots, u, u)
    <3>1. CASE e.value = 1
      <4>1. PICK rec : rec = Press(e.code, mask)
        OBVIOUS
      <4>2. rec.kind = "key"
        BY <1>2, <1>5, <1>7, <3>1, <4>1 DEF Carried, Press, Record
      <4>3. PICK r : Adds(trace, r, trace') /\ r.rec = rec
        BY <1>2, <3>1, <4>1, EmitGoes DEF LandSound
      <4>4. Sees(r, a, relative, spots, u, u)
        BY <4>2, <4>3 DEF Sees
      <4> QED BY <4>3, <4>4
    <3>2. CASE e.value # 1
      BY <1>2, <3>2
    <3> QED BY <3>1, <3>2
  <2>4. u.k = z.k
    BY <1>3, <2>1
  <2> QED BY <1>3, <1>4, <2>2, <2>3, <2>4, PumpGoes
<1> QED BY <1>6, <1>7

LEMMA PumpOther ==
    ASSUME LandSound, PumpReads, MapModifiers(Head(wire)) \/ MapScroll(Head(wire)),
           NEW relative \in BOOLEAN, NEW a \in Axes, Nears(relative, a)
    PROVE  Nears(relative, a)'
<1>1. PICK e : e = Head(wire)
  OBVIOUS
<1>2. e.ev \in {"modifiers", "discrete", "smooth"} /\ UNCHANGED <<last, rest>>
  BY <1>1 DEF MapModifiers, MapScroll
<1>3. PICK u \in Sights, w \in Hands :
        /\ Seen(trace, a, relative, spots, Origin, u)
        /\ Pointed(wire, a, spots, w, HandAt(a))
        /\ u.k = w.k /\ Close(relative, a, u, w.h)
  BY DEF Nears
<1>4. PICK z \in Hands : Points(e, a, spots, w, z) /\ Pointed(wire', a, spots, z, HandAt(a))
  BY <1>1, <1>3, PumpDrops, PointedDrops
<1>5. z = w
  BY <1>2, <1>4 DEF Points
<1>6. Close(relative, a, u, z.h)' /\ u.k = z.k
  BY <1>2, <1>3, <1>5 DEF Close
<1>7. UNCHANGED trace \/ \E r : Adds(trace, r, trace') /\ Sees(r, a, relative, spots, u, u)
  <2>1. CASE MapModifiers(Head(wire))
    BY <2>1 DEF MapModifiers
  <2>2. CASE MapScroll(Head(wire))
    <3>1. PICK rec :
             rec = Scroll(IF e.ev = "smooth" THEN Pixels(e.value) ELSE e.value)
      OBVIOUS
    <3>2. rec.kind = "scroll" /\ Emit(e.dev, rec)
      BY <1>1, <2>2, <3>1 DEF MapScroll, Scroll, Record
    <3>3. PICK r : Adds(trace, r, trace') /\ r.rec = rec
      BY <3>2, EmitGoes DEF LandSound
    <3>4. Sees(r, a, relative, spots, u, u)
      BY <3>2, <3>3 DEF Sees
    <3> QED BY <3>3, <3>4
  <2> QED BY <2>1, <2>2
<1> QED BY <1>3, <1>4, <1>6, <1>7, PumpGoes

LEMMA PumpPlaces ==
    ASSUME LandSound, PumpReads, MapPlace(Head(wire)),
           NEW relative \in BOOLEAN, motions \subseteq Kinds(relative), NEW a \in Axes,
           Nears(relative, a)
    PROVE  Nears(relative, a)'
<1>1. PICK e : e = Head(wire)
  OBVIOUS
<1>2. PICK at : at = Truncated(e.at)
  OBVIOUS
<1>3. /\ e.ev = "place" /\ UNCHANGED rest
      /\ IF \A seen \in last : \E b \in Axes : Magnitude(at[b] - seen[b]) >= Threshold
         THEN last' = {at} /\ Emit(e.dev, Place(at)) ELSE UNCHANGED <<last, trace>>
  BY <1>1, <1>2 DEF MapPlace
<1>4. e.at \in [Axes -> Int] /\ ~relative
  BY <1>1, <1>3, PumpDrops DEF Carried, Kinds
<1>5. at \in [Axes -> Int] /\ at[a] = Pixels(e.at[a]) /\ e.at[a] \in Int
  BY <1>2, <1>4, PixelsIs DEF Truncated
<1>6. PICK u \in Sights, w \in Hands :
        /\ Seen(trace, a, relative, spots, Origin, u)
        /\ Pointed(wire, a, spots, w, HandAt(a))
        /\ u.k = w.k /\ Close(relative, a, u, w.h)
  BY DEF Nears
<1>7. PICK z \in Hands : Points(e, a, spots, w, z) /\ Pointed(wire', a, spots, z, HandAt(a))
  BY <1>1, <1>6, PumpDrops, PointedDrops
<1>8. z = [w EXCEPT !.h = e.at[a]]
  BY <1>3, <1>7 DEF Points
<1>9. z.h = e.at[a] /\ z.k = w.k
  BY <1>8 DEF Hands
<1>10. CASE \A seen \in last : \E b \in Axes : Magnitude(at[b] - seen[b]) >= Threshold
  <2>1. last' = {at} /\ Emit(e.dev, Place(at))
    BY <1>3, <1>10
  <2>2. PICK v : v = [u EXCEPT !.x = at[a], !.p = TRUE]
    OBVIOUS
  <2>3. v \in Sights /\ v.x = at[a] /\ v.p = TRUE /\ v.k = u.k
    BY <1>5, <2>2 DEF Sights
  <2>4. PICK rec : rec = Place(at)
    OBVIOUS
  <2>5. rec.kind = "place" /\ rec.value = at
    BY <2>4 DEF Place, Record
  <2>6. PICK r : Adds(trace, r, trace') /\ r.rec = rec
    BY <2>1, <2>4, EmitGoes DEF LandSound
  <2>7. Sees(r, a, relative, spots, u, v)
    BY <2>2, <2>5, <2>6 DEF Sees
  <2>8. Magnitude(2 * v.x - z.h) < 2 * Threshold
    BY <1>5, <1>9, <2>3, JustThere
  <2>9. Close(relative, a, v, z.h)'
    BY <1>4, <2>1, <2>3, <2>8 DEF Close
  <2> QED BY <1>6, <1>7, <1>9, <2>3, <2>6, <2>7, <2>9, PumpGoes
<1>11. CASE ~(\A seen \in last : \E b \in Axes : Magnitude(at[b] - seen[b]) >= Threshold)
  <2>1. UNCHANGED <<last, trace>>
    BY <1>3, <1>11
  <2>2. PICK seen \in last : ~(Magnitude(at[a] - seen[a]) >= Threshold)
    BY <1>11
  <2>3. seen[a] \in Int
    BY <2>2 DEF LandSound
  <2>4. Magnitude(at[a] - seen[a]) < Threshold
    <3>1. at[a] - seen[a] \in Int
      BY <1>5, <2>3
    <3>2. Magnitude(at[a] - seen[a]) \in Nat /\ Threshold \in Nat
      BY <3>1, MagnitudeIs, PortalAssumption
    <3> QED BY <2>2, <3>2
  <2>5. (u.p <=> last # {}) /\ \A place \in last : u.x = place[a]
    BY <1>4, <1>6 DEF Close
  <2>6. Magnitude(2 * u.x - z.h) < 2 * Threshold
    BY <1>5, <1>9, <2>2, <2>3, <2>4, <2>5, NotFar
  <2>7. Close(relative, a, u, z.h)'
    BY <1>4, <2>1, <2>5, <2>6 DEF Close
  <2> QED BY <1>6, <1>7, <1>9, <2>1, <2>7, PumpGoes
<1> QED BY <1>10, <1>11

LEMMA PumpMotions ==
    ASSUME LandSound, PumpReads, MapMotion(Head(wire)),
           NEW relative \in BOOLEAN, motions \subseteq Kinds(relative), NEW a \in Axes,
           Nears(relative, a)
    PROVE  Nears(relative, a)'
<1>1. PICK e : e = Head(wire)
  OBVIOUS
<1>2. PICK sum : sum = [b \in Axes |-> rest[b] + e.by[b]]
  OBVIOUS
<1>3. /\ e.ev = "motion" /\ UNCHANGED last
      /\ IF \E b \in Axes : Magnitude(sum[b]) >= 2 * Threshold
         THEN Emit(e.dev, Move(Truncated(sum))) /\ rest' = Still
         ELSE rest' = sum /\ UNCHANGED trace
  BY <1>1, <1>2 DEF MapMotion
<1>4. e.by \in [Axes -> Int] /\ relative
  BY <1>1, <1>3, PumpDrops DEF Carried, Kinds
<1>5. rest[a] \in Int /\ e.by[a] \in Int /\ sum[a] = rest[a] + e.by[a] /\ sum[a] \in Int
  BY <1>2, <1>4 DEF LandSound
<1>6. PICK u \in Sights, w \in Hands :
        /\ Seen(trace, a, relative, spots, Origin, u)
        /\ Pointed(wire, a, spots, w, HandAt(a))
        /\ u.k = w.k /\ Close(relative, a, u, w.h)
  BY DEF Nears
<1>7. PICK z \in Hands : Points(e, a, spots, w, z) /\ Pointed(wire', a, spots, z, HandAt(a))
  BY <1>1, <1>6, PumpDrops, PointedDrops
<1>8. z = [w EXCEPT !.h = @ + e.by[a]]
  BY <1>3, <1>7 DEF Points
<1>9. z.h = w.h + e.by[a] /\ z.k = w.k /\ w.h \in Int
  BY <1>8 DEF Hands
<1>10. u.x \in Int /\ u.n \in Nat
  BY DEF Sights
<1>11. ~u.p /\ Magnitude(w.h - 2 * u.x - rest[a]) <= u.n
  BY <1>4, <1>6 DEF Close
<1>12. PICK h \in Int, by \in Int, x \in Int, n \in Nat, m \in Int :
         h = w.h /\ by = e.by[a] /\ x = u.x /\ n = u.n /\ m = rest[a]
  BY <1>5, <1>9, <1>10
<1>13. -n <= h - 2 * x - m /\ h - 2 * x - m <= n
  BY <1>11, <1>12, MagnitudeIs
<1>14. CASE \E b \in Axes : Magnitude(sum[b]) >= 2 * Threshold
  <2>1. Emit(e.dev, Move(Truncated(sum))) /\ rest'[a] = 0
    BY <1>3, <1>14 DEF Still
  <2>2. PICK q : q = Truncated(sum)
    OBVIOUS
  <2>3. q[a] \in Int /\ Magnitude(sum[a] - 2 * q[a]) <= 1
    BY <1>5, <2>2, PixelsIs DEF Truncated
  <2>4. PICK p \in Int : p = q[a]
    BY <2>3
  <2>5. sum[a] = m + by
    BY <1>5, <1>12
  <2>6. -1 <= m + by - 2 * p /\ m + by - 2 * p <= 1
    BY <2>3, <2>4, <2>5, MagnitudeIs
  <2>7. PICK v : v = [u EXCEPT !.x = @ + q[a], !.n = @ + 1]
    OBVIOUS
  <2>8. v \in Sights /\ v.x = x + p /\ v.n = n + 1 /\ v.p = u.p /\ v.k = u.k
    <3>1. v.x = u.x + q[a] /\ v.n = u.n + 1 /\ v.p = u.p /\ v.k = u.k
      BY <2>7 DEF Sights
    <3>2. v.x \in Int /\ v.n \in Nat
      BY <1>10, <2>3, <3>1
    <3>3. v \in Sights
      BY <2>7, <3>1, <3>2 DEF Sights
    <3> QED BY <1>12, <2>4, <3>1, <3>3
  <2>9. PICK rec : rec = Move(q)
    OBVIOUS
  <2>10. rec.kind = "move" /\ rec.value = q
    BY <2>9 DEF Move, Record
  <2>11. PICK r : Adds(trace, r, trace') /\ r.rec = rec
    BY <2>1, <2>2, <2>9, EmitGoes DEF LandSound
  <2>12. Sees(r, a, relative, spots, u, v)
    BY <2>7, <2>10, <2>11 DEF Sees
  <2>13. -(n + 1) <= h + by - 2 * (x + p) - 0 /\ h + by - 2 * (x + p) - 0 <= n + 1
    BY <1>13, <2>6
  <2>14. Magnitude(h + by - 2 * (x + p) - 0) <= n + 1
    BY <2>13, MagnitudeIs
  <2>15. Magnitude(z.h - 2 * v.x - rest'[a]) <= v.n
    BY <1>9, <1>12, <2>1, <2>8, <2>14
  <2>16. Close(relative, a, v, z.h)'
    BY <1>4, <1>11, <2>8, <2>15 DEF Close
  <2> QED BY <1>6, <1>7, <1>9, <2>8, <2>11, <2>12, <2>16, PumpGoes
<1>15. CASE ~(\E b \in Axes : Magnitude(sum[b]) >= 2 * Threshold)
  <2>1. UNCHANGED trace /\ rest'[a] = m + by
    BY <1>3, <1>5, <1>12, <1>15
  <2>2. h + by - 2 * x - (m + by) = h - 2 * x - m
    OBVIOUS
  <2>3. Magnitude(z.h - 2 * u.x - rest'[a]) <= u.n
    BY <1>9, <1>11, <1>12, <2>1, <2>2
  <2>4. Close(relative, a, u, z.h)'
    BY <1>4, <1>11, <2>3 DEF Close
  <2> QED BY <1>6, <1>7, <1>9, <2>1, <2>4, PumpGoes
<1> QED BY <1>14, <1>15

LEMMA PumpLandSound ==
    ASSUME LandSound, PumpReads
    PROVE  LandSound'
<1>1. PICK e : e = Head(wire)
  OBVIOUS
<1>2. Carried(e, motions) /\ UNCHANGED <<hand, spots, motions>>
  BY <1>1, PumpDrops DEF PumpReads
<1>3. /\ UNCHANGED trace \/ \E d, rec :
                            /\ Emit(d, rec)
                            /\ rec.kind \in {"move", "place"} => rec.value \in [Axes -> Int]
      /\ rest' \in [Axes -> Int] /\ \A a \in Axes : Magnitude(rest'[a]) < 2 * Threshold
      /\ \A place \in last' : place \in [Axes -> Int]
  <2>1. CASE MapPress(e)
    <3>1. Press(e.code, mask).kind \in {"click", "key"}
      BY DEF Press, Record
    <3> QED BY <2>1, <3>1 DEF MapPress, LandSound
  <2>2. CASE MapModifiers(e)
    BY <2>2 DEF MapModifiers, LandSound
  <2>3. CASE MapPlace(e)
    <3>1. PICK at : at = Truncated(e.at)
      OBVIOUS
    <3>2. e.at \in [Axes -> Int]
      BY <1>2, <2>3 DEF MapPlace, Carried
    <3>3. at \in [Axes -> Int]
      BY <3>1, <3>2, PixelsIs DEF Truncated
    <3>4. /\ UNCHANGED rest
          /\ (last' = {at} /\ Emit(e.dev, Place(at))) \/ UNCHANGED <<last, trace>>
      BY <2>3, <3>1 DEF MapPlace
    <3>5. Place(at).value = at
      BY DEF Place, Record
    <3> QED BY <3>3, <3>4, <3>5 DEF LandSound
  <2>4. CASE MapMotion(e)
    <3>1. PICK sum : sum = [a \in Axes |-> rest[a] + e.by[a]]
      OBVIOUS
    <3>2. /\ e.ev = "motion" /\ UNCHANGED last
          /\ IF \E b \in Axes : Magnitude(sum[b]) >= 2 * Threshold
             THEN Emit(e.dev, Move(Truncated(sum))) /\ rest' = Still
             ELSE rest' = sum /\ UNCHANGED trace
      BY <2>4, <3>1 DEF MapMotion
    <3>3. sum \in [Axes -> Int]
      BY <1>2, <3>1, <3>2 DEF Carried, LandSound
    <3>4. CASE \E b \in Axes : Magnitude(sum[b]) >= 2 * Threshold
      <4>1. PICK q : q = Truncated(sum)
        OBVIOUS
      <4>2. q \in [Axes -> Int] /\ Move(q).value = q
        BY <3>3, <4>1, PixelsIs DEF Truncated, Move, Record
      <4>3. Emit(e.dev, Move(q)) /\ rest' = Still
        BY <3>2, <3>4, <4>1
      <4>4. Still \in [Axes -> Int] /\ \A a \in Axes : Magnitude(Still[a]) < 2 * Threshold
        BY PortalAssumption DEF Still, Magnitude
      <4> QED BY <3>2, <4>2, <4>3, <4>4 DEF LandSound
    <3>5. CASE ~(\E b \in Axes : Magnitude(sum[b]) >= 2 * Threshold)
      <4>1. ASSUME NEW a \in Axes PROVE Magnitude(sum[a]) < 2 * Threshold
        <5>1. sum[a] \in Int
          BY <3>3
        <5>2. Magnitude(sum[a]) \in Nat /\ 2 * Threshold \in Nat
          BY <5>1, MagnitudeIs, PortalAssumption
        <5> QED BY <3>5, <5>2
      <4>2. UNCHANGED <<trace, last>> /\ rest' = sum
        BY <3>2, <3>5
      <4> QED BY <3>3, <4>1, <4>2 DEF LandSound
    <3> QED BY <3>4, <3>5
  <2>5. CASE MapScroll(e)
    <3>1. \A value : Scroll(value).kind = "scroll"
      BY DEF Scroll, Record
    <3> QED BY <2>5, <3>1 DEF MapScroll, LandSound
  <2> QED BY <1>1, <2>1, <2>2, <2>3, <2>4, <2>5 DEF PumpReads
<1>4. IsSeq(trace') /\ \A i \in 1..Len(trace') : Shaped(trace'[i])
  <2>1. CASE UNCHANGED trace
    BY <2>1 DEF LandSound
  <2>2. ASSUME NEW d, NEW rec, Emit(d, rec),
               rec.kind \in {"move", "place"} => rec.value \in [Axes -> Int]
        PROVE  IsSeq(trace') /\ \A i \in 1..Len(trace') : Shaped(trace'[i])
    <3>1. PICK r : Adds(trace, r, trace') /\ r.rec = rec
      BY <2>2, EmitGoes DEF LandSound
    <3>2. Shaped(r)
      BY <2>2, <3>1 DEF Shaped
    <3>3. PICK s : s = trace
      OBVIOUS
    <3>4. PICK t : t = trace'
      OBVIOUS
    <3>5. Adds(s, r, t) /\ \A i \in 1..Len(s) : Shaped(s[i])
      BY <3>1, <3>3, <3>4 DEF LandSound
    <3>6. \A i \in 1..Len(t) : i \in 1..Len(s) \/ i = Len(t)
      BY <3>5 DEF Adds
    <3>7. \A i \in 1..Len(t) : Shaped(t[i])
      BY <3>2, <3>5, <3>6 DEF Adds
    <3> QED BY <3>4, <3>5, <3>7 DEF Adds
  <2> QED BY <1>3, <2>1, <2>2
<1> QED BY <1>2, <1>3, <1>4, PumpDrops DEF LandSound

------------------------------------------------------------------------------
LEMMA LInvInit == RecordingsInit => LInv
<1> SUFFICES ASSUME RecordingsInit PROVE LInv
  OBVIOUS
<1>1. /\ trace = <<>> /\ wire = <<>> /\ spots = <<>> /\ motions = {} /\ last = {}
      /\ hand = Still /\ rest = Still
  BY DEF RecordingsInit, RecordingInit, PortalInit
<1>2. Still \in [Axes -> Int] /\ \A a \in Axes : Still[a] = 0
  BY DEF Still
<1>3. LandSound
  <2>1. \A a \in Axes : Magnitude(rest[a]) < 2 * Threshold
    BY <1>1, <1>2, PortalAssumption DEF Magnitude
  <2> QED BY <1>1, <1>2, <2>1, NoneIsSeq DEF LandSound
<1>4. ASSUME NEW relative \in BOOLEAN, NEW a \in Axes PROVE Nears(relative, a)
  <2>1. PICK w : w = HandAt(a)
    OBVIOUS
  <2>2. w \in Hands /\ w.h = 0 /\ w.k = 0
    BY <1>1, <1>2, <2>1, NoneIsSeq DEF HandAt, Hands
  <2>3. Origin \in Sights /\ Origin.k = 0 /\ Origin.p = FALSE /\ Origin.x = 0 /\ Origin.n = 0
    BY DEF Origin, Sights
  <2>4. Seen(trace, a, relative, spots, Origin, Origin)
    BY <1>1, NoneIsSeq, WayOfNone DEF Seen
  <2>5. Pointed(wire, a, spots, w, HandAt(a))
    BY <1>1, <2>1, NoneIsSeq, WayOfNone DEF Pointed
  <2>6. Magnitude(0 - 2 * 0 - 0) <= 0
    BY DEF Magnitude
  <2>7. Close(relative, a, Origin, w.h)
    BY <1>1, <1>2, <2>2, <2>3, <2>6 DEF Close
  <2> QED BY <2>2, <2>3, <2>4, <2>5, <2>7 DEF Nears
<1> QED BY <1>3, <1>4 DEF LInv

LEMMA RestLInv ==
    ASSUME LInv, UNCHANGED <<trace, portal, recorder>>
    PROVE  LInv'
<1>1. UNCHANGED <<trace, hand, wire, last, rest, spots, motions, recorder>>
  BY DEF portal
<1>2. recorder = "portal" => LandSound'
  BY <1>1 DEF LInv, LandSound, Shaped
<1>3. \A relative, a : Nears(relative, a) => Nears(relative, a)'
  BY <1>1 DEF Nears, HandAt, Close
<1> QED BY <1>1, <1>2, <1>3 DEF LInv

LEMMA PortalLInv ==
    ASSUME LInv, recorder = "portal", UNCHANGED recorder, PortalNext
    PROVE  LInv'
<1>1. LandSound /\ \A relative \in BOOLEAN : motions \subseteq Kinds(relative) =>
                      \A a \in Axes : Nears(relative, a)
  BY DEF LInv
<1>2. ASSUME NEW d, NEW k, NEW value, KeyMoves(d, k, value) PROVE LInv'
  <2>1. UNCHANGED motions
    BY <1>2 DEF KeyMoves
  <2>2. LandSound'
    BY <1>1, <1>2, KeyMovesSound
  <2>3. ASSUME NEW relative \in BOOLEAN, motions' \subseteq Kinds(relative), NEW a \in Axes
        PROVE  Nears(relative, a)'
    BY <1>1, <1>2, <2>1, <2>3, KeyMovesNears
  <2> QED BY <2>2, <2>3 DEF LInv
<1>3. CASE PumpReads
  <2>1. UNCHANGED motions
    BY <1>3 DEF PumpReads
  <2>2. LandSound'
    BY <1>1, <1>3, PumpLandSound
  <2>3. ASSUME NEW relative \in BOOLEAN, motions' \subseteq Kinds(relative), NEW a \in Axes
        PROVE  Nears(relative, a)'
    <3>1. Nears(relative, a) /\ motions \subseteq Kinds(relative)
      BY <1>1, <2>1, <2>3
    <3>2. MapPress(Head(wire)) \/ (MapModifiers(Head(wire)) \/ MapScroll(Head(wire)))
          \/ MapPlace(Head(wire)) \/ MapMotion(Head(wire))
      BY <1>3 DEF PumpReads
    <3> QED BY <1>1, <1>3, <3>1, <3>2, PumpPlain, PumpOther, PumpPlaces, PumpMotions
  <2> QED BY <2>2, <2>3 DEF LInv
<1> QED BY <1>2, <1>3, UserLInv DEF PortalNext

LEMMA LInvStep == LInv /\ [RecordingsNext]_everything => LInv'
<1> SUFFICES ASSUME LInv, [RecordingsNext]_everything PROVE LInv'
  OBVIOUS
<1>1. CASE recorder = "evdev" /\ UNCHANGED recorder
  BY <1>1 DEF LInv
<1>2. CASE recorder = "portal" /\ PortalNext /\ UNCHANGED recorder
  BY <1>2, PortalLInv
<1>3. CASE UNCHANGED <<trace, portal, recorder>>
  BY <1>3, RestLInv
<1> QED BY <1>1, <1>2, <1>3 DEF RecordingsNext, everything

------------------------------------------------------------------------------
(* Recordings: the clicks of a replay.                                      *)

\* How many of the first n records are of a kind.
Count(s, n, kind) == Cardinality({i \in 1..n : s[i].rec.kind = kind})

LEMMA CountOfNone == ASSUME NEW s, NEW kind PROVE Count(s, 0, kind) = 0
<1>1. {i \in 1..0 : s[i].rec.kind = kind} = {}
  OBVIOUS
<1> QED BY <1>1, FS_EmptySet DEF Count

LEMMA CountGrows ==
    ASSUME NEW s, NEW n \in Nat, NEW kind
    PROVE  /\ Count(s, n, kind) \in Nat
           /\ Count(s, n + 1, kind) = IF s[n + 1].rec.kind = kind THEN Count(s, n, kind) + 1
                                      ELSE Count(s, n, kind)
<1>1. PICK S : S = {i \in 1..n : s[i].rec.kind = kind}
  OBVIOUS
<1>2. PICK T : T = {i \in 1..(n + 1) : s[i].rec.kind = kind}
  OBVIOUS
<1>3. IsFiniteSet(S)
  <2>1. IsFiniteSet(1..n)
    BY FS_Interval
  <2>2. S \in SUBSET (1..n)
    BY <1>1
  <2> QED BY <2>1, <2>2, FS_Subset
<1>4. Cardinality(S) \in Nat
  BY <1>3, FS_CardinalityType
<1>5. \A i \in 1..(n + 1) : i \in 1..n \/ i = n + 1
  OBVIOUS
<1>6. n + 1 \notin S /\ n + 1 \in 1..(n + 1) /\ 1..n \subseteq 1..(n + 1)
  BY <1>1
<1>7. CASE s[n + 1].rec.kind = kind
  <2>1. T = S \cup {n + 1}
    BY <1>1, <1>2, <1>5, <1>6, <1>7
  <2>2. Cardinality(T) = Cardinality(S) + 1
    BY <1>3, <1>6, <2>1, FS_AddElement
  <2> QED BY <1>1, <1>2, <1>4, <1>7, <2>2 DEF Count
<1>8. CASE s[n + 1].rec.kind # kind
  <2>1. T = S
    BY <1>1, <1>2, <1>5, <1>6, <1>8
  <2> QED BY <1>1, <1>2, <1>4, <1>8, <2>1 DEF Count
<1> QED BY <1>7, <1>8

\* Where the replay is on an axis, after Len(trace) - Len(left) records.
Now(a) ==
    LET count(kind) == Count(trace, Len(trace) - Len(left), kind)
    IN [x |-> IF count("place") > 0 THEN screen[a] ELSE screen[a] - start[a],
        n |-> count("move"), p |-> count("place") > 0, k |-> Len(landed)]

Lands(click, spot, began, a) ==
    Magnitude(2 * (click.at[a] - (IF click.placed THEN 0 ELSE began[a])) - spot[a])
        < 2 * (Threshold + click.moves)

\* The records left are the end of the trace, and near the clicks to come.
Rest ==
    /\ IsSeq(left) /\ Len(left) <= Len(trace)
    /\ \A i \in 1..Len(left) : left[i] = trace[Len(trace) - Len(left) + i]
    /\ screen \in [Axes -> Int] /\ start \in [Axes -> Int] /\ IsSeq(landed)

Landing(relative, a) ==
    /\ \E v : Seen(left, a, relative, spots, Now(a), v)
    /\ \A i \in 1..Len(landed) :
          landed[i].placed \/ relative => Lands(landed[i], spots[i], start, a)

YInv ==
    /\ replay = "no" => landed = <<>>
    /\ (recorder = "portal" /\ replay # "no") =>
          /\ Rest
          /\ \A relative \in BOOLEAN : motions \subseteq Kinds(relative) =>
                \A a \in Axes : Landing(relative, a)

LEMMA StartYInv ==
    ASSUME LInv, YInv, StartReplay, UNCHANGED <<trace, portal, recorder>>
    PROVE  YInv'
<1>1. /\ replay' = "running" /\ left' = trace /\ start' \in [Axes -> Int] /\ screen' = start'
      /\ landed' = <<>> /\ UNCHANGED <<trace, spots, motions, recorder>>
  BY ReplayAssumption DEF StartReplay, YInv, portal
<1>2. ASSUME recorder = "portal" PROVE Rest'
  <2>1. PICK s : s = trace
    OBVIOUS
  <2>2. IsSeq(s) /\ Len(s) \in Nat
    BY <1>2, <2>1 DEF LInv, LandSound, IsSeq
  <2>3. \A i \in 1..Len(s) : s[i] = s[Len(s) - Len(s) + i]
    BY <2>2
  <2> QED BY <1>1, <2>1, <2>2, <2>3, NoneIsSeq DEF Rest
<1>3. ASSUME recorder = "portal", NEW relative \in BOOLEAN, motions \subseteq Kinds(relative),
             NEW a \in Axes
      PROVE  Landing(relative, a)'
  <2>1. Nears(relative, a) /\ IsSeq(trace)
    BY <1>3 DEF LInv, LandSound
  <2>2. PICK u : Seen(trace, a, relative, spots, Origin, u)
    BY <2>1 DEF Nears
  <2>3. Len(trace') - Len(left') = 0
    BY <1>1, <2>1 DEF IsSeq
  <2>4. screen'[a] - start'[a] = 0 /\ ~(0 > 0)
    BY <1>1
  <2>5. Now(a)' = Origin
    <3>1. Count(trace', 0, "place") = 0 /\ Count(trace', 0, "move") = 0
      BY CountOfNone
    <3>2. Len(landed') = 0
      BY <1>1, NoneIsSeq
    <3>3. Now(a)' = [x |-> 0, n |-> 0, p |-> 0 > 0, k |-> 0]
      BY <2>3, <2>4, <3>1, <3>2 DEF Now
    <3>4. (0 > 0) = FALSE
      OBVIOUS
    <3> QED BY <3>3, <3>4 DEF Origin
  <2> QED BY <1>1, <2>2, <2>5, NoneIsSeq DEF Landing
<1> QED BY <1>1, <1>2, <1>3 DEF YInv

\* The next of the records left is the next of the trace.
LEMMA PlayDrops ==
    ASSUME LandSound, Rest, PlayNext, UNCHANGED trace
    PROVE  \E n \in Nat : /\ n = Len(trace) - Len(left) /\ n + 1 = Len(trace') - Len(left')
                          /\ Drops(left, left') /\ Head(left) = trace[n + 1]
                          /\ n + 1 \in 1..Len(trace)
<1>1. left # <<>> /\ left' = Tail(left)
  BY DEF PlayNext
<1>2. PICK s : s = left
  OBVIOUS
<1>3. PICK t : t = Tail(s)
  OBVIOUS
<1>4. IsSeq(s) /\ s # <<>>
  BY <1>1, <1>2 DEF Rest
<1>5. Drops(s, t)
  BY <1>3, <1>4, TailDrops
<1>6. left = s /\ left' = t
  BY <1>1, <1>2, <1>3
<1>7. Len(s) \in Nat \ {0} /\ Len(t) = Len(s) - 1 /\ Head(s) = s[1]
  BY <1>5 DEF Drops
<1>8. Len(trace) \in Nat /\ Len(s) <= Len(trace)
  BY <1>6 DEF Rest, LandSound, IsSeq
<1>9. PICK n \in Nat : n = Len(trace) - Len(s)
  BY <1>7, <1>8
<1>10. n + 1 = Len(trace) - Len(t) /\ n + 1 \in 1..Len(trace)
  BY <1>7, <1>8, <1>9
<1>11. s[1] = trace[n + 1]
  <2>1. 1 \in 1..Len(s)
    BY <1>7
  <2>2. s[1] = trace[Len(trace) - Len(s) + 1]
    BY <1>6, <2>1 DEF Rest
  <2> QED BY <1>9, <2>2
<1> QED BY <1>5, <1>6, <1>7, <1>9, <1>10, <1>11

LEMMA NowGoes ==
    ASSUME LandSound, Rest, PlayNext, UNCHANGED <<trace, portal>>,
           NEW relative, NEW a \in Axes, NEW v, Sees(Head(left), a, relative, spots, Now(a), v)
    PROVE  /\ v = Now(a)'
           /\ \/ UNCHANGED landed
              \/ \E click : /\ landed' = Append(landed, click) /\ Now(a).k + 1 <= Len(spots)
                            /\ click.placed \/ relative =>
                                  Lands(click, spots[Len(landed) + 1], start, a)
<1>1. PICK n \in Nat : /\ n = Len(trace) - Len(left) /\ n + 1 = Len(trace') - Len(left')
                       /\ Drops(left, left') /\ Head(left) = trace[n + 1]
                       /\ n + 1 \in 1..Len(trace)
  BY PlayDrops
<1>2. PICK e : e = Head(left)
  OBVIOUS
<1>3. PICK m \in Nat : m = Count(trace, n, "move")
  BY CountGrows
<1>4. PICK p \in Nat : p = Count(trace, n, "place")
  BY CountGrows
<1>5. PICK u : u = Now(a)
  OBVIOUS
<1>6. u = [x |-> IF p > 0 THEN screen[a] ELSE screen[a] - start[a],
           n |-> m, p |-> p > 0, k |-> Len(landed)]
  BY <1>1, <1>3, <1>4, <1>5 DEF Now
<1>7. /\ Count(trace, n + 1, "move") = IF e.rec.kind = "move" THEN m + 1 ELSE m
      /\ Count(trace, n + 1, "place") = IF e.rec.kind = "place" THEN p + 1 ELSE p
  <2>1. e = trace[n + 1]
    BY <1>1, <1>2
  <2>2. Count(trace, n + 1, "move") = IF e.rec.kind = "move" THEN m + 1 ELSE m
    BY <1>3, <2>1, CountGrows
  <2>3. Count(trace, n + 1, "place") = IF e.rec.kind = "place" THEN p + 1 ELSE p
    BY <1>4, <2>1, CountGrows
  <2> QED BY <2>2, <2>3
<1>8. PICK j : j = Count(trace', n + 1, "move")
  OBVIOUS
<1>9. PICK q : q = Count(trace', n + 1, "place")
  OBVIOUS
<1>10. Now(a)' = [x |-> IF q > 0 THEN screen'[a] ELSE screen'[a] - start'[a],
                  n |-> j, p |-> q > 0, k |-> Len(landed')]
  BY <1>1, <1>8, <1>9 DEF Now
<1>11. /\ j = IF e.rec.kind = "move" THEN m + 1 ELSE m
       /\ q = IF e.rec.kind = "place" THEN p + 1 ELSE p
  BY <1>7, <1>8, <1>9
<1>12. UNCHANGED <<start, spots>> /\ Len(landed) \in Nat /\ screen[a] \in Int /\ start[a] \in Int
  BY DEF PlayNext, portal, Rest, IsSeq
<1>13. Sees(e, a, relative, spots, u, v)
  BY <1>2, <1>5
<1>14. Shaped(e)
  BY <1>1, <1>2 DEF LandSound
<1>15. CASE e.rec.kind = "move"
  <2>1. screen' = [b \in Axes |-> screen[b] + e.rec.value[b]] /\ UNCHANGED landed
    BY <1>2, <1>15 DEF PlayNext, PlayKey, PlayClick, PlayScroll, PlayMove
  <2>2. e.rec.value[a] \in Int
    BY <1>14, <1>15 DEF Shaped
  <2>3. v = [u EXCEPT !.x = @ + e.rec.value[a], !.n = @ + 1]
    BY <1>13, <1>15 DEF Sees
  <2>4. screen'[a] = screen[a] + e.rec.value[a] /\ j = m + 1 /\ q = p
    BY <1>11, <1>15, <2>1
  <2>5. PICK x \in Int, y \in Int, z \in Int : x = screen[a] /\ y = start[a] /\ z = e.rec.value[a]
    BY <1>12, <2>2
  <2>6. CASE p > 0
    <3>1. u = [x |-> x, n |-> m, p |-> TRUE, k |-> Len(landed)]
      BY <1>6, <2>5, <2>6
    <3>2. Now(a)' = [x |-> x + z, n |-> m + 1, p |-> TRUE, k |-> Len(landed)]
      BY <1>10, <2>1, <2>4, <2>5, <2>6
    <3>3. v = [x |-> x + z, n |-> m + 1, p |-> TRUE, k |-> Len(landed)]
      BY ONLY <2>3, <2>5, <3>1
    <3> QED BY ONLY <2>1, <3>2, <3>3
  <2>7. CASE ~(p > 0)
    <3>1. (p > 0) = FALSE
      BY <2>7
    <3>2. u = [x |-> x - y, n |-> m, p |-> FALSE, k |-> Len(landed)]
      BY ONLY <1>6, <2>5, <2>7, <3>1
    <3>3. Now(a)' = [x |-> x + z - y, n |-> m + 1, p |-> FALSE, k |-> Len(landed)]
      <4>1. screen'[a] - start'[a] = x + z - y
        BY ONLY <1>12, <2>4, <2>5
      <4>2. (q > 0) = FALSE /\ j = m + 1 /\ landed' = landed
        BY ONLY <2>1, <2>4, <2>7
      <4> QED BY ONLY <1>10, <4>1, <4>2
    <3>4. v = [x |-> x - y + z, n |-> m + 1, p |-> FALSE, k |-> Len(landed)]
      BY ONLY <2>3, <2>5, <3>2
    <3>5. x - y + z = x + z - y
      OBVIOUS
    <3> QED BY ONLY <2>1, <3>3, <3>4, <3>5
  <2> QED BY <2>6, <2>7
<1>16. CASE e.rec.kind = "place"
  <2>1. screen' = e.rec.value /\ UNCHANGED landed
    BY <1>2, <1>16 DEF PlayNext, PlayKey, PlayClick, PlayScroll, PlayMove
  <2>2. v = [u EXCEPT !.x = e.rec.value[a], !.p = TRUE]
    BY <1>13, <1>16 DEF Sees
  <2>3. j = m /\ q > 0
    BY <1>11, <1>16
  <2>4. Now(a)' = [x |-> e.rec.value[a], n |-> m, p |-> TRUE, k |-> Len(landed)]
    BY <1>10, <2>1, <2>3
  <2>5. v = [x |-> e.rec.value[a], n |-> m, p |-> TRUE, k |-> Len(landed)]
    BY <1>6, <2>2
  <2> QED BY <2>1, <2>4, <2>5
<1>17. CASE e.rec.kind = "click"
  <2>1. PICK click : click = [at |-> screen, moves |-> m, placed |-> p > 0]
    OBVIOUS
  <2>2. UNCHANGED screen /\ landed' = Append(landed, click)
    <3>1. PlayClick
      BY <1>2, <1>17 DEF PlayNext, PlayKey, PlayScroll, PlayMove
    <3> QED BY <1>1, <1>3, <1>4, <2>1, <3>1 DEF PlayClick, Count
  <2>3. Len(landed') = Len(landed) + 1
    BY <2>2 DEF Rest, IsSeq
  <2>4. /\ v = [u EXCEPT !.k = @ + 1] /\ v.k <= Len(spots)
        /\ u.p \/ relative => Magnitude(2 * u.x - spots[v.k][a]) < 2 * (Threshold + u.n)
    BY <1>13, <1>17 DEF Sees
  <2>5. v.k = Len(landed) + 1 /\ u.k = Len(landed) /\ u.n = m /\ (u.p <=> p > 0)
        /\ u.x = IF p > 0 THEN screen[a] ELSE screen[a] - start[a]
    BY <1>6, <2>4
  <2>6. v = Now(a)'
    <3>1. j = m /\ q = p
      BY <1>11, <1>17
    <3>2. Now(a)' = [x |-> IF p > 0 THEN screen[a] ELSE screen[a] - start[a],
                     n |-> m, p |-> p > 0, k |-> Len(landed) + 1]
      BY <1>10, <1>12, <2>2, <2>3, <3>1
    <3> QED BY <1>6, <2>4, <3>2
  <2>7. u.x = click.at[a] - (IF click.placed THEN 0 ELSE start[a])
    <3>1. CASE p > 0
      <4>1. screen[a] - 0 = screen[a]
        BY <1>12
      <4> QED BY <2>1, <2>5, <3>1, <4>1
    <3>2. CASE ~(p > 0)
      BY <2>1, <2>5, <3>2
    <3> QED BY <3>1, <3>2
  <2>8. click.placed \/ relative => Lands(click, spots[Len(landed) + 1], start, a)
    BY <2>1, <2>4, <2>5, <2>7 DEF Lands
  <2> QED BY <1>5, <2>2, <2>4, <2>5, <2>6, <2>8
<1>18. CASE e.rec.kind \notin {"move", "place", "click"}
  <2>1. UNCHANGED <<screen, landed>> /\ v = u /\ j = m /\ q = p
    BY <1>2, <1>11, <1>13, <1>18 DEF PlayNext, PlayKey, PlayClick, PlayScroll, PlayMove, Sees
  <2> QED BY <1>6, <1>10, <1>12, <2>1
<1> QED BY <1>15, <1>16, <1>17, <1>18

LEMMA PlayRest ==
    ASSUME LandSound, Rest, PlayNext, UNCHANGED <<trace, portal>>
    PROVE  Rest'
<1>1. PICK n \in Nat : /\ n = Len(trace) - Len(left) /\ n + 1 = Len(trace') - Len(left')
                       /\ Drops(left, left') /\ Head(left) = trace[n + 1]
                       /\ n + 1 \in 1..Len(trace)
  BY PlayDrops
<1>2. PICK e : e = Head(left)
  OBVIOUS
<1>3. Shaped(e) /\ UNCHANGED start
  BY <1>1, <1>2 DEF LandSound, PlayNext
<1>4. PICK t : t = left'
  OBVIOUS
<1>5. Drops(left, t) /\ IsSeq(t) /\ Len(t) = Len(left) - 1 /\ Len(t) \in Nat
  BY <1>1, <1>4 DEF Drops
<1>6. Len(t) <= Len(trace)
  BY <1>5 DEF Rest, LandSound, IsSeq
<1>7. ASSUME NEW i \in 1..Len(t) PROVE t[i] = trace[n + 1 + i]
  <2>1. t[i] = left[i + 1] /\ i + 1 \in 1..Len(left)
    BY <1>5 DEF Drops
  <2>2. left[i + 1] = trace[Len(trace) - Len(left) + (i + 1)]
    BY <2>1 DEF Rest
  <2>3. n + (i + 1) = n + 1 + i
    OBVIOUS
  <2> QED BY <1>1, <2>1, <2>2, <2>3
<1>8. \A i \in 1..Len(left') : left'[i] = trace'[Len(trace') - Len(left') + i]
  <2>1. PICK m : m = Len(trace') - Len(left')
    OBVIOUS
  <2>2. m = n + 1
    BY <1>1, <2>1
  <2> QED BY <1>4, <1>7, <2>1, <2>2
<1>9. screen' \in [Axes -> Int]
  <2>1. CASE e.rec.kind \in {"move", "place"}
    <3>1. screen' = IF e.rec.kind = "place" THEN e.rec.value
                    ELSE [a \in Axes |-> screen[a] + e.rec.value[a]]
      BY <1>2, <2>1 DEF PlayNext, PlayKey, PlayClick, PlayScroll, PlayMove
    <3>2. e.rec.value \in [Axes -> Int] /\ screen \in [Axes -> Int]
      BY <1>3, <2>1 DEF Shaped, Rest
    <3> QED BY <3>1, <3>2
  <2>2. CASE e.rec.kind \notin {"move", "place"}
    <3>1. screen' = screen
      BY <1>2, <2>2 DEF PlayNext, PlayKey, PlayClick, PlayScroll, PlayMove
    <3> QED BY <3>1 DEF Rest
  <2> QED BY <2>1, <2>2
<1>10. IsSeq(landed')
  <2>1. landed' = landed \/ \E click : landed' = Append(landed, click)
    BY DEF PlayNext, PlayKey, PlayClick, PlayScroll, PlayMove
  <2>2. ASSUME NEW click, landed' = Append(landed, click) PROVE IsSeq(landed')
    <3>1. PICK s : s = landed
      OBVIOUS
    <3>2. Adds(s, click, Append(s, click))
      BY <3>1, AppendAdds DEF Rest
    <3> QED BY <2>2, <3>1, <3>2 DEF Adds
  <2> QED BY <2>1, <2>2 DEF Rest
<1> QED BY <1>1, <1>3, <1>4, <1>5, <1>6, <1>8, <1>9, <1>10 DEF Rest

LEMMA LandingGoes ==
    ASSUME LandSound, Rest, PlayNext, UNCHANGED <<trace, portal>>,
           NEW relative, NEW a \in Axes, Landing(relative, a)
    PROVE  Landing(relative, a)'
<1>1. Drops(left, left')
  BY PlayDrops
<1>2. PICK v : Seen(left, a, relative, spots, Now(a), v)
  BY DEF Landing
<1>3. PICK s : s = left
  OBVIOUS
<1>4. PICK t : t = left'
  OBVIOUS
<1>5. PICK u : u = Now(a)
  OBVIOUS
<1>6. PICK list : list = spots
  OBVIOUS
<1>7. Drops(s, t) /\ Seen(s, a, relative, list, u, v)
  BY <1>1, <1>2, <1>3, <1>4, <1>5, <1>6
<1>8. PICK w \in Sights :
         Sees(Head(s), a, relative, list, u, w) /\ Seen(t, a, relative, list, w, v)
  BY <1>7, SeenDrops
<1>9. Sees(Head(left), a, relative, spots, Now(a), w)
  BY <1>3, <1>5, <1>6, <1>8
<1>10. /\ w = Now(a)'
       /\ \/ UNCHANGED landed
          \/ \E click : /\ landed' = Append(landed, click)
                        /\ click.placed \/ relative =>
                              Lands(click, spots[Len(landed) + 1], start, a)
  BY <1>9, NowGoes
<1>11. UNCHANGED <<spots, start>>
  BY DEF portal, PlayNext
<1>12. \A i \in 1..Len(landed) :
         landed[i].placed \/ relative => Lands(landed[i], spots[i], start, a)
  BY DEF Landing
<1>13. \A i \in 1..Len(landed') :
         landed'[i].placed \/ relative => Lands(landed'[i], spots'[i], start', a)
  <2>1. CASE UNCHANGED landed
    BY <1>11, <1>12, <2>1
  <2>2. ASSUME NEW click, landed' = Append(landed, click),
               click.placed \/ relative => Lands(click, spots[Len(landed) + 1], start, a),
               NEW i \in 1..Len(landed'), landed'[i].placed \/ relative
        PROVE  Lands(landed'[i], spots'[i], start', a)
    <3>1. PICK p : p = landed
      OBVIOUS
    <3>2. PICK q : q = Append(p, click)
      OBVIOUS
    <3>3. Adds(p, click, q) /\ landed' = q
      BY <2>2, <3>1, <3>2, AppendAdds DEF Rest
    <3>4. i \in 1..Len(q)
      BY <2>2, <3>3
    <3>5. i \in 1..Len(p) \/ i = Len(p) + 1
      BY <3>3, <3>4 DEF Adds
    <3>6. Lands(q[i], spots[i], start, a)
      <4>1. CASE i \in 1..Len(p)
        BY <1>12, <2>2, <3>1, <3>3, <4>1 DEF Adds
      <4>2. CASE i = Len(p) + 1
        BY <2>2, <3>1, <3>3, <4>2 DEF Adds
      <4> QED BY <3>5, <4>1, <4>2
    <3> QED BY <1>11, <3>3, <3>6
  <2> QED BY <1>10, <2>1, <2>2
<1>14. Seen(left', a, relative, spots', Now(a)', v)
  BY <1>4, <1>6, <1>8, <1>10, <1>11
<1> QED BY <1>13, <1>14 DEF Landing

LEMMA YInvStep == LInv /\ YInv /\ [RecordingsNext]_everything => YInv'
<1> SUFFICES ASSUME LInv, YInv, [RecordingsNext]_everything PROVE YInv'
  OBVIOUS
<1>1. CASE replay = "no" /\ UNCHANGED player
  BY <1>1 DEF YInv, player
<1>2. CASE StartReplay /\ UNCHANGED <<trace, portal, recorder>>
  BY <1>2, StartYInv
<1>3. CASE PlayNext /\ UNCHANGED <<trace, portal, recorder>>
  <2>1. UNCHANGED <<replay, motions>> /\ replay = "running"
    BY <1>3 DEF PlayNext, portal
  <2>2. ASSUME recorder = "portal" PROVE LandSound /\ Rest
    BY <2>1, <2>2 DEF LInv, YInv
  <2>3. ASSUME recorder = "portal" PROVE Rest'
    BY <1>3, <2>2, <2>3, PlayRest
  <2>4. ASSUME recorder = "portal", NEW relative \in BOOLEAN, motions \subseteq Kinds(relative),
               NEW a \in Axes
        PROVE  Landing(relative, a)'
    <3>1. Landing(relative, a)
      BY <2>1, <2>4 DEF YInv
    <3> QED BY <1>3, <2>2, <2>4, <3>1, LandingGoes
  <2> QED BY <1>3, <2>1, <2>3, <2>4 DEF YInv
<1>4. CASE UNCHANGED <<left, start, screen, landed, trace, portal, recorder>> /\ replay # "no"
           /\ replay' # "no"
  <2>1. UNCHANGED <<left, start, screen, landed, trace, spots, motions, recorder>>
    BY <1>4 DEF portal
  <2>2. Rest => Rest'
    BY <2>1 DEF Rest
  <2>3. ASSUME NEW relative, NEW a, Landing(relative, a) PROVE Landing(relative, a)'
    BY <2>1, <2>3 DEF Landing, Now, Lands
  <2> QED BY <1>4, <2>1, <2>2, <2>3 DEF YInv
<1>5. CASE UNCHANGED everything
  <2>1. CASE replay = "no"
    BY <1>1, <1>5, <2>1 DEF everything
  <2>2. CASE replay # "no"
    BY <1>4, <1>5, <2>2 DEF everything, player
  <2> QED BY <2>1, <2>2
<1>6. CASE Play /\ UNCHANGED <<trace, portal, recorder>>
  <2>1. CASE PlayFails \/ EndReplay
    BY <1>4, <1>6, <2>1 DEF PlayFails, EndReplay
  <2> QED BY <1>3, <1>6, <2>1 DEF Play
<1> QED BY <1>1, <1>2, <1>5, <1>6 DEF RecordingsNext

\* A click is replayed where the user made it: what the pump has recorded is
\* where the pointer was, but for what waits in the accumulator and half a pixel
\* for each motion (or is less than the threshold from the place recorded last);
\* this holds at each click of the trace, and the replay goes the same way.
THEOREM ClicksLandNear == RecordingsSpec => []ClicksLand
<1>1. RecordingsInit => LInv /\ YInv
  BY LInvInit DEF YInv, RecordingsInit, ReplayInit
<1>2. LInv /\ YInv /\ [RecordingsNext]_everything => (LInv /\ YInv)'
  BY LInvStep, YInvStep
<1>3. LInv /\ YInv => ClicksLand
  <2> SUFFICES ASSUME LInv, YInv, recorder = "portal", Cardinality(motions) = 1,
                      NEW i \in DOMAIN landed, NEW a \in Axes
               PROVE  \/ motions = {"absolute"} /\ ~landed[i].placed
                      \/ Lands(landed[i], spots[i], start, a)
    BY DEF ClicksLand, Lands
  <2>1. replay # "no"
    BY DEF YInv
  <2>2. i \in 1..Len(landed)
    BY <2>1 DEF YInv, Rest, IsSeq
  <2>3. motions \subseteq {"relative", "absolute"}
    BY DEF LInv, LandSound
  <2>4. IsFiniteSet(motions)
    <3>1. IsFiniteSet({"relative"})
      BY FS_Singleton
    <3>2. IsFiniteSet({"relative"} \cup {"absolute"})
      BY <3>1, FS_AddElement
    <3>3. motions \in SUBSET ({"relative"} \cup {"absolute"})
      BY <2>3
    <3> QED BY <3>2, <3>3, FS_Subset
  <2>5. PICK kind : motions = {kind}
    BY <2>4, FS_Singleton
  <2>6. PICK relative \in BOOLEAN : motions = Kinds(relative)
    BY <2>3, <2>5 DEF Kinds
  <2>7. landed[i].placed \/ relative => Lands(landed[i], spots[i], start, a)
    BY <2>1, <2>2, <2>6 DEF YInv, Landing
  <2> QED BY <2>6, <2>7 DEF Kinds
<1> QED BY <1>1, <1>2, <1>3, PTL DEF RecordingsSpec
==============================================================================
