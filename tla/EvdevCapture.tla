---------------------------- MODULE EvdevCapture ----------------------------
(* The evdev side of the recorder: one task per input device reads raw        *)
(* events, stamps them and maps them (recorder/evdev.rs, evdev_to_rec in      *)
(* recorder/mapping.rs).  The tasks run in parallel and share two atomics,    *)
(* the modifier mask and the time of the last motion event; each is read and  *)
(* written in separate steps, so the model splits a handler at those points.  *)
EXTENDS Recording

CONSTANTS
    MinInterval,    \* min_move_interval_ms, in units of the clock
    MaxClock        \* bound: the clock stops here

ASSUME EvdevAssumption == {MinInterval, MaxClock} \subseteq Nat

VARIABLES
    clock,          \* milliseconds since the session started
    queue,          \* queue[d]: raw events the kernel holds for d's task
    pc, cur, stamp, \* pc[d], the raw event in hand and its t_ms
    reg,            \* reg[d]: the mask as d's task loaded it
    rel,            \* rel[d]: the motion accumulator (rel_x, rel_y)
    mods,           \* AtomicU32: the shared modifier mask, as a set of bits
    lastMove,       \* AtomicU64: last_move_ms
    moved           \* history: moved[d], the motion of d

task == <<pc, cur, stamp, reg, rel, mods, lastMove>>
evdev == <<clock, queue, task, moved>>

Raw(type, code, value) == [type |-> type, code |-> code, value |-> value]
Nothing == Raw("none", "none", 0)

EvdevInit ==
    /\ clock = 0
    /\ queue = [d \in Devices |-> <<>>]
    /\ pc = [d \in Devices |-> "idle"]
    /\ cur = [d \in Devices |-> Nothing]
    /\ stamp = [d \in Devices |-> 0]
    /\ reg = [d \in Devices |-> {}]
    /\ rel = [d \in Devices |-> Still]
    /\ mods = {} /\ lastMove = 0
    /\ moved = [d \in Devices |-> Still]

-----------------------------------------------------------------------------
(* The user and the kernel. *)

Cause(d, raws) ==
    /\ queue' = [queue EXCEPT ![d] = @ \o raws]
    /\ UNCHANGED <<trace, clock, task>>

Strike(d, k, value) ==
    /\ Strikes(d, k, value)
    /\ Cause(d, <<Raw("key", k, value)>>)
    /\ UNCHANGED moved

\* The mouse moves by one unit along one axis.
Slide(d, axis) ==
    /\ Does
    /\ Cause(d, <<Raw("rel", axis, 1)>>)
    /\ moved' = [moved EXCEPT ![d][axis] = @ + 1]
    /\ UNCHANGED <<held, made, struck>>

\* The wheel turns by one click: the kernel reports it twice, in clicks and in
\* 120ths, and counts up as positive.
Turn(d, way) ==
    /\ Turns
    /\ Cause(d, <<Raw("wheel", "REL_WHEEL", -way), Raw("wheel", "REL_WHEEL_HI_RES", -120 * way)>>)
    /\ UNCHANGED moved

Tick ==
    /\ clock < MaxClock
    /\ clock' = clock + 1
    /\ UNCHANGED <<user, trace, queue, task, moved>>

-----------------------------------------------------------------------------
(* The task of device d. *)

\* stream.next_event().await, then the time stamp.
Take(d) ==
    /\ pc[d] = "idle" /\ queue[d] # <<>>
    /\ cur' = [cur EXCEPT ![d] = Head(queue[d])]
    /\ queue' = [queue EXCEPT ![d] = Tail(@)]
    /\ stamp' = [stamp EXCEPT ![d] = clock]
    /\ pc' = [pc EXCEPT ![d] = "map"]
    /\ UNCHANGED <<clock, user, reg, rel, mods, lastMove, trace, moved>>

Done(d) == pc' = [pc EXCEPT ![d] = "idle"]

\* A modifier: the mask is loaded here and stored in a later step.
ModLoad(d) ==
    /\ pc[d] = "map" /\ cur[d].type = "key" /\ cur[d].code \in ModKeys
    /\ reg' = [reg EXCEPT ![d] = mods]
    /\ pc' = [pc EXCEPT ![d] = "store"]
    /\ UNCHANGED <<clock, user, queue, cur, stamp, rel, mods, lastMove, trace, moved>>

\* Mutant of Masked: forgets a modifier at its auto-repeat.
MaskedRepeat(mask, bit, value) == IF value = 1 THEN mask \cup {bit} ELSE mask \ {bit}

\* The mask after a modifier event: value 0 releases, 1 and 2 press.
Masked(mask, bit, value) == IF value = 0 THEN mask \ {bit} ELSE mask \cup {bit}

ModStore(d) ==
    /\ pc[d] = "store"
    /\ mods' = Masked(reg[d], BitOf[cur[d].code], cur[d].value)
    /\ Done(d)
    /\ UNCHANGED <<clock, user, queue, cur, stamp, reg, rel, lastMove, trace, moved>>

\* Mutant of Pressing: one that takes an auto-repeat for another press.
Repeats(raw) == raw.value # 0

Pressing(raw) == raw.value = 1

\* A key or a button: recorded when it goes down, a key with the mask of now.
MapKey(d) ==
    /\ pc[d] = "map" /\ cur[d].type = "key" /\ cur[d].code \notin ModKeys
    /\ IF Pressing(cur[d])
       THEN Emit(d, Press(cur[d].code, mods))
       ELSE UNCHANGED trace
    /\ Done(d)
    /\ UNCHANGED <<clock, user, queue, cur, stamp, reg, rel, mods, lastMove, moved>>

\* Either report is recorded, with the sign it came with.
MapWheel(d) ==
    /\ pc[d] = "map" /\ cur[d].type = "wheel"
    /\ Emit(d, Scroll(cur[d].value))
    /\ Done(d)
    /\ UNCHANGED <<clock, user, queue, cur, stamp, reg, rel, mods, lastMove, moved>>

\* saturating_sub: a stamp older than the last emission counts as no time.
Since(t, last) == IF t > last THEN t - last ELSE 0

\* Motion is added to the accumulator, and the clock of the throttle is read;
\* if the interval is over, the emission follows in a later step.
Accumulate(d) ==
    /\ pc[d] = "map" /\ cur[d].type = "rel"
    /\ rel' = [rel EXCEPT ![d][cur[d].code] = @ + cur[d].value]
    /\ IF Since(stamp[d], lastMove) < MinInterval
       THEN Done(d)
       ELSE pc' = [pc EXCEPT ![d] = "flush"]
    /\ UNCHANGED <<clock, user, queue, cur, stamp, reg, mods, lastMove, trace, moved>>

\* Mutant of Flush: one that leaves the other axis in the accumulator as well.
FlushKeeping(d) ==
    /\ pc[d] = "flush"
    /\ lastMove' = stamp[d]
    /\ Emit(d, Move(rel[d]))
    /\ rel' = [rel EXCEPT ![d][cur[d].code] = 0]
    /\ Done(d)
    /\ UNCHANGED <<clock, user, queue, cur, stamp, reg, mods, moved>>

Flush(d) ==
    /\ pc[d] = "flush"
    /\ lastMove' = stamp[d]
    /\ Emit(d, Move(rel[d]))
    /\ rel' = [rel EXCEPT ![d] = Still]
    /\ Done(d)
    /\ UNCHANGED <<clock, user, queue, cur, stamp, reg, mods, moved>>

Task(d) ==
    Take(d) \/ ModLoad(d) \/ ModStore(d) \/ MapKey(d) \/ MapWheel(d)
    \/ Accumulate(d) \/ Flush(d)

EvdevNext ==
    \/ \E d \in Devices : \E k \in KeysOf[d], value \in 0..2 : Strike(d, k, value)
    \/ \E d \in Mice, axis \in Axes : Slide(d, axis)
    \/ \E d \in Mice, way \in Ways : Turn(d, way)
    \/ Tick
    \/ \E d \in Devices : Task(d)

EvdevCaught == \A d \in Devices : pc[d] = "idle" /\ queue[d] = <<>>
=============================================================================
