---------------------------- MODULE LibeiDevices ----------------------------
(***************************************************************************)
(* The devices of a libei session (backend/libei.rs) once the connection   *)
(* has been made: the EIS server offers, resumes, pauses and removes       *)
(* devices; the dispatcher thread keeps a slot per kind of device and the  *)
(* keymap of the keyboard; callers look a key up and emit on a slot.  All  *)
(* three share State behind one mutex, taken anew for every step of a      *)
(* call, so a step here is what happens under one lock.                    *)
(***************************************************************************)
EXTENDS Naturals, Sequences, FiniteSets, SequencesExt

CONSTANTS Devices,   \* devices the server may offer
          Caps,      \* [Devices -> capabilities]
          Layout,    \* [Devices -> layout; "none" if without, "bad" if it does not compile]
          Table,     \* [usable layouts -> [symbol -> [code, level]]]
          Callers,   \* tasks that call the backend
          Requests,  \* the calls they make
          MaxCalls,  \* bound on the calls
          MaxEvents, \* bound on the events of the server
          MaxLag     \* bound on the events not yet handled

None == "none"
Slots == {"keyboard", "pointer", "abs"}
Usable == DOMAIN Table
ShiftOf(layout) == Table[layout]["Shift_L"].code

ASSUME DevicesAssumption ==
    /\ None \notin Devices
    /\ Caps \in [Devices -> SUBSET (Slots \cup {"button", "scroll"})]
    /\ Usable \cap {"none", "bad"} = {}
    /\ Layout \in [Devices -> Usable \cup {"none", "bad"}]
    /\ MaxCalls \in Nat /\ MaxEvents \in Nat /\ MaxLag \in Nat

\* Keys are looked up on the first two levels.  Shift is a key of every layout,
\* and no level of a key has a second symbol: looked up, it would type both.
ASSUME KeymapsAssumption ==
    \A l \in Usable :
        /\ "Shift_L" \in DOMAIN Table[l] /\ Table[l]["Shift_L"].level = 0
        /\ None \notin DOMAIN Table[l]
        /\ \A s \in DOMAIN Table[l] :
              /\ Table[l][s].code # None /\ Table[l][s].level \in {0, 1}
              /\ Table[l][s] = [code |-> Table[l][s].code, level |-> Table[l][s].level]
        /\ \A s, t \in DOMAIN Table[l] : Table[l][s] = Table[l][t] => s = t

\* mouse_button is for the pointer; a button has neither name nor code of a key.
ASSUME RequestsAssumption ==
    \A r \in Requests :
        /\ r.op = "text" => r.what \in Seq(STRING)
        /\ r.op = "point" => r.slot \in {"pointer", "abs"}
        /\ (r.op = "point" /\ r.what # None) =>
              /\ r.slot = "pointer"
              /\ \A l \in Usable : \A s \in DOMAIN Table[l] : r.what \notin {s, Table[l][s].code}

VARIABLES
    status,  \* server: [Devices -> "new", "paused", "resumed" or "removed"]
    offered, \* server: the devices it has offered, in order (history)
    events,  \* server: events sent so far
    link,    \* "up", or "down" once the server has hung up
    wire,    \* events sent and not yet handled
    slot,    \* State: [Slots -> device]
    keymap,  \* State: the layout of the keymap loaded last
    phase,   \* try_new: "waiting", "up" or "failed"
    seen,    \* devices whose DeviceResumed has been handled (history)
    count,   \* calls begun so far
    task,    \* [Callers -> the call in progress]
    frames,  \* frames written and not yet read by the server
    down,    \* server: [Devices -> codes that are down]
    text,    \* [calls -> what each should type, and what was read of it] (history)
    held,    \* symbols and buttons held down on purpose (history)
    moved    \* did a slot change while something was held? (history)

server == <<status, offered, events, link>>
state == <<slot, keymap, seen>>
calling == <<count, text, held>>
vars == <<server, wire, state, phase, task, frames, down, calling, moved>>

\* A call in progress: the keys it has looked up and not yet emitted, and the
\* code of Shift, "later" before type_text has looked that up.
Idle == [op |-> "", id |-> 0, left |-> <<>>, shift |-> None, dir |-> ""]
Free(c) == task[c] = Idle
Quiet == (\A c \in Callers : Free(c)) /\ frames = <<>>

------------------------------------------------------------------------------
(* The EIS server.                                                         *)

Send(kind, d) ==
    /\ link = "up" /\ events < MaxEvents /\ Len(wire) < MaxLag
    /\ events' = events + 1
    /\ wire' = Append(wire, [kind |-> kind, dev |-> d])
    /\ UNCHANGED <<link, state, phase, task, frames, calling, moved>>

Offer(d) ==
    /\ status[d] = "new"
    /\ status' = [status EXCEPT ![d] = "paused"]
    /\ offered' = Append(offered, d)
    /\ Send("added", d)
    /\ UNCHANGED down

Resume(d) ==
    /\ status[d] = "paused"
    /\ status' = [status EXCEPT ![d] = "resumed"]
    /\ Send("resumed", d)
    /\ UNCHANGED <<offered, down>>

\* A device that is paused or removed has nothing pressed.
Withdraw(d, kind) ==
    /\ \/ kind = "paused" /\ status[d] = "resumed"
       \/ kind = "removed" /\ status[d] \in {"paused", "resumed"}
    /\ status' = [status EXCEPT ![d] = kind]
    /\ down' = [down EXCEPT ![d] = {}]
    /\ Send(kind, d)
    /\ UNCHANGED offered

\* Disconnected, then the end of the stream: every device is gone with it.
HangUp ==
    /\ link = "up" /\ events < MaxEvents /\ Len(wire) < MaxLag
    /\ link' = "down"
    /\ events' = events + 1
    /\ status' = [d \in Devices |-> IF status[d] = "new" THEN "new" ELSE "removed"]
    /\ down' = [d \in Devices |-> {}]
    /\ wire' = Append(wire, [kind |-> "disconnected", dev |-> None])
    /\ frames' = <<>>
    /\ text' = [n \in DOMAIN text |-> IF \E i \in DOMAIN frames : frames[i].by = n
                                     THEN [text[n] EXCEPT !.sure = FALSE] ELSE text[n]]
    /\ UNCHANGED <<offered, state, phase, task, count, held, moved>>

------------------------------------------------------------------------------
(* The dispatcher: handle_event.                                           *)

\* load_keymap: a keymap that does not compile leaves the old one in place.
Loaded(d) == IF Layout[d] \in Usable THEN Layout[d] ELSE keymap

\* Mutant of Filled: a slot that is taken is left alone.
FilledOnce(d) == [s \in Slots |-> IF s \in Caps[d] /\ slot[s] = None THEN d ELSE slot[s]]

\* DeviceAdded: the newest device of a kind has the slot.
Filled(d) == [s \in Slots |-> IF s \in Caps[d] THEN d ELSE slot[s]]

\* DeviceRemoved: the slots it has are empty, whatever else was offered before.
Emptied(d) == [s \in Slots |-> IF slot[s] = d THEN None ELSE slot[s]]

\* DeviceResumed: whichever device it is, some slot must be filled.
Readied == \E s \in Slots : slot[s] # None

\* History: the slots change under a call, or under something held.
Swapped(d) ==
    /\ text' = [n \in DOMAIN text |->
                   IF "keyboard" \in Caps[d] /\ \E c \in Callers : task[c].id = n
                   THEN [text[n] EXCEPT !.sure = FALSE] ELSE text[n]]
    /\ moved' = (moved \/ (slot' # slot /\ (held # {} \/ ~Quiet)))

\* Mutant of OnAdded: a device counts as ready once it is offered.
OnAddedReady(d) ==
    /\ slot' = Filled(d)
    /\ keymap' = IF "keyboard" \in Caps[d] THEN Loaded(d) ELSE keymap
    /\ Swapped(d)
    /\ phase' = IF phase = "waiting" THEN "up" ELSE phase
    /\ UNCHANGED seen

OnAdded(d) ==
    /\ slot' = Filled(d)
    /\ keymap' = IF "keyboard" \in Caps[d] THEN Loaded(d) ELSE keymap
    /\ Swapped(d)
    /\ UNCHANGED <<phase, seen>>

OnResumed(d) ==
    /\ seen' = seen \cup {d}
    /\ phase' = IF Readied /\ phase = "waiting" THEN "up" ELSE phase
    /\ UNCHANGED <<slot, keymap, text, moved>>

OnRemoved(d) ==
    /\ slot' = Emptied(d)
    /\ Swapped(d)
    /\ UNCHANGED <<keymap, phase, seen>>

\* Pauses are ignored and Disconnected is only logged; the stream ends with
\* it, and try_new hears that the sender of its signal is gone.
OnOther(kind) ==
    /\ phase' = IF kind = "disconnected" /\ phase = "waiting" THEN "failed" ELSE phase
    /\ UNCHANGED <<state, text, moved>>

HandleEvent ==
    /\ wire # <<>>
    /\ wire' = Tail(wire)
    /\ LET e == Head(wire) IN
          \/ e.kind = "added" /\ OnAdded(e.dev)
          \/ e.kind = "resumed" /\ OnResumed(e.dev)
          \/ e.kind = "removed" /\ OnRemoved(e.dev)
          \/ e.kind \in {"paused", "disconnected"} /\ OnOther(e.kind)
    /\ UNCHANGED <<server, task, frames, down, count, held>>

\* The timeout of try_new; the dispatcher goes on.
TimeOut ==
    /\ phase = "waiting"
    /\ phase' = "failed"
    /\ UNCHANGED <<server, wire, state, task, frames, down, calling, moved>>

------------------------------------------------------------------------------
(* The calls.                                                              *)

Symbols == IF keymap \in Usable THEN DOMAIN Table[keymap] ELSE {}
LookUp(sym) == [want |-> sym, code |-> Table[keymap][sym].code,
                level |-> Table[keymap][sym].level]
Shift == IF keymap \in Usable THEN ShiftOf(keymap) ELSE None

\* What the client should read of a call; "sure" while no device that was
\* not resumed, no change of keyboard and no key held on purpose interfered.
Due(syms) == [due |-> syms, read |-> <<>>, sure |-> TRUE, ok |-> FALSE]

Begin(c, t, due) ==
    /\ phase = "up" /\ Free(c) /\ count < MaxCalls
    /\ count' = count + 1
    /\ task' = [task EXCEPT ![c] = t]
    /\ text' = [text EXCEPT ![count + 1] = due]
    /\ UNCHANGED <<server, wire, state, phase, frames, down, held, moved>>

\* key, the first lock: without a keymap, or for a symbol it lacks, an error.
BeginKey(c, r) ==
    /\ r.op = "key"
    /\ IF r.what \in Symbols
       THEN Begin(c, [op |-> "key", id |-> count + 1, left |-> <<LookUp(r.what)>>,
                     shift |-> Shift, dir |-> r.dir],
                  Due(IF r.dir = "Release" THEN <<>> ELSE <<r.what>>))
       ELSE Begin(c, Idle, Due(<<>>))

\* What a sequence has of the members of a set.
Only(seq, set) ==
    LET upto[i \in 0..Len(seq)] ==
            IF i = 0 THEN <<>>
            ELSE IF seq[i] \in set THEN Append(upto[i - 1], seq[i]) ELSE upto[i - 1]
    IN upto[Len(seq)]

\* type_text, the first lock: characters the keymap lacks are left out.
BeginText(c, r) ==
    /\ r.op = "text"
    /\ LET found == Only(r.what, Symbols) IN
          IF keymap \in Usable
          THEN Begin(c, [op |-> "text", id |-> count + 1, left |-> [i \in DOMAIN found |-> LookUp(found[i])],
                         shift |-> "later", dir |-> "PressRelease"], Due(found))
          ELSE Begin(c, Idle, Due(<<>>))

\* The second lock of type_text.
FindShift(c) ==
    /\ task[c].op = "text" /\ task[c].shift = "later"
    /\ task' = [task EXCEPT ![c].shift = Shift]
    /\ UNCHANGED <<server, wire, state, phase, frames, down, calling, moved>>

Stroke(code, on, want) == [code |-> code, on |-> on, want |-> want]

\* Mutant of Strokes: a press and release leaves Shift down.
StrokesLeaveShift(k, shift, dir) ==
    LET around(on) == IF k.level = 1 /\ shift # None THEN <<Stroke(shift, on, None)>> ELSE <<>>
        press == around(TRUE) \o <<Stroke(k.code, TRUE, k.want)>>
        release == <<Stroke(k.code, FALSE, None)>>
    IN IF dir = "Press" THEN press ELSE IF dir = "Release" THEN release ELSE press \o release

\* The key events of one frame: Shift around a key of the second level.
Strokes(k, shift, dir) ==
    LET around(on) == IF k.level = 1 /\ shift # None THEN <<Stroke(shift, on, None)>> ELSE <<>>
        press == around(TRUE) \o <<Stroke(k.code, TRUE, k.want)>>
        release == <<Stroke(k.code, FALSE, None)>> \o around(FALSE)
    IN IF dir = "Press" THEN press ELSE IF dir = "Release" THEN release ELSE press \o release

\* Is Shift down because a caller asked for it?
ShiftHeld == \E l \in Usable : \E s \in held \cap DOMAIN Table[l] :
                s = "Shift_L" \/ Table[l][s].level = 1

\* Mutant of Device: the frame goes to the device offered first.
DeviceFirst(s) == IF slot[s] = None THEN None
                  ELSE (CHOOSE d \in Devices : s \in Caps[d] /\ d \in Range(offered))

\* emit_frame picks the device when it emits, not when the key was looked up.
Device(s) == slot[s]

\* emit_frame: refused without a device, an error once the server is gone.
Emitted(n, s, strokes) ==
    /\ Device(s) # None /\ link = "up"
    /\ frames' = Append(frames, [by |-> n, dev |-> Device(s), strokes |-> strokes,
                                 alone |-> ~ShiftHeld /\ ~moved])

NotEmitted(s) ==
    /\ Device(s) = None \/ link = "down"
    /\ UNCHANGED frames

Holding(what, dir) ==
    held' = IF dir = "Press" THEN held \cup {what}
            ELSE IF dir = "Release" THEN held \ {what} ELSE held

\* The lock of key, and of type_text for one character.
EmitKey(c) ==
    LET t == task[c] IN
    /\ t.left # <<>> /\ t.shift # "later"
    /\ \/ /\ Emitted(t.id, "keyboard", Strokes(Head(t.left), t.shift, t.dir))
          /\ Holding(Head(t.left).want, t.dir)
          /\ task' = [task EXCEPT ![c] = IF Len(t.left) = 1 THEN Idle
                                         ELSE [t EXCEPT !.left = Tail(@)]]
          /\ text' = [text EXCEPT ![t.id].ok = Len(t.left) = 1]
       \/ /\ NotEmitted("keyboard")
          /\ task' = [task EXCEPT ![c] = Idle]
          /\ UNCHANGED <<text, held>>
    /\ UNCHANGED <<server, wire, state, phase, down, count, moved>>

\* A text of which the keymap has nothing.
NothingToEmit(c) ==
    /\ task[c].op = "text" /\ task[c].left = <<>> /\ task[c].shift # "later"
    /\ task' = [task EXCEPT ![c] = Idle]
    /\ text' = [text EXCEPT ![task[c].id].ok = TRUE]
    /\ UNCHANGED <<server, wire, state, phase, frames, down, count, held, moved>>

Clicks(b, dir) ==
    LET press == <<Stroke(b, TRUE, None)>>
        release == <<Stroke(b, FALSE, None)>>
    IN IF dir = "Press" THEN press ELSE IF dir = "Release" THEN release ELSE press \o release

\* mouse_button, mouse_move and scroll, of one lock each.  A device that
\* has no buttons is sent an empty frame, and the call succeeds.
Point(c, r) ==
    /\ r.op = "point"
    /\ phase = "up" /\ Free(c) /\ count < MaxCalls
    /\ count' = count + 1
    /\ LET strokes == IF r.what # None /\ "button" \in Caps[Device(r.slot)]
                      THEN Clicks(r.what, r.dir) ELSE <<>>
       IN \/ /\ Device(r.slot) # None
             /\ Emitted(count + 1, r.slot, strokes)
             /\ IF r.what # None THEN Holding(r.what, r.dir) ELSE UNCHANGED held
          \/ NotEmitted(r.slot) /\ UNCHANGED held
    /\ UNCHANGED <<server, wire, state, phase, task, down, text, moved>>

------------------------------------------------------------------------------
(* The server reads the frames; a device that is not resumed ignores them. *)

\* The symbol of a code on a device, Shift being down on any device or not.
Symbol(d, code, shifted) ==
    LET at(level) == {s \in DOMAIN Table[Layout[d]] :
                         Table[Layout[d]][s] = [code |-> code, level |-> level]}
    IN IF Layout[d] \notin Usable THEN "unknown"
       ELSE IF shifted /\ at(1) # {} THEN CHOOSE s \in at(1) : TRUE
       ELSE IF at(0) # {} THEN CHOOSE s \in at(0) : TRUE ELSE "unknown"

\* The codes that are down after the strokes: of each code the last stroke counts.
After(codes, strokes) ==
    LET last == {i \in DOMAIN strokes : \A j \in DOMAIN strokes :
                    j > i => strokes[j].code # strokes[i].code}
    IN {strokes[i].code : i \in {j \in last : strokes[j].on}}
           \cup (codes \ {strokes[i].code : i \in last})

\* Shift is down on a device when these codes are.
Shifts(d, codes) == Layout[d] \in Usable /\ ShiftOf(Layout[d]) \in codes

\* What the client reads of the strokes of a frame, which press one key at most.
Readings(d, strokes) ==
    LET keys == {i \in DOMAIN strokes : strokes[i].on /\ strokes[i].want # None}
        shifted(i) == \/ Shifts(d, After(down[d], SubSeq(strokes, 1, i - 1)))
                      \/ \E e \in Devices \ {d} : Shifts(e, down[e])
        i == CHOOSE k \in keys : TRUE
    IN IF keys = {} THEN <<>> ELSE <<Symbol(d, strokes[i].code, shifted(i))>>

ReadFrame ==
    /\ frames # <<>>
    /\ frames' = Tail(frames)
    /\ LET f == Head(frames)
           d == f.dev
           live == status[d] = "resumed"
       IN /\ down' = IF live THEN [down EXCEPT ![d] = After(@, f.strokes)] ELSE down
          /\ text' = [text EXCEPT
                ![f.by].read = IF live THEN @ \o Readings(d, f.strokes) ELSE @,
                ![f.by].sure = @ /\ live /\ Layout[d] \in Usable /\ f.alone]
    /\ UNCHANGED <<server, wire, state, phase, task, count, held, moved>>

------------------------------------------------------------------------------
Init ==
    /\ status = [d \in Devices |-> "new"] /\ offered = <<>> /\ events = 0
    /\ link = "up" /\ wire = <<>>
    /\ slot = [s \in Slots |-> None] /\ keymap = None
    /\ phase = "waiting" /\ seen = {}
    /\ count = 0 /\ task = [c \in Callers |-> Idle] /\ frames = <<>>
    /\ down = [d \in Devices |-> {}]
    /\ text = [n \in 1..MaxCalls |-> Due(<<>>)]
    /\ held = {} /\ moved = FALSE

Server ==
    \/ \E d \in Devices : Offer(d) \/ Resume(d) \/ Withdraw(d, "paused") \/ Withdraw(d, "removed")
    \/ HangUp
    \/ ReadFrame

Calls(c) ==
    \/ \E r \in Requests : BeginKey(c, r) \/ BeginText(c, r) \/ Point(c, r)
    \/ FindShift(c)
    \/ EmitKey(c)
    \/ NothingToEmit(c)

Next == Server \/ HandleEvent \/ TimeOut \/ \E c \in Callers : Calls(c)

Spec == Init /\ [][Next]_vars
------------------------------------------------------------------------------
\* Of the devices offered, number i is the newest of a kind.
Newest(s, i) ==
    /\ i \in DOMAIN offered /\ s \in Caps[offered[i]]
    /\ \A j \in DOMAIN offered : j > i => s \notin Caps[offered[j]]

\* Once the dispatcher has caught up, a slot has the newest device of its kind
\* and never one that is gone, and the keymap is the one of that keyboard if
\* it has a keymap that can be used.
SlotsFollowServer ==
    (wire = <<>> /\ link = "up") =>
        /\ \A s \in Slots :
              \/ slot[s] = None
                    /\ \A i \in DOMAIN offered : Newest(s, i) => status[offered[i]] = "removed"
              \/ \E i \in DOMAIN offered :
                    Newest(s, i) /\ slot[s] = offered[i] /\ status[offered[i]] # "removed"
        /\ slot["keyboard"] # None /\ Layout[slot["keyboard"]] \in Usable
              => keymap = Layout[slot["keyboard"]]

\* What a client reads of a call is what was asked for, in order, and all of
\* it if the call succeeded, "bounded by what the server layout covers".  The
\* exceptions are a keyboard that came or went during the call, or earlier
\* while something was held, one with no keymap of its own, one not resumed,
\* and Shift held on purpose.
TypedAsAsked ==
    \A n \in DOMAIN text : text[n].sure =>
        /\ IsPrefix(text[n].read, text[n].due)
        /\ (text[n].ok /\ \A i \in DOMAIN frames : frames[i].by # n)
              => text[n].read = text[n].due

\* Callers that hold nothing leave nothing down, on any device, unless a slot
\* changed hands under a call or under something held.
NothingStuck ==
    (Quiet /\ held = {} /\ ~moved) => \A d \in Devices : down[d] = {}

\* "A oneshot signals when the first usable device has Resumed": when try_new
\* returns, some slot has a device that has resumed; provided every device
\* fits a slot and no two fit the same.
OneEach == \A d \in Range(offered) :
               /\ Caps[d] \cap Slots # {}
               /\ \A e \in Range(offered) \ {d} : Caps[d] \cap Caps[e] \cap Slots = {}

ReadyMeansUsable ==
    [][(phase = "waiting" /\ phase' = "up" /\ OneEach) => \E s \in Slots : slot'[s] \in seen']_vars
==============================================================================
