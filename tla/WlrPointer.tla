----------------------------- MODULE WlrPointer -----------------------------
(***************************************************************************)
(* The virtual pointers and the mirror of the outputs in the worker of the *)
(* wlroots backend (backend/wlr_protocols.rs): its start, with the order   *)
(* in which the registry announces things, list_outputs, mouse_move,       *)
(* mouse_move_to_output, mouse_button and scroll, against a compositor     *)
(* whose outputs are plugged in, pulled out, and given another mode or     *)
(* scale at any time.                                                      *)
(*                                                                         *)
(* A coordinate stands for both axes.  The events of one burst about one   *)
(* object (name, mode, scale) are one event.                               *)
(***************************************************************************)
EXTENDS Naturals, Sequences, FiniteSets, SequencesExt

CONSTANTS None,
          Connectors,    \* names of outputs ("DP-1"); one id per plugging in
          Modes,         \* widths in raw pixels
          Scales,        \* scale factors
          Coordinates,   \* coordinates the user asks for
          Ops,           \* commands used
          MaxChanges,    \* bound on the changes of the desktop
          MaxCommands    \* bound on the commands

ASSUME PointerAssumption ==
    /\ IsFiniteSet(Connectors) /\ Connectors # {} /\ None \notin Connectors
    /\ "default" \notin Connectors /\ None \notin Nat
    /\ Modes \subseteq Nat \ {0} /\ Scales \subseteq Nat \ {0}
    /\ Coordinates \subseteq Nat
    /\ Ops \subseteq {"list", "move", "moveto", "relative", "button"}
    /\ MaxChanges \in Nat /\ MaxCommands \in Nat

VARIABLES
    desktop,     \* compositor: [connector -> [id, mode, scale]], plugged ones
    bound,       \* compositor: the outputs bound by the worker
    described,   \* compositor: the xdg_output objects, a sequence of ids
    mapped,      \* compositor: [pointer -> output it is confined to, or None]
    cursor,      \* compositor: [on, at], the place of the cursor
    requests,    \* from the worker to the compositor
    wire,        \* from the compositor to the worker
    mirror,      \* state.outputs, by id
    manager,     \* scratch.xdg_output_mgr is bound
    task,        \* what the worker is doing
    done,        \* its roundtrip is over
    pointers,    \* the names in output_pointers
    offered,     \* does the compositor have an xdg_output manager? (chosen)
    changes, commands,
    loose,       \* connectors that were ever pulled out (history)
    seen         \* desktops since the current command came (history)

compositor == <<desktop, bound, described, mapped, cursor>>
worker == <<mirror, manager, task, done, pointers>>
bounds == <<changes, commands, loose>>
vars == <<compositor, requests, wire, worker, offered, bounds, seen>>

Logical(o) == o.mode \div o.scale
Plugged(id) == \E c \in DOMAIN desktop : desktop[c].id = id
Of(id) == CHOOSE c \in DOMAIN desktop : desktop[c].id = id
Info(c) == [ev |-> "info", id |-> desktop[c].id, name |-> c,
            mode |-> desktop[c].mode, scale |-> desktop[c].scale]
LogicalSize(c) == [ev |-> "logical", id |-> desktop[c].id, size |-> Logical(desktop[c])]
Global(id) == [ev |-> "output", id |-> id]
Drop(f, k) == [x \in DOMAIN f \ {k} |-> f[x]]
Least(a, b) == IF a < b THEN a ELSE b

Sync == [rq |-> "sync"]
Ask(rs) == requests' = requests \o rs

------------------------------------------------------------------------------
(* The desktop changes.                                                    *)

Change == changes < MaxChanges /\ changes' = changes + 1

\* Ids are never reused.
Plug(c) ==
    /\ Change /\ c \notin DOMAIN desktop
    /\ \E mode \in Modes, scale \in Scales :
          desktop' = [d \in DOMAIN desktop \cup {c} |->
              IF d = c THEN [id |-> Cardinality(Connectors) + changes', mode |-> mode,
                             scale |-> scale] ELSE desktop[d]]
    /\ wire' = Append(wire, Global(desktop'[c].id))
    /\ UNCHANGED <<bound, described, mapped, cursor, loose>>

\* The cursor and the pointers lose the output; the worker is sent a
\* global_remove, which it ignores.
Unplug(c) ==
    /\ Change /\ c \in DOMAIN desktop
    /\ desktop' = Drop(desktop, c)
    /\ mapped' = [p \in DOMAIN mapped |-> IF mapped[p] = desktop[c].id THEN None ELSE mapped[p]]
    /\ cursor' = IF cursor.on = c THEN [on |-> None, at |-> 0] ELSE cursor
    /\ loose' = loose \cup {c}
    /\ UNCHANGED <<bound, described, wire>>

Modeset(c) ==
    /\ Change /\ c \in DOMAIN desktop
    /\ \E mode \in Modes, scale \in Scales :
          desktop' = [desktop EXCEPT ![c].mode = mode, ![c].scale = scale]
    /\ desktop' # desktop
    /\ wire' = wire
         \o (IF desktop[c].id \in bound THEN <<Info(c)'>> ELSE <<>>)
         \o (IF Contains(described, desktop[c].id) THEN <<LogicalSize(c)'>> ELSE <<>>)
    /\ UNCHANGED <<bound, described, mapped, cursor, loose>>

DesktopChanges ==
    /\ \E c \in Connectors : Plug(c) \/ Unplug(c) \/ Modeset(c)
    /\ seen' = IF task.op \in Ops THEN seen \cup {desktop'} ELSE seen
    /\ UNCHANGED <<requests, worker, offered, commands>>

------------------------------------------------------------------------------
(* The compositor handles the requests in order.                           *)

\* A motion of x in extent: across the output the pointer is confined to, or
\* else across the whole layout, which is one output or is not followed here.
Place(p, x, extent) ==
    LET across(c) == [on |-> c, at |-> (x * Logical(desktop[c])) \div extent]
    IN IF mapped[p] # None THEN across(Of(mapped[p]))
       ELSE IF Cardinality(DOMAIN desktop) = 1 THEN across(CHOOSE c \in DOMAIN desktop : TRUE)
       ELSE [on |-> None, at |-> 0]

Handle ==
    /\ requests # <<>>
    /\ requests' = Tail(requests)
    /\ LET r == Head(requests) IN
          \/ /\ r.rq = "bind"
             /\ bound' = bound \cup {r.id}
             /\ wire' = IF Plugged(r.id) THEN Append(wire, Info(Of(r.id))) ELSE wire
             /\ UNCHANGED <<described, mapped, cursor>>
          \/ /\ r.rq = "xdg"
             /\ described' = Append(described, r.id)
             /\ wire' = IF Plugged(r.id) THEN Append(wire, LogicalSize(Of(r.id))) ELSE wire
             /\ UNCHANGED <<bound, mapped, cursor>>
          \/ /\ r.rq = "pointer"
             /\ mapped' = [p \in DOMAIN mapped \cup {r.name} |->
                              IF p # r.name THEN mapped[p]
                              ELSE IF Plugged(r.id) THEN r.id ELSE None]
             /\ UNCHANGED <<bound, described, cursor, wire>>
          \/ /\ r.rq = "motion"
             /\ cursor' = Place(r.pointer, r.x, r.extent)
             /\ UNCHANGED <<bound, described, mapped, wire>>
          \/ /\ r.rq = "relative"
             /\ cursor' = [on |-> None, at |-> 0]
             /\ UNCHANGED <<bound, described, mapped, wire>>
          \/ /\ r.rq = "button"
             /\ UNCHANGED <<bound, described, mapped, cursor, wire>>
          \/ /\ r.rq = "sync"
             /\ wire' = Append(wire, [ev |-> "done"])
             /\ UNCHANGED <<bound, described, mapped, cursor>>
    /\ UNCHANGED <<desktop, worker, offered, bounds, seen>>

------------------------------------------------------------------------------
(* The worker reads events while it waits for a roundtrip, and on with     *)
(* what the same read brought when the roundtrip is over.                  *)

Entry == [name |-> None, mode |-> 0, scale |-> 0, logical |-> None, attached |-> manager]

\* The registry announces an output: it is bound, and attached if the manager
\* is there already.
OnOutput(e) ==
    /\ mirror' = [i \in DOMAIN mirror \cup {e.id} |-> IF i = e.id THEN Entry ELSE mirror[i]]
    /\ Ask(<<[rq |-> "bind", id |-> e.id]>>
             \o (IF manager THEN <<[rq |-> "xdg", id |-> e.id]>> ELSE <<>>))
    /\ UNCHANGED <<manager, done>>

OnManager ==
    /\ manager' = TRUE
    /\ UNCHANGED <<mirror, done, requests>>

OnInfo(e) ==
    /\ mirror' = [mirror EXCEPT ![e.id].name = e.name, ![e.id].mode = e.mode,
                                ![e.id].scale = e.scale]
    /\ UNCHANGED <<manager, done, requests>>

OnLogical(e) ==
    /\ mirror' = [mirror EXCEPT ![e.id].logical = e.size]
    /\ UNCHANGED <<manager, done, requests>>

OnDone ==
    /\ done' = TRUE
    /\ UNCHANGED <<mirror, manager, requests>>

Read ==
    /\ task.op # "idle" /\ wire # <<>>
    /\ LET e == Head(wire) IN
          \/ e.ev = "output" /\ OnOutput(e)
          \/ e.ev = "manager" /\ OnManager
          \/ e.ev = "info" /\ OnInfo(e)
          \/ e.ev = "logical" /\ OnLogical(e)
          \/ e.ev = "done" /\ OnDone
    /\ wire' = Tail(wire)
    /\ UNCHANGED <<compositor, task, pointers, offered, bounds, seen>>

\* A roundtrip, as part of the task t.
Roundtrip(t, rs) ==
    /\ task' = t
    /\ done' = FALSE
    /\ Ask(Append(rs, Sync))

------------------------------------------------------------------------------
(* Start of the worker: three roundtrips.                                  *)

\* Mutant of Unattached: the outputs attached by the registry handler, too.
UnattachedAny == DOMAIN mirror

Unattached == {i \in DOMAIN mirror : ~mirror[i].attached}

\* The manager may be announced after outputs: they are attached now.
Fixup ==
    /\ task.op = "registry" /\ done
    /\ IF manager
       THEN LET ids == SetToSeq(Unattached) IN
            /\ Roundtrip([op |-> "fixup"], [i \in DOMAIN ids |-> [rq |-> "xdg", id |-> ids[i]]])
            /\ mirror' = [i \in DOMAIN mirror |-> [mirror[i] EXCEPT !.attached = TRUE]]
       ELSE Roundtrip([op |-> "create"], <<>>) /\ UNCHANGED mirror
    /\ UNCHANGED <<manager, pointers>>

CreateObjects ==
    /\ task.op = "fixup" /\ done
    /\ Roundtrip([op |-> "create"], <<>>)
    /\ UNCHANGED <<mirror, manager, pointers>>

Ready ==
    /\ task.op = "create" /\ done
    /\ task' = [op |-> "idle"]
    /\ UNCHANGED <<requests, mirror, manager, done, pointers>>

Start ==
    /\ Fixup \/ CreateObjects \/ Ready
    /\ UNCHANGED <<compositor, wire, offered, bounds, seen>>

------------------------------------------------------------------------------
(* Commands.  dispatch_pending reads nothing from the socket: a move uses  *)
(* the mirror as the last roundtrip left it.                               *)

\* Mutant of List: the mirror as it is, without waiting for the roundtrip.
ListAtOnce ==
    /\ "list" \in Ops
    /\ task' = [op |-> "list", known |-> DOMAIN mirror]
    /\ done' = TRUE
    /\ UNCHANGED <<requests, pointers>>

List ==
    /\ "list" \in Ops
    /\ Roundtrip([op |-> "list", known |-> DOMAIN mirror], <<>>)
    /\ UNCHANGED pointers

Motion(p, x, extent) ==
    [rq |-> "motion", pointer |-> p, x |-> Least(x, extent), extent |-> extent]

Fallback == 10000

\* primary_extent: of some output that has a mode, in the order of a hash map.
Extents ==
    LET known == {mirror[i].mode : i \in DOMAIN mirror} \ {0}
    IN IF known = {} THEN {Fallback} ELSE known

\* The modes the worker has read when a command comes (history, in the task).
ModesKnown == [i \in DOMAIN mirror |-> mirror[i].mode]

\* mouse_move, absolute, on the default pointer.
Move(x) ==
    /\ "move" \in Ops
    /\ \E extent \in Extents :
          Roundtrip([op |-> "move", to |-> None, x |-> x, extent |-> extent, ok |-> TRUE,
                     known |-> ModesKnown],
                    <<Motion("default", x, extent)>>)
    /\ UNCHANGED pointers

\* mouse_move, relative, which leaves the cursor somewhere; mouse_button and
\* scroll, which leave it where it is.
Input(kind) ==
    /\ kind \in Ops \cap {"relative", "button"}
    /\ Roundtrip([op |-> kind, ok |-> TRUE], <<[rq |-> kind]>>)
    /\ UNCHANGED pointers

\* Mutant of Cached: one pointer serves every output.
CachedAny(name) == pointers

\* The pointer made for an output, kept under the output's name.
Cached(name) == {p \in pointers : p = name}

MoveToOutput(name, x) ==
    /\ "moveto" \in Ops
    /\ \E i \in DOMAIN mirror :
          /\ mirror[i].name = name /\ mirror[i].mode > 0
          /\ LET new == Cached(name) = {}
                 p == IF new THEN name ELSE CHOOSE q \in Cached(name) : TRUE
                 make == IF new THEN <<[rq |-> "pointer", name |-> name, id |-> i]>> ELSE <<>>
             IN /\ Roundtrip([op |-> "moveto", to |-> name, x |-> x,
                              extent |-> mirror[i].mode, ok |-> TRUE, known |-> ModesKnown],
                             make \o <<Motion(p, x, mirror[i].mode)>>)
                /\ pointers' = IF new THEN pointers \cup {name} ELSE pointers

\* "no output named": the roundtrip before the reply is made all the same.
NoSuchOutput(name, x) ==
    /\ "moveto" \in Ops
    /\ \A i \in DOMAIN mirror : mirror[i].name # name
    /\ Roundtrip([op |-> "moveto", to |-> name, x |-> x, extent |-> 0, ok |-> FALSE,
                  known |-> ModesKnown], <<>>)
    /\ UNCHANGED pointers

Issue ==
    /\ task.op = "idle" /\ commands < MaxCommands
    /\ \/ List
       \/ \E kind \in Ops : Input(kind)
       \/ \E x \in Coordinates : Move(x)
       \/ \E c \in Connectors, x \in Coordinates : MoveToOutput(c, x) \/ NoSuchOutput(c, x)
    /\ commands' = commands + 1
    /\ seen' = {desktop}
    /\ UNCHANGED <<compositor, wire, mirror, manager, offered, changes, loose>>

\* The answer of list_outputs: an output without a name is left out, the
\* logical size is preferred to the mode, a scale of 0 is 1.
Listing ==
    {[id |-> i, name |-> mirror[i].name,
      width |-> IF mirror[i].logical # None THEN mirror[i].logical ELSE mirror[i].mode,
      scale |-> IF mirror[i].scale > 0 THEN mirror[i].scale ELSE 1] :
         i \in {j \in DOMAIN mirror : mirror[j].name # None}}

Reply ==
    /\ task.op \in Ops /\ done
    /\ task' = [op |-> "idle"]
    /\ UNCHANGED <<compositor, requests, wire, mirror, manager, done, pointers,
                   offered, bounds, seen>>

------------------------------------------------------------------------------
\* The registry announces the outputs, and the manager somewhere among them.
Init ==
    /\ desktop \in [Connectors -> [id : 1..Cardinality(Connectors), mode : Modes, scale : Scales]]
    /\ \A c, d \in Connectors : desktop[c].id = desktop[d].id => c = d
    /\ bound = {} /\ described = <<>>
    /\ mapped = [p \in {"default"} |-> None]
    /\ cursor = [on |-> None, at |-> 0]
    /\ requests = <<Sync>>
    /\ LET n == Cardinality(Connectors)
           outputs == [i \in 1..n |-> Global(i)]
       IN \/ offered = TRUE /\ \E at \in 1..n + 1 :
                 wire = InsertAt(outputs, at, [ev |-> "manager"])
          \/ offered = FALSE /\ wire = outputs
    /\ mirror = <<>> /\ manager = FALSE
    /\ task = [op |-> "registry"] /\ done = FALSE
    /\ pointers = {}
    /\ changes = 0 /\ commands = 0 /\ loose = {} /\ seen = {desktop}

Next == DesktopChanges \/ Handle \/ Read \/ Start \/ Issue \/ Reply

Spec == Init /\ [][Next]_vars
------------------------------------------------------------------------------
\* The requests for an xdg_output object that the compositor has yet to handle.
Asked == {k \in DOMAIN requests : requests[k].rq = "xdg"}

\* An output is given one xdg_output object and no more, wherever the registry
\* announced the manager, and whatever is plugged in during the start.
AttachedOnce ==
    /\ IsInjective(described)
    /\ \A k, l \in Asked : requests[k].id = requests[l].id => k = l
    /\ \A k \in Asked : ~Contains(described, requests[k].id)
    /\ \A i \in DOMAIN mirror :
          /\ mirror[i].attached <=> Contains(described, i) \/ \E k \in Asked : requests[k].id = i
          /\ task.op \in Ops \cup {"idle"} => mirror[i].attached = offered

\* "Logical dimensions (post-scale) are what the cursor coordinate space sees":
\* the width and the scale of o are each the output's at some moment of the
\* call (a change of both may have been read in part).
AsSeen(o) ==
    LET had == {d[o.name] : d \in {e \in seen : o.name \in DOMAIN e}}
    IN /\ \E h \in had : h.id = o.id
       /\ \E h \in had : o.width = IF offered THEN Logical(h) ELSE h.mode
       /\ \E h \in had : o.scale = h.scale

\* "A second roundtrip catches outputs whose initial event burst hadn't
\* arrived": a list has every output that the worker knew of when it was asked
\* and that stayed plugged in, and all it has is as it was during the call, but
\* for outputs pulled out, which are never forgotten.
OutputsFresh ==
    [][ (task.op = "list" /\ task'.op = "idle") =>
        /\ \A i \in task.known : Plugged(i) => \E o \in Listing : o.id = i
        /\ \A o \in Listing : o.name \in loose \/ AsSeen(o) ]_vars

\* The mode of c that the worker had read when the move was asked for.
ModeRead(c) ==
    LET id == desktop[c].id IN IF id \in DOMAIN task.known THEN task.known[id] ELSE 0

\* All through the move c was plugged in, with that mode and no scale; and it
\* was never pulled out before.
StoodStill(c) ==
    /\ c \notin loose
    /\ \A d \in seen : d[c].scale = 1 /\ d[c].mode = ModeRead(c)

\* It was the only output there was, and the only one the worker had a mode of.
OnlyOutput(c) == \A d \in seen : DOMAIN d = {c}
OnlyKnown(c) == \A id \in DOMAIN task.known : id = desktop[c].id \/ task.known[id] = 0

MoveEnds(op) == task.op = op /\ task'.op = "idle" /\ task.ok
AtPlace(c) == cursor = [on |-> c, at |-> Least(task.x, ModeRead(c))]

\* A move that succeeds has put the cursor at the coordinate, whatever moved
\* before: on the output that was named, other outputs being what they will; on
\* the only output, if the worker knows no mode of another; it may know that of
\* one that is gone, since it forgets none, and make the move in its extent.
MoveLands ==
    [][ /\ MoveEnds("moveto") /\ StoodStill(task.to) => AtPlace(task.to)
        /\ MoveEnds("move") =>
              \A c \in DOMAIN desktop :
                  StoodStill(c) /\ OnlyOutput(c) /\ OnlyKnown(c) => AtPlace(c) ]_vars
==============================================================================
