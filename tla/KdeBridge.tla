------------------------------ MODULE KdeBridge ------------------------------
(***************************************************************************)
(* The window-management half of the KDE backend (backend/kde.rs).  Every  *)
(* call draws a request id, parks a oneshot sender under that id in the    *)
(* map of its answer type, loads a KWin script that carries the id, starts *)
(* it and waits at most three seconds for the script to call back through  *)
(* the well-known bus name com.wdotool.KdeBridge.  Ids start at 1 in every *)
(* process, the bus name passes from one process to the next, and KWin     *)
(* runs a loaded script whether or not anybody still waits for it.         *)
(***************************************************************************)
EXTENDS Naturals

CONSTANTS Procs,       \* wdotool invocations, each a process
          Tasks,       \* calls, each made once by a task of some process
          Windows,     \* the windows of the desktop
          Unreadable,  \* windows whose frameGeometry KWin cannot report
          KindsUsed,   \* the kinds of call made
          None         \* no window, no process, no kind

Kinds == {"list", "active", "geometry", "pointer", "activate", "close"}
Targeted == {"geometry", "activate", "close"}

ASSUME KdeAssumption ==
    /\ KindsUsed \subseteq Kinds
    /\ Unreadable \subseteq Windows
    /\ None \notin Procs \cup Windows \cup Kinds

VARIABLES
    session,   \* [Procs -> new, up, refused, gone]
    owner,     \* the process that owns the bridge's bus name, or None
    nextId,    \* KdeBackend::next_id of each process
    proc,      \* the process each task runs in, or None
    kind,      \* the kind of call each task makes, or None
    target,    \* the window id it names, or None
    req,       \* the request id it drew, 0 before
    pc,        \* where each task is
    pending,   \* PendingState: the parked senders of every process
    answer,    \* what was sent on each task's oneshot (at most one value)
    loaded,    \* tasks whose script KWin has loaded and not started
    running,   \* tasks whose script KWin is about to run
    bus,       \* callbacks on their way to a process
    executed,  \* tasks whose script ran to its callback (history)
    said,      \* the windows each script's callback speaks of (history)
    open,      \* the windows that exist
    active     \* the focused window, or None

taskVars == <<proc, kind, target, req>>
kwinVars == <<loaded, running, executed, said>>
desktop  == <<open, active>>
vars == <<session, owner, nextId, proc, kind, target, req, pc, pending, answer,
          loaded, running, bus, executed, said, open, active>>

\* The five maps of PendingState; both actions share one.
MapOf(k) == IF k \in {"activate", "close"} THEN "action" ELSE k
Maps == {MapOf(k) : k \in Kinds}

Callbacks == [dest : Procs, map : Maps, id : Nat, val : SUBSET Windows, task : Tasks]
Waiters == [proc : Procs, map : Maps, id : Nat, task : Tasks]

Waiting == {"numbered", "registered", "loaded", "waiting"}
Done == {"ok", "not_found", "timed_out", "failed"}

\* A task takes steps only while its process lives.
At(t, label) == pc[t] = label /\ session[proc[t]] = "up"
Orphaned(t) == pc[t] \in Waiting /\ session[proc[t]] = "gone"
Goto(t, label) == pc' = [pc EXCEPT ![t] = label]

------------------------------------------------------------------------------
Init ==
    /\ session = [p \in Procs |-> "new"]
    /\ owner = None
    /\ nextId = [p \in Procs |-> 1]
    /\ proc = [t \in Tasks |-> None]
    /\ kind = [t \in Tasks |-> None]
    /\ target = [t \in Tasks |-> None]
    /\ req = [t \in Tasks |-> 0]
    /\ pc = [t \in Tasks |-> "idle"]
    /\ pending = {}
    /\ answer = [t \in Tasks |-> {}]
    /\ loaded = {}
    /\ running = {}
    /\ bus = {}
    /\ executed = {}
    /\ said = [t \in Tasks |-> {}]
    /\ open = Windows
    /\ active \in Windows

\* Mutant of TryNew: the name is taken over from its owner.
TryNewReplacing(p) ==
    /\ session[p] = "new"
    /\ session' = [session EXCEPT ![p] = "up"]
    /\ owner' = p
    /\ UNCHANGED <<nextId, taskVars, pc, pending, answer, kwinVars, bus, desktop>>

\* try_new: request_name asks for exclusive ownership and fails if it is held.
TryNew(p) ==
    /\ session[p] = "new"
    /\ IF owner = None
       THEN session' = [session EXCEPT ![p] = "up"] /\ owner' = p
       ELSE session' = [session EXCEPT ![p] = "refused"] /\ UNCHANGED owner
    /\ UNCHANGED <<nextId, taskVars, pc, pending, answer, kwinVars, bus, desktop>>

\* The process ends, its calls finished or not: its bus name is released,
\* its maps are gone and callbacks addressed to it are lost.  KWin keeps
\* the scripts it was given.
Exit(p) ==
    /\ session[p] = "up"
    /\ session' = [session EXCEPT ![p] = "gone"]
    /\ owner' = None
    /\ pending' = {w \in pending : w.proc # p}
    /\ bus' = {m \in bus : m.dest # p}
    /\ UNCHANGED <<nextId, taskVars, pc, answer, kwinVars, desktop>>

\* Mutant of NextRequestId: ids that never advance.
NextRequestIdStuck(p) == [drawn |-> nextId[p], left |-> nextId[p]]

\* next_request_id: the value fetch_add returns and the one it leaves.
NextRequestId(p) == [drawn |-> nextId[p], left |-> nextId[p] + 1]

\* Entry of a window-management call: draw the id.
Begin(t, p) ==
    /\ pc[t] = "idle"
    /\ session[p] = "up"
    /\ \E k \in KindsUsed, w \in Windows :
          /\ kind' = [kind EXCEPT ![t] = k]
          /\ target' = [target EXCEPT ![t] = IF k \in Targeted THEN w ELSE None]
    /\ proc' = [proc EXCEPT ![t] = p]
    /\ req' = [req EXCEPT ![t] = NextRequestId(p).drawn]
    /\ nextId' = [nextId EXCEPT ![p] = NextRequestId(p).left]
    /\ Goto(t, "numbered")
    /\ UNCHANGED <<session, owner, pending, answer, kwinVars, bus, desktop>>

\* A HashMap insert: an entry under the same key of the same map is replaced.
Insert(w) ==
    {v \in pending : <<v.proc, v.map, v.id>> # <<w.proc, w.map, w.id>>} \cup {w}

\* self.pending.lock().await.<map>_waiters.insert(req_id, tx)
Register(t) ==
    /\ At(t, "numbered")
    /\ pending' = Insert([proc |-> proc[t], map |-> MapOf(kind[t]),
                          id |-> req[t], task |-> t])
    /\ Goto(t, "registered")
    /\ UNCHANGED <<session, owner, nextId, taskVars, answer, kwinVars, bus, desktop>>

\* run_kwin_script, the loading half.  On Plasma 5 a loaded script starts by
\* itself; on Plasma 6 it waits for start().  An error, or a negative script
\* id, ends the call and leaves its waiter in the map.
LoadScript(t) ==
    /\ At(t, "registered")
    /\ \/ loaded' = loaded \cup {t} /\ UNCHANGED running /\ Goto(t, "loaded")
       \/ running' = running \cup {t} /\ UNCHANGED loaded /\ Goto(t, "loaded")
       \/ UNCHANGED <<loaded, running>> /\ Goto(t, "failed")
    /\ UNCHANGED <<session, owner, nextId, taskVars, pending, answer, bus,
                   executed, said, desktop>>

\* run_kwin_script, the starting half: start() starts every loaded script,
\* those of earlier calls too; its error is ignored.
StartScripts(t) ==
    /\ At(t, "loaded")
    /\ \/ running' = running \cup loaded /\ loaded' = {}
       \/ UNCHANGED <<loaded, running>>
    /\ Goto(t, "waiting")
    /\ UNCHANGED <<session, owner, nextId, taskVars, pending, answer, bus,
                   executed, said, desktop>>

\* Mutant of Verdict: the script's boolean result is not looked at.
VerdictAlwaysOk(k, found) == "ok"

\* The oneshot resolved before the deadline: timeout() looks at it first.
Verdict(k, found) == IF k \in Targeted /\ found = {} THEN "not_found" ELSE "ok"

Receive(t) ==
    /\ At(t, "waiting")
    /\ \E m \in answer[t] : Goto(t, Verdict(kind[t], m.val))
    /\ UNCHANGED <<session, owner, nextId, taskVars, pending, answer, kwinVars,
                   bus, desktop>>

\* Mutant of TimeOut: the wait is unbounded.
TimeOutNever(t) == At(t, "waiting") /\ FALSE /\ UNCHANGED vars

\* Three seconds went by: the receiver is dropped, the waiter stays.
TimeOut(t) ==
    /\ At(t, "waiting")
    /\ answer[t] = {}
    /\ Goto(t, "timed_out")
    /\ UNCHANGED <<session, owner, nextId, taskVars, pending, answer, kwinVars,
                   bus, desktop>>

------------------------------------------------------------------------------
\* Mutant of Found: geometry is looked up for the focused window only.
FoundFocusedOnly(t) ==
    {w \in open :
        \/ kind[t] = "list"
        \/ kind[t] \in {"active", "geometry"} /\ w = active
        \/ kind[t] \in {"activate", "close"} /\ w = target[t]}

\* What the generated script of a call finds when KWin runs it.
Found(t) ==
    {w \in open :
        \/ kind[t] = "list"
        \/ kind[t] = "active" /\ w = active
        \/ kind[t] = "geometry" /\ w = target[t] /\ w \notin Unreadable
        \/ kind[t] \in {"activate", "close"} /\ w = target[t]}

\* Mutant of RunScript: the script is not unloaded and runs again.
RunScriptAgain(t) ==
    /\ t \in running
    /\ executed' = executed \cup {t}
    /\ said' = [said EXCEPT ![t] = Found(t)]
    /\ active' = IF kind[t] = "activate" /\ target[t] \in open
                 THEN target[t] ELSE active
    /\ bus' = IF owner = None THEN bus
              ELSE bus \cup {[dest |-> owner, map |-> MapOf(kind[t]),
                              id |-> req[t], val |-> Found(t), task |-> t]}
    /\ UNCHANGED <<session, owner, nextId, taskVars, pc, pending, answer,
                   loaded, running, open>>

\* KWin runs a script.  callDBus addresses the well-known name: the bus hands
\* the callback to whichever process owns the name now, to nobody if none does.
RunScript(t) ==
    /\ t \in running
    /\ running' = running \ {t}
    /\ executed' = executed \cup {t}
    /\ said' = [said EXCEPT ![t] = Found(t)]
    /\ active' = IF kind[t] = "activate" /\ target[t] \in open
                 THEN target[t] ELSE active
    /\ bus' = IF owner = None THEN bus
              ELSE bus \cup {[dest |-> owner, map |-> MapOf(kind[t]),
                              id |-> req[t], val |-> Found(t), task |-> t]}
    /\ UNCHANGED <<session, owner, nextId, taskVars, pc, pending, answer, loaded, open>>

\* The script throws, or KWin drops it: no callback.
ScriptDies(t) ==
    /\ t \in running
    /\ running' = running \ {t}
    /\ UNCHANGED <<session, owner, nextId, taskVars, pc, pending, answer, loaded,
                   bus, executed, said, desktop>>

\* The waiter a callback's request id names, in the map of its own method.
Matches(w, m) == w.proc = m.dest /\ w.map = m.map /\ w.id = m.id

\* report_windows, report_active, report_action, report_pointer and
\* report_geometry: remove the sender, send; a receiver that timed out or
\* failed has been dropped and the value goes nowhere.
Report(m) ==
    LET hit == {w \in pending : Matches(w, m)}
        heard == {w.task : w \in {v \in hit : pc[v.task] \in Waiting}}
    IN /\ bus' = bus \ {m}
       /\ pending' = pending \ hit
       /\ answer' = [t \in Tasks |-> IF t \in heard THEN answer[t] \cup {m}
                                     ELSE answer[t]]
       /\ UNCHANGED <<session, owner, nextId, taskVars, pc, kwinVars, desktop>>

\* The desktop lives on: windows close, focus moves.
Desktop ==
    /\ \/ \E w \in open : /\ open' = open \ {w}
                          /\ active' = IF active = w THEN None ELSE active
       \/ \E w \in open : active' = w /\ UNCHANGED open
    /\ UNCHANGED <<session, owner, nextId, taskVars, pc, pending, answer,
                   kwinVars, bus>>

------------------------------------------------------------------------------
Call(t) == Register(t) \/ LoadScript(t) \/ StartScripts(t) \/ Receive(t) \/ TimeOut(t)

Next ==
    \/ \E p \in Procs : TryNew(p) \/ Exit(p)
    \/ \E t \in Tasks, p \in Procs : Begin(t, p)
    \/ \E t \in Tasks : Call(t)
    \/ \E t \in Tasks : RunScript(t) \/ ScriptDies(t)
    \/ \E m \in bus : Report(m)
    \/ Desktop

\* The runtime polls a task that can go on, KWin answers loadScriptFromText
\* and start(), and the three-second timer fires.  Nothing obliges KWin to run
\* a script or the bus to deliver a callback.
Fairness == \A t \in Tasks : WF_vars(Call(t))

Spec == Init /\ [][Next]_vars /\ Fairness
------------------------------------------------------------------------------
TypeOK ==
    /\ session \in [Procs -> {"new", "up", "refused", "gone"}]
    /\ owner \in Procs \cup {None}
    /\ nextId \in [Procs -> Nat \ {0}]
    /\ proc \in [Tasks -> Procs \cup {None}]
    /\ kind \in [Tasks -> Kinds \cup {None}]
    /\ target \in [Tasks -> Windows \cup {None}]
    /\ req \in [Tasks -> Nat]
    /\ pc \in [Tasks -> {"idle"} \cup Waiting \cup Done]
    /\ pending \subseteq Waiters
    /\ answer \in [Tasks -> SUBSET Callbacks]
    /\ loaded \subseteq Tasks
    /\ running \subseteq Tasks
    /\ bus \subseteq Callbacks
    /\ executed \subseteq Tasks
    /\ said \in [Tasks -> SUBSET Windows]
    /\ open \subseteq Windows
    /\ active \in Windows \cup {None}

\* Every call still waiting in a live process has its sender parked or its
\* answer already sent: no insert of another call displaces it, no callback
\* meant for another takes it.  So the "KWin script aborted before callback"
\* errors of kde.rs cannot happen.
SenderHeld ==
    \A t \in Tasks :
        (pc[t] \in Waiting \ {"numbered"} /\ session[proc[t]] = "up")
            => answer[t] # {} \/ \E w \in pending : w.task = t

\* A oneshot carries at most one value, and the value was produced by a
\* script with the same request id, for the same map, as the call's own.
AnswerFitsRequest ==
    \A t \in Tasks : \A m \in answer[t] :
        /\ \A n \in answer[t] : n = m
        /\ m.id = req[t]
        /\ m.map = MapOf(kind[t])

\* An answer that is not from the call's own script is from a script left
\* behind by a process that has since ended: calls of live processes never
\* receive one another's answers, however they interleave.
AnswerOwnOrOrphaned ==
    \A t \in Tasks : \A m \in answer[t] :
        m.task = t \/ (proc[m.task] # proc[t] /\ session[proc[m.task]] = "gone")

\* "return the script's boolean result": an action that reports success has
\* had its own script find, and act on, its own target.
SuccessIsOwnResult ==
    \A t \in Tasks :
        pc[t] = "ok" /\ kind[t] \in {"activate", "close"}
            => t \in executed /\ target[t] \in said[t]

\* WindowNotFound from getwindowgeometry means no window with a frame that KWin
\* can report had the id when the answer came.
NotFoundMeansAbsent ==
    \A t \in Tasks :
        (kind[t] = "geometry" /\ pc[t] = "not_found") => target[t] \notin open \ Unreadable

\* Every call returns, whatever KWin does with its script, unless the process
\* ends first: the timeout covers a callback that never comes.
CallsReturn ==
    \A t \in Tasks : (pc[t] \in Waiting) ~> (pc[t] \in Done \/ Orphaned(t))

\* With one process, the bridge implements the promise of WindowService.
Phase(t) ==
    IF pc[t] \in {"timed_out", "failed"} \/ Orphaned(t) THEN "failed"
    ELSE IF pc[t] \in Waiting THEN "asked" ELSE pc[t]

Service == INSTANCE WindowService WITH phase <- [t \in Tasks |-> Phase(t)]

ImplementsWindowService == Service!Spec
==============================================================================
