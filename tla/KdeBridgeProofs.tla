--------------------------- MODULE KdeBridgeProofs ---------------------------
(***************************************************************************)
(* Safety of the KWin callback bridge, for every number of processes,      *)
(* calls and windows.  The argument: ids are unique among the calls of one *)
(* process; a callback on the bus carries the id and the map of the call   *)
(* whose script sent it and is addressed to that call's process unless     *)
(* that process has ended; so the waiter it finds is the call's own, or    *)
(* the call it answers is a stranger's that outlived its process.          *)
(***************************************************************************)
EXTENDS KdeBridge, TLAPS

Begun(t) == pc[t] # "idle"

\* The bus name is owned by the one process that is up.
Ownership == \A p \in Procs : session[p] = "up" <=> owner = p

\* A call that has begun has a process that was once up, a kind, and an id
\* below the next one.
BegunOK ==
    \A t \in Tasks : Begun(t) =>
        /\ proc[t] \in Procs
        /\ session[proc[t]] \in {"up", "gone"}
        /\ kind[t] \in Kinds
        /\ req[t] < nextId[proc[t]]

UniqueIds ==
    \A t, u \in Tasks :
        Begun(t) /\ Begun(u) /\ proc[t] = proc[u] /\ req[t] = req[u] => t = u

\* A parked sender is under its own call's key and has not been used.
WaitersOK ==
    \A w \in pending :
        /\ pc[w.task] \notin {"idle", "numbered", "ok", "not_found"}
        /\ w.proc = proc[w.task]
        /\ w.map = MapOf(kind[w.task])
        /\ w.id = req[w.task]
        /\ session[w.proc] = "up"
        /\ answer[w.task] = {}

ScriptsOK == \A t \in loaded \cup running : Begun(t)

\* A callback on the bus carries the key of the call that asked for it and
\* travels to its process, unless that process has ended.
CallbacksOK ==
    \A m \in bus :
        /\ Begun(m.task)
        /\ m.map = MapOf(kind[m.task])
        /\ m.id = req[m.task]
        /\ session[m.dest] = "up"
        /\ m.dest = proc[m.task] \/ session[proc[m.task]] = "gone"

AnswersOK ==
    \A t \in Tasks : \A m \in answer[t] :
        Begun(m.task) /\ pc[t] \notin {"idle", "numbered"}

IInv == /\ TypeOK
        /\ Ownership
        /\ BegunOK
        /\ UniqueIds
        /\ WaitersOK
        /\ ScriptsOK
        /\ CallbacksOK
        /\ AnswersOK
        /\ SenderHeld
        /\ AnswerFitsRequest
        /\ AnswerOwnOrOrphaned

USE DEF Begun, At, Goto, Waiting, Done, taskVars, kwinVars, desktop

LEMMA MapOfType == \A k \in Kinds : MapOf(k) \in Maps
  BY DEF Maps

LEMMA InitInv == Init => IInv
  BY KdeAssumption DEF Init, IInv, TypeOK, Ownership, BegunOK, UniqueIds, WaitersOK,
     ScriptsOK, CallbacksOK, AnswersOK, SenderHeld, AnswerFitsRequest,
     AnswerOwnOrOrphaned

LEMMA TypeStep == IInv /\ [Next]_vars => TypeOK'
  <1> SUFFICES ASSUME IInv, [Next]_vars PROVE TypeOK'
    OBVIOUS
  <1> USE KdeAssumption, MapOfType DEF IInv, TypeOK
  <1>1. ASSUME NEW p \in Procs, TryNew(p) PROVE TypeOK'
    BY <1>1 DEF TryNew
  <1>2. ASSUME NEW p \in Procs, Exit(p) PROVE TypeOK'
    BY <1>2 DEF Exit
  <1>3. ASSUME NEW t \in Tasks, NEW p \in Procs, Begin(t, p) PROVE TypeOK'
    BY <1>3 DEF Begin, NextRequestId
  <1>4. ASSUME NEW t \in Tasks, Register(t) PROVE TypeOK'
    BY <1>4 DEF Register, Insert, Waiters, BegunOK
  <1>5. ASSUME NEW t \in Tasks, LoadScript(t) PROVE TypeOK'
    BY <1>5 DEF LoadScript
  <1>6. ASSUME NEW t \in Tasks, StartScripts(t) PROVE TypeOK'
    BY <1>6 DEF StartScripts
  <1>7. ASSUME NEW t \in Tasks, Receive(t) PROVE TypeOK'
    BY <1>7 DEF Receive, Verdict
  <1>8. ASSUME NEW t \in Tasks, TimeOut(t) PROVE TypeOK'
    BY <1>8 DEF TimeOut
  <1>9. ASSUME NEW t \in Tasks, RunScript(t) PROVE TypeOK'
    BY <1>9 DEF RunScript, Found, Callbacks, ScriptsOK, BegunOK
  <1>10. ASSUME NEW t \in Tasks, ScriptDies(t) PROVE TypeOK'
    BY <1>10 DEF ScriptDies
  <1>11. ASSUME NEW m \in bus, Report(m) PROVE TypeOK'
    BY <1>11 DEF Report
  <1>12. CASE Desktop
    BY <1>12 DEF Desktop
  <1>13. CASE UNCHANGED vars
    BY <1>13 DEF vars
  <1> QED
    BY <1>1, <1>2, <1>3, <1>4, <1>5, <1>6, <1>7, <1>8, <1>9, <1>10, <1>11,
       <1>12, <1>13 DEF Next, Call

\* Only TryNew and Exit touch the name.
LEMMA OwnershipStep == IInv /\ [Next]_vars => Ownership'
  <1> SUFFICES ASSUME IInv, [Next]_vars PROVE Ownership'
    OBVIOUS
  <1> USE KdeAssumption DEF IInv, TypeOK, Ownership
  <1>1. ASSUME NEW p \in Procs, TryNew(p) PROVE Ownership'
    BY <1>1 DEF TryNew, Waiters, Callbacks
  <1>2. ASSUME NEW p \in Procs, Exit(p) PROVE Ownership'
    BY <1>2 DEF Exit
  <1>3. ASSUME NEW t \in Tasks, NEW p \in Procs, Begin(t, p) PROVE Ownership'
    BY <1>3 DEF Begin
  <1>4. ASSUME NEW t \in Tasks,
              Register(t) \/ LoadScript(t) \/ StartScripts(t) \/ Receive(t) \/ TimeOut(t) \/ RunScript(t) \/ ScriptDies(t)
       PROVE  Ownership'
    BY <1>4 DEF Register, LoadScript, StartScripts, Receive, TimeOut, RunScript, ScriptDies
  <1>5. ASSUME NEW m \in bus, Report(m) PROVE Ownership'
    BY <1>5 DEF Report
  <1>6. CASE Desktop \/ UNCHANGED vars
    BY <1>6 DEF Desktop, vars
  <1> QED
    BY <1>1, <1>2, <1>3, <1>4, <1>5, <1>6 DEF Next, Call

\* Begin draws an id below the next one; processes do not restart.
LEMMA BegunOKStep == IInv /\ [Next]_vars => BegunOK'
  <1> SUFFICES ASSUME IInv, [Next]_vars PROVE BegunOK'
    OBVIOUS
  <1> USE KdeAssumption DEF IInv, TypeOK, BegunOK
  <1>1. ASSUME NEW p \in Procs, TryNew(p) PROVE BegunOK'
    BY <1>1 DEF TryNew, Waiters, Callbacks, Ownership
  <1>2. ASSUME NEW p \in Procs, Exit(p) PROVE BegunOK'
    BY <1>2 DEF Exit, Ownership
  <1>3. ASSUME NEW t \in Tasks, NEW p \in Procs, Begin(t, p) PROVE BegunOK'
    BY <1>3 DEF Begin, NextRequestId, Ownership
  <1>4. ASSUME NEW t \in Tasks,
              Register(t) \/ LoadScript(t) \/ StartScripts(t) \/ Receive(t) \/ TimeOut(t) \/ RunScript(t) \/ ScriptDies(t)
       PROVE  BegunOK'
    BY <1>4 DEF Register, LoadScript, StartScripts, Receive, TimeOut, RunScript, ScriptDies
  <1>5. ASSUME NEW m \in bus, Report(m) PROVE BegunOK'
    BY <1>5 DEF Report
  <1>6. CASE Desktop \/ UNCHANGED vars
    BY <1>6 DEF Desktop, vars
  <1> QED
    BY <1>1, <1>2, <1>3, <1>4, <1>5, <1>6 DEF Next, Call

\* An id is drawn once: it is the next id, above every id in use.
LEMMA UniqueIdsStep == IInv /\ [Next]_vars => UniqueIds'
  <1> SUFFICES ASSUME IInv, [Next]_vars PROVE UniqueIds'
    OBVIOUS
  <1> USE KdeAssumption DEF IInv, TypeOK, UniqueIds
  <1>1. ASSUME NEW t \in Tasks, NEW p \in Procs, Begin(t, p) PROVE UniqueIds'
    BY <1>1 DEF Begin, NextRequestId, BegunOK
  <1>2. ASSUME NEW p \in Procs, TryNew(p) \/ Exit(p) PROVE UniqueIds'
    BY <1>2 DEF TryNew, Exit
  <1>3. ASSUME NEW t \in Tasks,
              Register(t) \/ LoadScript(t) \/ StartScripts(t) \/ Receive(t) \/ TimeOut(t) \/ RunScript(t) \/ ScriptDies(t)
       PROVE  UniqueIds'
    BY <1>3 DEF Register, LoadScript, StartScripts, Receive, TimeOut, RunScript, ScriptDies
  <1>4. ASSUME NEW m \in bus, Report(m) PROVE UniqueIds'
    BY <1>4 DEF Report
  <1>5. CASE Desktop \/ UNCHANGED vars
    BY <1>5 DEF Desktop, vars
  <1> QED
    BY <1>1, <1>2, <1>3, <1>4, <1>5 DEF Next, Call

\* Register parks the sender under the call's own key; whatever uses it
\* removes it.
LEMMA WaitersOKStep == IInv /\ [Next]_vars => WaitersOK'
  <1> SUFFICES ASSUME IInv, [Next]_vars PROVE WaitersOK'
    OBVIOUS
  <1> USE KdeAssumption DEF IInv, TypeOK, WaitersOK
  <1>1. ASSUME NEW p \in Procs, TryNew(p) PROVE WaitersOK'
    BY <1>1 DEF TryNew, Waiters, Callbacks, Ownership, BegunOK, UniqueIds, AnswersOK
  <1>2. ASSUME NEW p \in Procs, Exit(p) PROVE WaitersOK'
    BY <1>2 DEF Exit, Ownership, BegunOK, UniqueIds, AnswersOK
  <1>3. ASSUME NEW t \in Tasks, NEW p \in Procs, Begin(t, p) PROVE WaitersOK'
    BY <1>3 DEF Begin, NextRequestId, Ownership, BegunOK, UniqueIds, AnswersOK
  <1>4. ASSUME NEW t \in Tasks, Register(t) PROVE WaitersOK'
    BY <1>4 DEF Register, Insert, Waiters, Ownership, BegunOK, UniqueIds, AnswersOK
  <1>5. ASSUME NEW t \in Tasks, Receive(t) PROVE WaitersOK'
    BY <1>5 DEF Receive, Verdict, Ownership, BegunOK, UniqueIds, AnswersOK
  <1>6. ASSUME NEW m \in bus, Report(m) PROVE WaitersOK'
    BY <1>6 DEF Report, Matches, Callbacks, Waiters, Ownership, BegunOK, UniqueIds, AnswersOK
  <1>7. ASSUME NEW t \in Tasks,
              LoadScript(t) \/ StartScripts(t) \/ TimeOut(t) \/ RunScript(t) \/ ScriptDies(t)
       PROVE  WaitersOK'
    BY <1>7 DEF Waiters, Callbacks, LoadScript, StartScripts, TimeOut, RunScript, ScriptDies
  <1>8. CASE Desktop \/ UNCHANGED vars
    BY <1>8 DEF Desktop, vars
  <1> QED
    BY <1>1, <1>2, <1>3, <1>4, <1>5, <1>6, <1>7, <1>8 DEF Next, Call

\* Scripts are loaded by calls.
LEMMA ScriptsOKStep == IInv /\ [Next]_vars => ScriptsOK'
  <1> SUFFICES ASSUME IInv, [Next]_vars PROVE ScriptsOK'
    OBVIOUS
  <1> USE KdeAssumption DEF IInv, TypeOK, ScriptsOK
  <1>1. ASSUME NEW t \in Tasks, LoadScript(t) PROVE ScriptsOK'
    BY <1>1 DEF LoadScript, Callbacks
  <1>2. ASSUME NEW t \in Tasks, StartScripts(t) PROVE ScriptsOK'
    BY <1>2 DEF StartScripts
  <1>3. ASSUME NEW p \in Procs, TryNew(p) \/ Exit(p) PROVE ScriptsOK'
    BY <1>3 DEF TryNew, Exit
  <1>4. ASSUME NEW t \in Tasks, NEW p \in Procs, Begin(t, p) PROVE ScriptsOK'
    BY <1>4 DEF Begin
  <1>5. ASSUME NEW t \in Tasks,
              Register(t) \/ Receive(t) \/ TimeOut(t) \/ RunScript(t) \/ ScriptDies(t)
       PROVE  ScriptsOK'
    <2>1. CASE Register(t)
      BY <2>1 DEF Register
    <2>2. CASE Receive(t)
      BY <2>2 DEF Receive, Verdict
    <2>3. CASE TimeOut(t)
      BY <2>3 DEF TimeOut
    <2>4. CASE RunScript(t)
      BY <2>4 DEF RunScript
    <2>5. CASE ScriptDies(t)
      BY <2>5 DEF ScriptDies
    <2> QED
      BY <1>5, <2>1, <2>2, <2>3, <2>4, <2>5
  <1>6. ASSUME NEW m \in bus, Report(m) PROVE ScriptsOK'
    BY <1>6 DEF Report
  <1>7. CASE Desktop \/ UNCHANGED vars
    BY <1>7 DEF Desktop, vars
  <1> QED
    BY <1>1, <1>2, <1>3, <1>4, <1>5, <1>6, <1>7 DEF Next, Call

\* A callback is addressed to the owner of the name at the time.
LEMMA CallbacksOKStep == IInv /\ [Next]_vars => CallbacksOK'
  <1> SUFFICES ASSUME IInv, [Next]_vars PROVE CallbacksOK'
    OBVIOUS
  <1> USE KdeAssumption DEF IInv, TypeOK, CallbacksOK
  <1>1. ASSUME NEW p \in Procs, TryNew(p) PROVE CallbacksOK'
    BY <1>1 DEF TryNew, Waiters, Callbacks, Ownership, BegunOK, ScriptsOK
  <1>2. ASSUME NEW p \in Procs, Exit(p) PROVE CallbacksOK'
    BY <1>2 DEF Exit, Ownership, BegunOK, ScriptsOK
  <1>3. ASSUME NEW t \in Tasks, NEW p \in Procs, Begin(t, p) PROVE CallbacksOK'
    BY <1>3 DEF Begin, NextRequestId, Ownership, BegunOK, ScriptsOK
  <1>4. ASSUME NEW t \in Tasks, LoadScript(t) PROVE CallbacksOK'
    BY <1>4 DEF LoadScript, Callbacks, Ownership, BegunOK, ScriptsOK
  <1>5. ASSUME NEW t \in Tasks, RunScript(t) PROVE CallbacksOK'
    BY <1>5 DEF RunScript, Callbacks, Ownership, BegunOK, ScriptsOK
  <1>6. ASSUME NEW m \in bus, Report(m) PROVE CallbacksOK'
    BY <1>6 DEF Report, Matches, Callbacks, Waiters, Ownership, BegunOK, ScriptsOK
  <1>7. ASSUME NEW t \in Tasks,
              Register(t) \/ StartScripts(t) \/ Receive(t) \/ TimeOut(t) \/ ScriptDies(t)
       PROVE  CallbacksOK'
    <2>1. CASE Register(t)
      BY <2>1 DEF Register, Callbacks
    <2>2. CASE StartScripts(t)
      BY <2>2 DEF StartScripts, Callbacks
    <2>3. CASE Receive(t)
      BY <2>3 DEF Receive, Verdict, Callbacks
    <2>4. CASE TimeOut(t)
      BY <2>4 DEF TimeOut, Callbacks
    <2>5. CASE ScriptDies(t)
      BY <2>5 DEF ScriptDies, Callbacks
    <2> QED
      BY <1>7, <2>1, <2>2, <2>3, <2>4, <2>5
  <1>8. CASE Desktop \/ UNCHANGED vars
    BY <1>8 DEF Desktop, vars
  <1> QED
    BY <1>1, <1>2, <1>3, <1>4, <1>5, <1>6, <1>7, <1>8 DEF Next, Call

\* Answers reach calls that have registered.
LEMMA AnswersOKStep == IInv /\ [Next]_vars => AnswersOK'
  <1> SUFFICES ASSUME IInv, [Next]_vars PROVE AnswersOK'
    OBVIOUS
  <1> USE KdeAssumption DEF IInv, TypeOK, AnswersOK
  <1>1. ASSUME NEW t \in Tasks, NEW p \in Procs, Begin(t, p) PROVE AnswersOK'
    BY <1>1 DEF Begin, NextRequestId, WaitersOK, CallbacksOK, BegunOK
  <1>2. ASSUME NEW t \in Tasks, Register(t) PROVE AnswersOK'
    BY <1>2 DEF Register, Insert, Waiters, WaitersOK, CallbacksOK, BegunOK
  <1>3. ASSUME NEW t \in Tasks, LoadScript(t) PROVE AnswersOK'
    BY <1>3 DEF LoadScript, Callbacks, WaitersOK, CallbacksOK, BegunOK
  <1>4. ASSUME NEW m \in bus, Report(m) PROVE AnswersOK'
    BY <1>4 DEF Report, Matches, Callbacks, Waiters, WaitersOK, CallbacksOK, BegunOK
  <1>5. ASSUME NEW p \in Procs, TryNew(p) \/ Exit(p) PROVE AnswersOK'
    BY <1>5 DEF TryNew, Exit
  <1>6. ASSUME NEW t \in Tasks,
              StartScripts(t) \/ Receive(t) \/ TimeOut(t) \/ RunScript(t) \/ ScriptDies(t)
       PROVE  AnswersOK'
    <2>1. CASE StartScripts(t)
      BY <2>1 DEF StartScripts, Callbacks
    <2>2. CASE Receive(t)
      BY <2>2 DEF Receive, Verdict, Callbacks
    <2>3. CASE TimeOut(t)
      BY <2>3 DEF TimeOut, Callbacks
    <2>4. CASE RunScript(t)
      BY <2>4 DEF RunScript, Callbacks
    <2>5. CASE ScriptDies(t)
      BY <2>5 DEF ScriptDies, Callbacks
    <2> QED
      BY <1>6, <2>1, <2>2, <2>3, <2>4, <2>5
  <1>7. CASE Desktop \/ UNCHANGED vars
    BY <1>7 DEF Desktop, vars
  <1> QED
    BY <1>1, <1>2, <1>3, <1>4, <1>5, <1>6, <1>7 DEF Next, Call

\* Only the answer to a call removes its sender: keys are unique.
LEMMA SenderHeldStep == IInv /\ [Next]_vars => SenderHeld'
  <1> SUFFICES ASSUME IInv, [Next]_vars PROVE SenderHeld'
    OBVIOUS
  <1> USE KdeAssumption DEF IInv, TypeOK, SenderHeld
  <1>1. ASSUME NEW p \in Procs, TryNew(p) PROVE SenderHeld'
    BY <1>1 DEF TryNew, Waiters, Callbacks, UniqueIds, WaitersOK, AnswersOK, BegunOK
  <1>2. ASSUME NEW p \in Procs, Exit(p) PROVE SenderHeld'
    BY <1>2 DEF Exit, UniqueIds, WaitersOK, AnswersOK, BegunOK
  <1>3. ASSUME NEW t \in Tasks, NEW p \in Procs, Begin(t, p) PROVE SenderHeld'
    BY <1>3 DEF Begin, NextRequestId, UniqueIds, WaitersOK, AnswersOK, BegunOK
  <1>4. ASSUME NEW t \in Tasks, Register(t) PROVE SenderHeld'
    <2> DEFINE mine == [proc |-> proc[t], map |-> MapOf(kind[t]), id |-> req[t], task |-> t]
    <2>1. mine \in pending' /\ mine.task = t
      BY <1>4 DEF Register, Insert
    <2>2. \A w \in pending : w.task # t => w \in pending'
      BY <1>4 DEF Register, Insert, Waiters, UniqueIds, WaitersOK
    <2> QED
      BY <1>4, <2>1, <2>2 DEF Register
  <1>5. ASSUME NEW t \in Tasks, Receive(t) PROVE SenderHeld'
    BY <1>5 DEF Receive, Verdict, UniqueIds, WaitersOK, AnswersOK, BegunOK
  <1>6. ASSUME NEW m \in bus, Report(m) PROVE SenderHeld'
    BY <1>6 DEF Report, Matches, Callbacks, Waiters, UniqueIds, WaitersOK, AnswersOK, BegunOK
  <1>7. ASSUME NEW t \in Tasks,
              LoadScript(t) \/ StartScripts(t) \/ TimeOut(t) \/ RunScript(t) \/ ScriptDies(t)
       PROVE  SenderHeld'
    BY <1>7 DEF LoadScript, StartScripts, TimeOut, RunScript, ScriptDies
  <1>8. CASE Desktop \/ UNCHANGED vars
    BY <1>8 DEF Desktop, vars
  <1> QED
    BY <1>1, <1>2, <1>3, <1>4, <1>5, <1>6, <1>7, <1>8 DEF Next, Call

\* The waiter a callback finds has the callback's key.
LEMMA AnswerFitsRequestStep == IInv /\ [Next]_vars => AnswerFitsRequest'
  <1> SUFFICES ASSUME IInv, [Next]_vars PROVE AnswerFitsRequest'
    OBVIOUS
  <1> USE KdeAssumption DEF IInv, TypeOK, AnswerFitsRequest
  <1>1. ASSUME NEW t \in Tasks, NEW p \in Procs, Begin(t, p) PROVE AnswerFitsRequest'
    BY <1>1 DEF Begin, NextRequestId, WaitersOK, CallbacksOK, AnswersOK
  <1>2. ASSUME NEW m \in bus, Report(m) PROVE AnswerFitsRequest'
    BY <1>2 DEF Report, Matches, Callbacks, Waiters, WaitersOK, CallbacksOK, AnswersOK
  <1>3. ASSUME NEW p \in Procs, TryNew(p) \/ Exit(p) PROVE AnswerFitsRequest'
    BY <1>3 DEF TryNew, Exit
  <1>4. ASSUME NEW t \in Tasks,
              Register(t) \/ LoadScript(t) \/ StartScripts(t) \/ Receive(t) \/ TimeOut(t) \/ RunScript(t) \/ ScriptDies(t)
       PROVE  AnswerFitsRequest'
    BY <1>4 DEF Register, LoadScript, StartScripts, Receive, TimeOut, RunScript, ScriptDies
  <1>5. CASE Desktop \/ UNCHANGED vars
    BY <1>5 DEF Desktop, vars
  <1> QED
    BY <1>1, <1>2, <1>3, <1>4, <1>5 DEF Next, Call

\* The call a callback answers is its own, or it is a stranger's.
LEMMA AnswerOwnOrOrphanedStep == IInv /\ [Next]_vars => AnswerOwnOrOrphaned'
  <1> SUFFICES ASSUME IInv, [Next]_vars PROVE AnswerOwnOrOrphaned'
    OBVIOUS
  <1> USE KdeAssumption DEF IInv, TypeOK, AnswerOwnOrOrphaned
  <1>1. ASSUME NEW p \in Procs, TryNew(p) PROVE AnswerOwnOrOrphaned'
    BY <1>1 DEF TryNew, Waiters, Callbacks, WaitersOK, CallbacksOK, AnswersOK, UniqueIds, BegunOK
  <1>2. ASSUME NEW p \in Procs, Exit(p) PROVE AnswerOwnOrOrphaned'
    BY <1>2 DEF Exit, WaitersOK, CallbacksOK, AnswersOK, UniqueIds, BegunOK
  <1>3. ASSUME NEW t \in Tasks, NEW p \in Procs, Begin(t, p) PROVE AnswerOwnOrOrphaned'
    BY <1>3 DEF Begin, NextRequestId, WaitersOK, CallbacksOK, AnswersOK, UniqueIds, BegunOK
  <1>4. ASSUME NEW m \in bus, Report(m) PROVE AnswerOwnOrOrphaned'
    BY <1>4 DEF Report, Matches, Callbacks, Waiters, WaitersOK, CallbacksOK, AnswersOK, UniqueIds, BegunOK
  <1>5. ASSUME NEW t \in Tasks,
              Register(t) \/ LoadScript(t) \/ StartScripts(t) \/ Receive(t) \/ TimeOut(t) \/ RunScript(t) \/ ScriptDies(t)
       PROVE  AnswerOwnOrOrphaned'
    BY <1>5 DEF Register, LoadScript, StartScripts, Receive, TimeOut, RunScript, ScriptDies
  <1>6. CASE Desktop \/ UNCHANGED vars
    BY <1>6 DEF Desktop, vars
  <1> QED
    BY <1>1, <1>2, <1>3, <1>4, <1>5, <1>6 DEF Next, Call

\* The invariant is inductive, hence holds of every behaviour.
LEMMA Invariance == Spec => []IInv
  <1>1. IInv /\ [Next]_vars => IInv'
    BY TypeStep, OwnershipStep, BegunOKStep, UniqueIdsStep, WaitersOKStep,
       ScriptsOKStep, CallbacksOKStep, AnswersOKStep, SenderHeldStep,
       AnswerFitsRequestStep, AnswerOwnOrOrphanedStep DEF IInv
  <1> QED
    BY InitInv, <1>1, PTL DEF Spec

------------------------------------------------------------------------------
\* The variables keep their types.
THEOREM TypeCorrect == Spec => []TypeOK
  BY Invariance, PTL DEF IInv

\* The "aborted before callback" arms of kde.rs are dead code: a waiting call
\* keeps its sender until its answer has been sent.
THEOREM WaitingCallsKeepTheirSender == Spec => []SenderHeld
  BY Invariance, PTL DEF IInv

\* A oneshot carries at most one value, of the map and id it was asked under.
THEOREM AnswersFit == Spec => []AnswerFitsRequest
  BY Invariance, PTL DEF IInv

\* Calls of live processes never receive each other's answers.
THEOREM AnswersOwnOrOrphaned == Spec => []AnswerOwnOrOrphaned
  BY Invariance, PTL DEF IInv
------------------------------------------------------------------------------
(***************************************************************************)
(* One process.  Every answer is then a call's own, and the bridge does    *)
(* what WindowService promises.  Two more facts are needed: a script runs  *)
(* at most once, and callbacks and answers repeat what their script said.  *)
(***************************************************************************)
OneProcess == \A p, q \in Procs : p = q

ScriptOnce ==
    \A t \in Tasks :
        /\ t \in loaded => t \notin running \cup executed
        /\ t \in running => t \notin executed
        /\ t \in loaded \cup running \cup executed
              => pc[t] \notin {"idle", "numbered", "registered"}

SaysWhatItSaw ==
    /\ \A m \in bus : m.task \in executed /\ m.val = said[m.task]
    /\ \A t \in Tasks : \A m \in answer[t] :
          m.task \in executed /\ m.val = said[m.task]
    /\ \A t \in executed : kind[t] \in {"activate", "close"} => said[t] \subseteq {target[t]}

\* What a returned call has behind it.
Earned ==
    \A t \in Tasks :
        pc[t] \in {"ok", "not_found"} =>
            t \in executed /\ pc[t] = Verdict(kind[t], said[t])

Inv1 == ScriptOnce /\ SaysWhatItSaw /\ Earned

LEMMA Inv1Init == Init => Inv1
  BY DEF Init, Inv1, ScriptOnce, SaysWhatItSaw, Earned

LEMMA ScriptOnceStep == IInv /\ ScriptOnce /\ [Next]_vars => ScriptOnce'
  <1> SUFFICES ASSUME IInv, ScriptOnce, [Next]_vars PROVE ScriptOnce'
    OBVIOUS
  <1> USE DEF IInv, TypeOK, ScriptOnce
  <1>1. ASSUME NEW p \in Procs, TryNew(p) \/ Exit(p) PROVE ScriptOnce'
    BY <1>1 DEF TryNew, Exit
  <1>2. ASSUME NEW t \in Tasks, NEW p \in Procs, Begin(t, p) PROVE ScriptOnce'
    BY <1>2 DEF Begin
  <1>3. ASSUME NEW t \in Tasks, LoadScript(t) PROVE ScriptOnce'
    BY <1>3 DEF LoadScript
  <1>4. ASSUME NEW t \in Tasks, StartScripts(t) PROVE ScriptOnce'
    BY <1>4 DEF StartScripts
  <1>5. ASSUME NEW t \in Tasks, Register(t) \/ Receive(t) \/ TimeOut(t) PROVE ScriptOnce'
    <2>1. CASE Register(t)
      BY <2>1 DEF Register
    <2>2. CASE Receive(t)
      BY <2>2 DEF Receive, Verdict
    <2>3. CASE TimeOut(t)
      BY <2>3 DEF TimeOut
    <2> QED
      BY <1>5, <2>1, <2>2, <2>3
  <1>6. ASSUME NEW t \in Tasks, RunScript(t) \/ ScriptDies(t) PROVE ScriptOnce'
    BY <1>6 DEF RunScript, ScriptDies
  <1>7. ASSUME NEW m \in bus, Report(m) PROVE ScriptOnce'
    BY <1>7 DEF Report
  <1>8. CASE Desktop \/ UNCHANGED vars
    BY <1>8 DEF Desktop, vars
  <1> QED
    BY <1>1, <1>2, <1>3, <1>4, <1>5, <1>6, <1>7, <1>8 DEF Next, Call

LEMMA SaysWhatItSawStep ==
    IInv /\ ScriptOnce /\ SaysWhatItSaw /\ [Next]_vars => SaysWhatItSaw'
  <1> SUFFICES ASSUME IInv, ScriptOnce, SaysWhatItSaw, [Next]_vars PROVE SaysWhatItSaw'
    OBVIOUS
  <1> USE DEF IInv, TypeOK, SaysWhatItSaw, Callbacks
  <1>1. ASSUME NEW p \in Procs, TryNew(p) \/ Exit(p) PROVE SaysWhatItSaw'
    BY <1>1 DEF TryNew, Exit
  <1>2. ASSUME NEW t \in Tasks, NEW p \in Procs, Begin(t, p) PROVE SaysWhatItSaw'
    BY <1>2 DEF Begin, ScriptOnce
  <1>3. ASSUME NEW t \in Tasks, Register(t) PROVE SaysWhatItSaw'
    BY <1>3 DEF Register
  <1>4. ASSUME NEW t \in Tasks, LoadScript(t) PROVE SaysWhatItSaw'
    BY <1>4 DEF LoadScript
  <1>5. ASSUME NEW t \in Tasks,
               StartScripts(t) \/ Receive(t) \/ TimeOut(t) \/ ScriptDies(t)
        PROVE  SaysWhatItSaw'
    BY <1>5 DEF StartScripts, Receive, TimeOut, ScriptDies
  <1>6. ASSUME NEW t \in Tasks, RunScript(t) PROVE SaysWhatItSaw'
    <2>1. t \notin executed /\ executed' = executed \cup {t}
      BY <1>6 DEF RunScript, ScriptOnce
    <2>2. said'[t] = Found(t) /\ \A u \in Tasks \ {t} : said'[u] = said[u]
      BY <1>6 DEF RunScript
    <2>3. \A m \in bus' : m \in bus \/ (m.task = t /\ m.val = Found(t))
      BY <1>6 DEF RunScript
    <2>4. kind[t] \in {"activate", "close"} => Found(t) \subseteq {target[t]}
      BY DEF Found
    <2> QED
      BY <1>6, <2>1, <2>2, <2>3, <2>4 DEF RunScript
  <1>7. ASSUME NEW m \in bus, Report(m) PROVE SaysWhatItSaw'
    BY <1>7 DEF Report
  <1>8. CASE Desktop \/ UNCHANGED vars
    BY <1>8 DEF Desktop, vars
  <1> QED
    BY <1>1, <1>2, <1>3, <1>4, <1>5, <1>6, <1>7, <1>8 DEF Next, Call

\* With one process no answer is a stranger's.
LEMMA OwnAnswer ==
    ASSUME OneProcess, IInv, NEW t \in Tasks, NEW m \in answer[t]
    PROVE  m.task = t
  BY DEF OneProcess, IInv, TypeOK, Callbacks, AnswersOK, BegunOK, AnswerOwnOrOrphaned

LEMMA EarnedStep ==
    ASSUME OneProcess
    PROVE  IInv /\ Inv1 /\ [Next]_vars => Earned'
  <1> SUFFICES ASSUME IInv, Inv1, [Next]_vars PROVE Earned'
    OBVIOUS
  <1> USE DEF IInv, TypeOK, Inv1, Earned, Verdict
  <1>1. ASSUME NEW p \in Procs, TryNew(p) \/ Exit(p) PROVE Earned'
    BY <1>1 DEF TryNew, Exit
  <1>2. ASSUME NEW t \in Tasks, NEW p \in Procs, Begin(t, p) PROVE Earned'
    BY <1>2 DEF Begin
  <1>3. ASSUME NEW t \in Tasks, Receive(t) PROVE Earned'
    <2>1. PICK m \in answer[t] : Goto(t, Verdict(kind[t], m.val))
      BY <1>3 DEF Receive
    <2>2. m.task = t
      BY OwnAnswer
    <2>3. t \in executed /\ m.val = said[t]
      BY <2>2 DEF SaysWhatItSaw
    <2> QED
      BY <1>3, <2>1, <2>3 DEF Receive
  <1>4. ASSUME NEW t \in Tasks,
               Register(t) \/ LoadScript(t) \/ StartScripts(t) \/ TimeOut(t) \/ ScriptDies(t)
        PROVE  Earned'
    BY <1>4 DEF Register, LoadScript, StartScripts, TimeOut, ScriptDies
  <1>5. ASSUME NEW t \in Tasks, RunScript(t) PROVE Earned'
    BY <1>5 DEF RunScript, ScriptOnce
  <1>6. ASSUME NEW m \in bus, Report(m) PROVE Earned'
    BY <1>6 DEF Report
  <1>7. CASE Desktop \/ UNCHANGED vars
    BY <1>7 DEF Desktop, vars
  <1> QED
    BY <1>1, <1>2, <1>3, <1>4, <1>5, <1>6, <1>7 DEF Next, Call

LEMMA Invariance1 ==
    ASSUME OneProcess
    PROVE  Spec => []Inv1
  <1>1. IInv /\ Inv1 /\ [Next]_vars => Inv1'
    BY ScriptOnceStep, SaysWhatItSawStep, EarnedStep DEF Inv1
  <1> QED
    BY Inv1Init, <1>1, Invariance, PTL DEF Spec

\* In a single process an action that reports success was carried out, on the
\* window it names, by the call's own script.
THEOREM SuccessIsOwn ==
    ASSUME OneProcess
    PROVE  Spec => []SuccessIsOwnResult
  <1>1. Inv1 /\ IInv => SuccessIsOwnResult
    BY DEF Inv1, Earned, SaysWhatItSaw, SuccessIsOwnResult, Verdict, Targeted, IInv, TypeOK
  <1> QED
    BY <1>1, Invariance, Invariance1, PTL

\* What a geometry script missed when it ran is missing for good: no window
\* opens under an id that was used.
MissedIsGone ==
    \A t \in executed :
        kind[t] = "geometry" /\ said[t] = {} => target[t] \notin open \ Unreadable

LEMMA MissedIsGoneStep ==
    IInv /\ ScriptOnce /\ MissedIsGone /\ [Next]_vars => MissedIsGone'
  <1> SUFFICES ASSUME IInv, ScriptOnce, MissedIsGone, [Next]_vars PROVE MissedIsGone'
    OBVIOUS
  <1> USE DEF IInv, TypeOK, MissedIsGone
  <1>1. ASSUME NEW p \in Procs, TryNew(p) \/ Exit(p) PROVE MissedIsGone'
    BY <1>1 DEF TryNew, Exit
  <1>2. ASSUME NEW t \in Tasks, NEW p \in Procs, Begin(t, p) PROVE MissedIsGone'
    BY <1>2 DEF Begin, ScriptOnce
  <1>3. ASSUME NEW t \in Tasks,
               \/ Register(t) \/ LoadScript(t) \/ StartScripts(t) \/ Receive(t)
               \/ TimeOut(t) \/ ScriptDies(t)
        PROVE  MissedIsGone'
    BY <1>3 DEF Register, LoadScript, StartScripts, Receive, TimeOut, ScriptDies
  <1>4. ASSUME NEW t \in Tasks, RunScript(t) PROVE MissedIsGone'
    <2>1. said'[t] = Found(t) /\ \A u \in Tasks \ {t} : said'[u] = said[u]
      BY <1>4 DEF RunScript
    <2>2. kind[t] = "geometry" /\ Found(t) = {} => target[t] \notin open \ Unreadable
      BY DEF Found
    <2> QED
      BY <1>4, <2>1, <2>2 DEF RunScript
  <1>5. ASSUME NEW m \in bus, Report(m) PROVE MissedIsGone'
    BY <1>5 DEF Report
  <1>6. CASE Desktop \/ UNCHANGED vars
    BY <1>6 DEF Desktop, vars
  <1> QED
    BY <1>1, <1>2, <1>3, <1>4, <1>5, <1>6 DEF Next, Call

\* In a single process getwindowgeometry says WindowNotFound only when there is
\* no such window with a frame: the answer it goes by is its own script's.
THEOREM NotFoundIsAbsent ==
    ASSUME OneProcess
    PROVE  Spec => []NotFoundMeansAbsent
  <1>1. Init => MissedIsGone
    BY DEF Init, MissedIsGone
  <1>2. IInv /\ Inv1 /\ MissedIsGone /\ [Next]_vars => MissedIsGone'
    BY MissedIsGoneStep DEF Inv1
  <1>3. IInv /\ Inv1 /\ MissedIsGone => NotFoundMeansAbsent
    BY DEF IInv, TypeOK, Inv1, Earned, MissedIsGone, NotFoundMeansAbsent, Verdict
  <1> QED
    BY <1>1, <1>2, <1>3, Invariance, Invariance1, PTL DEF Spec

LEMMA RefinementInit == Init => Service!Init
  BY DEF Init, Service!Init, Phase, Orphaned

LEMMA RefinementStep ==
    ASSUME OneProcess
    PROVE  IInv /\ IInv' /\ Inv1 /\ [Next]_vars => [Service!Next]_(Service!vars)
  <1> SUFFICES ASSUME IInv, IInv', Inv1, [Next]_vars
               PROVE  Service!Next \/ UNCHANGED Service!vars
    OBVIOUS
  <1> DEFINE Same(S) == \A u \in S : Phase(u)' = Phase(u)
  <1> USE DEF IInv, TypeOK, Phase, Orphaned, BegunOK
  <1>1. ASSUME NEW p \in Procs, TryNew(p) PROVE UNCHANGED Service!vars
    <2>1. Same(Tasks)
      BY <1>1 DEF TryNew
    <2> QED
      BY <1>1, <2>1 DEF TryNew, Service!vars
  <1>2. ASSUME NEW p \in Procs, Exit(p) PROVE Service!Next
    <2> PICK failing \in SUBSET Tasks :
           \A t \in Tasks : t \in failing <=> pc[t] \in Waiting /\ proc[t] = p
      <3> WITNESS {t \in Tasks : pc[t] \in Waiting /\ proc[t] = p} \in SUBSET Tasks
      <3> QED
        OBVIOUS
    <2>1. \A t \in failing : Phase(t) = "asked" /\ Phase(t)' = "failed"
      BY <1>2 DEF Exit
    <2>2. Same(Tasks \ failing)
      BY <1>2 DEF Exit
    <2>3. Service!Fail(failing)
      BY <1>2, <2>1, <2>2 DEF Exit, Service!Fail
    <2> QED
      BY <2>3 DEF Service!Next
  <1>3. ASSUME NEW t \in Tasks, NEW p \in Procs, Begin(t, p) PROVE Service!Next
    <2>1. Phase(t) = "idle" /\ Phase(t)' = "asked" /\ Same(Tasks \ {t})
      BY <1>3 DEF Begin
    <2>2. [u \in Tasks |-> Phase(u)]' = [[u \in Tasks |-> Phase(u)] EXCEPT ![t] = "asked"]
      BY <2>1
    <2>3. UNCHANGED <<executed, said, open, active>>
      BY <1>3 DEF Begin
    <2>4. PICK k \in KindsUsed, w \in Windows :
             /\ kind' = [kind EXCEPT ![t] = k]
             /\ target' = [target EXCEPT ![t] = IF k \in Targeted THEN w ELSE None]
      BY <1>3 DEF Begin
    <2>5. Service!Ask(t)
      BY <2>1, <2>2, <2>3, <2>4 DEF Service!Ask, Service!Targeted, Targeted
    <2> QED
      BY <2>5 DEF Service!Next
  <1>4. ASSUME NEW t \in Tasks, Register(t) \/ StartScripts(t) PROVE UNCHANGED Service!vars
    <2>1. Same(Tasks)
      BY <1>4 DEF Register, StartScripts
    <2> QED
      BY <1>4, <2>1 DEF Register, StartScripts, Service!vars
  <1>5. ASSUME NEW t \in Tasks, LoadScript(t) PROVE Service!Next \/ UNCHANGED Service!vars
    <2>1. Phase(t) = "asked" /\ Same(Tasks \ {t})
      BY <1>5 DEF LoadScript
    <2>2. CASE Phase(t)' = "asked"
      BY <1>5, <2>1, <2>2 DEF LoadScript, Service!vars
    <2>3. CASE Phase(t)' = "failed"
      <3>1. Service!Fail({t})
        BY <1>5, <2>1, <2>3 DEF LoadScript, Service!Fail
      <3> QED
        BY <3>1 DEF Service!Next
    <2> QED
      BY <1>5, <2>2, <2>3 DEF LoadScript
  <1>6. ASSUME NEW t \in Tasks, Receive(t) PROVE Service!Next
    <2>1. PICK m \in answer[t] : Goto(t, Verdict(kind[t], m.val))
      BY <1>6 DEF Receive
    <2>2. m.task = t
      BY OwnAnswer
    <2>3. t \in executed /\ m.val = said[t]
      BY <2>2 DEF Inv1, SaysWhatItSaw
    <2>4. Phase(t) = "asked" /\ Same(Tasks \ {t})
      BY <1>6 DEF Receive
    <2>5. Phase(t)' = Verdict(kind[t], said[t])
      BY <1>6, <2>1, <2>3 DEF Receive, Verdict
    <2>6. Service!Return(t)
      <3>1. UNCHANGED <<kind, target, executed, said, open, active>>
        BY <1>6 DEF Receive
      <3>2. Service!Verdict(kind[t], said[t]) = Verdict(kind[t], said[t])
        BY DEF Service!Verdict, Verdict, Service!Targeted, Targeted
      <3>3. Phase(t)' = Service!Verdict(kind[t], said[t])
        BY <2>5, <3>2
      <3>4. [u \in Tasks |-> Phase(u)']
              = [[u \in Tasks |-> Phase(u)] EXCEPT ![t] = Service!Verdict(kind[t], said[t])]
        <4> HIDE DEF Phase
        <4> QED BY <2>4, <3>3
      <3> QED BY <2>3, <2>4, <3>1, <3>4 DEF Service!Return
    <2> QED
      BY <2>6 DEF Service!Next
  <1>7. ASSUME NEW t \in Tasks, TimeOut(t) PROVE Service!Next
    <2>1. Phase(t) = "asked" /\ Phase(t)' = "failed" /\ Same(Tasks \ {t})
      BY <1>7 DEF TimeOut
    <2>2. Service!Fail({t})
      BY <1>7, <2>1 DEF TimeOut, Service!Fail
    <2> QED
      BY <2>2 DEF Service!Next
  <1>8. ASSUME NEW t \in Tasks, RunScript(t) PROVE Service!Next
    <2>1. t \notin executed /\ Phase(t) \in {"asked", "failed"}
      BY <1>8 DEF RunScript, Inv1, ScriptOnce, Earned
    <2>2. Same(Tasks)
      BY <1>8 DEF RunScript
    <2>3. Found(t) = Service!Seen(kind[t], target[t])
      BY DEF Found, Service!Seen
    <2>4. Service!Execute(t)
      BY <1>8, <2>1, <2>2, <2>3 DEF RunScript, Service!Execute
    <2> QED
      BY <1>8, <2>4 DEF Service!Next
  <1>9. ASSUME NEW t \in Tasks, ScriptDies(t) PROVE UNCHANGED Service!vars
    <2>1. Same(Tasks)
      BY <1>9 DEF ScriptDies
    <2> QED
      BY <1>9, <2>1 DEF ScriptDies, Service!vars
  <1>10. ASSUME NEW m \in bus, Report(m) PROVE UNCHANGED Service!vars
    <2>1. Same(Tasks)
      BY <1>10 DEF Report
    <2> QED
      BY <1>10, <2>1 DEF Report, Service!vars
  <1>11. CASE Desktop
    <2>1. Same(Tasks)
      BY <1>11 DEF Desktop
    <2>2. Service!Desktop
      BY <1>11, <2>1 DEF Desktop, Service!Desktop
    <2> QED
      BY <2>2 DEF Service!Next
  <1>12. CASE UNCHANGED vars
    <2>1. Same(Tasks)
      BY <1>12 DEF vars
    <2> QED
      BY <1>12, <2>1 DEF vars, Service!vars
  <1> HIDE DEF Same
  <1> QED
    BY <1>1, <1>2, <1>3, <1>4, <1>5, <1>6, <1>7, <1>8, <1>9, <1>10, <1>11,
       <1>12 DEF Next, Call

\* Within one process the bridge keeps the promise of the Backend trait's
\* window calls: executed at most once, never before being asked, and a call
\* that returns reports what its own execution saw.
THEOREM BridgeImplementsService ==
    ASSUME OneProcess
    PROVE  Spec => ImplementsWindowService
  BY RefinementInit, RefinementStep, Invariance, Invariance1, PTL
     DEF Spec, ImplementsWindowService, Service!Spec
==============================================================================
