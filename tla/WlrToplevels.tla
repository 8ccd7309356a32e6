----------------------------- MODULE WlrToplevels -----------------------------
(***************************************************************************)
(* Window calls of the wlroots backend (backend/wlr_protocols.rs).  Async  *)
(* callers put commands on the queue of one worker thread and wait for the *)
(* reply; the worker roundtrips, dispatches what the compositor has sent   *)
(* into its mirror of the toplevels, and answers from the mirror.  The     *)
(* compositor numbers toplevel handles per connection and reuses the       *)
(* number of a handle its client destroyed.                                *)
(***************************************************************************)
EXTENDS Naturals, Sequences, SequencesExt

CONSTANTS Tasks,      \* window calls, each made once
          Windows,    \* windows that exist at some time
          Existing,   \* those that exist at the start, in the order of their age
          MaxHandles, \* handle numbers are 1..MaxHandles
          KindsUsed,  \* the kinds of call made
          Retitles,   \* does a window change its title?
          Loses,      \* may the connection break?
          Renews,     \* may the process end and another take its place?
          MaxChanges, \* bound on what happens on the desktop and to the connection
          None        \* no window, no task

ASSUME WlrAssumption ==
    /\ Existing \in Seq(Windows) /\ IsInjective(Existing) /\ Len(Existing) <= MaxHandles
    /\ KindsUsed \subseteq {"list", "active", "activate", "close"}
    /\ MaxHandles \in Nat \ {0} /\ MaxChanges \in Nat
    /\ None \notin Windows \cup Tasks /\ Tasks \cap {"shutdown", "exited"} = {}

VARIABLES
    stack,     \* compositor: the open windows, oldest first
    active,    \* compositor: the focused window, or None
    handle,    \* compositor: the window each live handle number stands for
    unborn,    \* windows yet to be opened; a window is opened once
    changes,   \* bound counter
    mishaps,   \* what has befallen the session: "retitled", "lost", "renewed",
               \* "reused" (history)
    requests,  \* on the way to the compositor
    wire,      \* events on the way to the worker
    connected, \* does the connection live?
    known,     \* State::toplevels: the handle numbers in the map
    stands,    \* the window each entry of the map was announced for
    activated, \* the entries with info.activated
    pend,      \* State::pending: the handle numbers in the map
    pendOn,    \* the pending entries with activated
    queue,     \* the Command channel
    worker,    \* the call the worker serves, None, or "exited"
    synced,    \* the callback of the worker's roundtrip has been dispatched
    backend,   \* is WlrProtocolsBackend alive?
    kind, pc,  \* each call: what it asks, where it is
    given,     \* the window id it names
    wanted,    \* the window its caller knows by that id
    result,    \* the windows its reply names
    hit,       \* the windows its request reached in the compositor (history)
    during,    \* the desktops there have been since it was asked (history)
    learned    \* what list replies have told: id and window (history)

desktop == <<stack, active, handle, unborn, changes, mishaps>>
link    == <<requests, wire, connected>>
mirror  == <<known, stands, activated, pend, pendOn>>
thread  == <<queue, worker, synced, backend>>
calls   == <<kind, pc, given, wanted, result, hit, learned>>
vars == <<desktop, link, mirror, thread, calls, during>>

Handles == 1..MaxHandles
Targeted == {"activate", "close"}
open == ToSet(stack)
Asked == {t \in Tasks : pc[t] = "asked"}
HandleOf(w) == CHOOSE h \in Handles : handle[h] = w
Toplevel(h, w) == [ev |-> "toplevel", h |-> h, win |-> w, on |-> FALSE]
Title(h) == [ev |-> "title", h |-> h, win |-> None, on |-> FALSE]
Flags(h, on) == [ev |-> "state", h |-> h, win |-> None, on |-> on]
DoneEvent(h) == [ev |-> "done", h |-> h, win |-> None, on |-> FALSE]
Closed(h) == [ev |-> "closed", h |-> h, win |-> None, on |-> FALSE]
Callback == [ev |-> "callback", h |-> 1, win |-> None, on |-> FALSE]
Request(op, h, t) == [op |-> op, h |-> h, by |-> t]

\* The desktop as a call may report it.
View(s, a) == [open |-> ToSet(s), active |-> a]
Witness(views) ==
    during' = [t \in Tasks |-> IF t \in Asked THEN during[t] \cup views
                               ELSE during[t]]

------------------------------------------------------------------------------
\* On a connection on which try_new has returned, handles are numbered in the
\* order of age, and the second roundtrip has fetched all toplevels and states.
Numbered(s) == [h \in Handles |-> IF h <= Len(s) THEN s[h] ELSE None]
FocusAt(s, a) == {h \in 1..Len(s) : s[h] = a}

Init ==
    /\ stack = Existing
    /\ active \in ToSet(Existing)
    /\ handle = Numbered(stack) /\ stands = Numbered(stack)
    /\ known = 1..Len(stack)
    /\ activated = FocusAt(stack, active)
    /\ unborn = Windows \ ToSet(Existing)
    /\ changes = 0 /\ mishaps = {}
    /\ requests = <<>> /\ wire = <<>> /\ connected = TRUE
    /\ pend = {} /\ pendOn = {}
    /\ queue = <<>> /\ worker = None /\ synced = FALSE /\ backend = "up"
    /\ kind = [t \in Tasks |-> None]
    /\ pc = [t \in Tasks |-> "idle"]
    /\ given = [t \in Tasks |-> 1]
    /\ wanted = [t \in Tasks |-> None]
    /\ result = [t \in Tasks |-> {}]
    /\ hit = [t \in Tasks |-> {}]
    /\ during = [t \in Tasks |-> {}]
    /\ learned = {}

------------------------------------------------------------------------------
(* The callers: Backend::list_windows, active_window, activate_window and  *)
(* close_window, all through WlrProtocolsBackend::send.                    *)

Ask(t) ==
    /\ pc[t] = "idle"
    /\ backend = "up"
    /\ \E k \in KindsUsed :
          /\ kind' = [kind EXCEPT ![t] = k]
          /\ IF k \in Targeted
             THEN \E l \in learned : /\ given' = [given EXCEPT ![t] = l.id]
                                     /\ wanted' = [wanted EXCEPT ![t] = l.win]
             ELSE UNCHANGED <<given, wanted>>
    /\ pc' = [pc EXCEPT ![t] = "asked"]
    /\ queue' = Append(queue, t)
    /\ during' = [during EXCEPT ![t] = {View(stack, active)}]
    /\ UNCHANGED <<desktop, link, mirror, worker, synced, backend, result, hit, learned>>

\* The future of a call is dropped: its command stays in the queue.
Cancel(t) ==
    /\ pc[t] = "asked"
    /\ pc' = [pc EXCEPT ![t] = "cancelled"]
    /\ UNCHANGED <<desktop, link, mirror, thread, kind, given, wanted, result, hit,
                   learned, during>>

\* Mutant of DropBackend: no Shutdown, the worker is to see the channel close.
DropBackendSilent ==
    /\ backend = "up" /\ Asked = {}
    /\ backend' = "dropped"
    /\ UNCHANGED <<desktop, link, mirror, queue, worker, synced, calls, during>>

\* The backend is dropped (no call borrows it); ShutdownGuard sends Shutdown.
DropBackend ==
    /\ backend = "up" /\ Asked = {}
    /\ backend' = "dropped"
    /\ queue' = Append(queue, "shutdown")
    /\ UNCHANGED <<desktop, link, mirror, worker, synced, calls, during>>

------------------------------------------------------------------------------
(* The worker thread.                                                      *)

\* rx.recv(), and for a window command the sync request of its roundtrip.
\* The worker holds a sender of its own, so only Shutdown ends the loop.
Recv ==
    /\ worker = None /\ queue # <<>>
    /\ queue' = Tail(queue)
    /\ synced' = FALSE
    /\ IF Head(queue) = "shutdown"
       THEN worker' = "exited" /\ UNCHANGED requests
       ELSE /\ worker' = Head(queue)
            /\ requests' = IF connected
                           THEN Append(requests, Request("sync", 1, Head(queue)))
                           ELSE requests
    /\ UNCHANGED <<desktop, wire, connected, mirror, backend, calls, during>>

\* The mirror after an event, and the request its handler sends.
OnToplevel(e) ==
    /\ known' = known \cup {e.h}
    /\ stands' = [stands EXCEPT ![e.h] = e.win]
    /\ activated' = activated \ {e.h}
    /\ pend' = pend \cup {e.h}
    /\ pendOn' = pendOn \ {e.h}
    /\ UNCHANGED requests

\* pending.entry(id).or_default()
OnTitle(e) ==
    /\ pend' = pend \cup {e.h}
    /\ UNCHANGED <<known, stands, activated, pendOn, requests>>

OnState(e) ==
    /\ pend' = pend \cup {e.h}
    /\ pendOn' = IF e.on THEN pendOn \cup {e.h} ELSE pendOn \ {e.h}
    /\ UNCHANGED <<known, stands, activated, requests>>

\* Mutant of OnDone: an activated toplevel stays so.
OnDoneSticky(e) ==
    /\ pend' = pend \ {e.h} /\ pendOn' = pendOn \ {e.h}
    /\ activated' = IF e.h \in pendOn \cap known THEN activated \cup {e.h}
                    ELSE activated
    /\ UNCHANGED <<known, stands, requests>>

\* Done takes the pending entry: title and app_id only if they were sent,
\* activated always.
OnDone(e) ==
    /\ pend' = pend \ {e.h} /\ pendOn' = pendOn \ {e.h}
    /\ activated' = IF e.h \notin pend \cap known THEN activated
                    ELSE IF e.h \in pendOn THEN activated \cup {e.h}
                    ELSE activated \ {e.h}
    /\ UNCHANGED <<known, stands, requests>>

OnClosed(e) ==
    /\ known' = known \ {e.h} /\ activated' = activated \ {e.h}
    /\ pend' = pend \ {e.h} /\ pendOn' = pendOn \ {e.h}
    /\ requests' = IF connected
                   THEN Append(requests, Request("destroy", e.h, None))
                   ELSE requests
    /\ UNCHANGED stands

\* The queue is dispatched during a roundtrip only, up to the callback and,
\* of what was read along with it, beyond.
Dispatch ==
    /\ worker \in Tasks
    /\ wire # <<>>
    /\ wire' = Tail(wire)
    /\ LET e == Head(wire) IN
          \/ e.ev = "toplevel" /\ OnToplevel(e) /\ UNCHANGED synced
          \/ e.ev = "title" /\ OnTitle(e) /\ UNCHANGED synced
          \/ e.ev = "state" /\ OnState(e) /\ UNCHANGED synced
          \/ e.ev = "done" /\ OnDone(e) /\ UNCHANGED synced
          \/ e.ev = "closed" /\ OnClosed(e) /\ UNCHANGED synced
          \/ e.ev = "callback" /\ synced' = TRUE /\ UNCHANGED <<mirror, requests>>
    /\ UNCHANGED <<desktop, connected, queue, worker, backend, calls, during>>

\* Mutant of Roundtripped: an error of the roundtrip is waited out.
RoundtrippedSurely(t) == synced

\* The roundtrip returns: the callback came, or the connection is lost, an
\* error which is ignored.
Roundtripped(t) == synced \/ ~connected

\* The reply to a read: all entries, or any one of the activated entries.
Snapshot(t) ==
    \/ kind[t] = "list" /\ result' = [result EXCEPT ![t] = {stands[h] : h \in known}]
    \/ kind[t] = "active" /\ activated = {} /\ result' = [result EXCEPT ![t] = {}]
    \/ kind[t] = "active" /\ \E h \in activated :
          result' = [result EXCEPT ![t] = {stands[h]}]

\* The reply reaches the caller unless it has gone.
Reply(t, verdict) ==
    /\ worker' = None
    /\ pc' = [pc EXCEPT ![t] = IF @ = "asked" THEN verdict ELSE @]

\* list_windows and active_window, after the roundtrip.
AnswerRead(t) ==
    /\ worker = t /\ Roundtripped(t)
    /\ kind[t] \notin Targeted
    /\ Snapshot(t)
    /\ Reply(t, "ok")
    /\ learned' = IF kind[t] = "list" /\ pc[t] = "asked"
                  THEN learned \cup {[id |-> h, win |-> stands[h]] : h \in known}
                  ELSE learned
    /\ UNCHANGED <<desktop, link, mirror, queue, synced, backend, kind, given,
                   wanted, hit, during>>

\* Mutants of Act: success is reported whether or not the id is known; the
\* request is not flushed; an id that the given one is a prefix of will do.
ActBlindly(t) ==
    /\ worker = t /\ Roundtripped(t)
    /\ kind[t] \in Targeted
    /\ requests' = IF connected /\ given[t] \in known
                   THEN Append(requests, Request(kind[t], given[t], t))
                   ELSE requests
    /\ Reply(t, "ok")
    /\ UNCHANGED <<desktop, wire, connected, mirror, queue, synced, backend, kind,
                   given, wanted, result, hit, learned, during>>

ActUnflushed(t) ==
    /\ worker = t /\ Roundtripped(t)
    /\ kind[t] \in Targeted
    /\ Reply(t, IF given[t] \in known THEN "ok" ELSE "not_found")
    /\ UNCHANGED <<desktop, link, mirror, queue, synced, backend, kind, given,
                   wanted, result, hit, learned, during>>
ActOnPrefix(t) ==
    /\ worker = t /\ Roundtripped(t)
    /\ kind[t] \in Targeted
    /\ \E h \in known : requests' = IF connected
                                   THEN Append(requests, Request(kind[t], h, t))
                                   ELSE requests
    /\ Reply(t, "ok")
    /\ UNCHANGED <<desktop, wire, connected, mirror, queue, synced, backend, kind,
                   given, wanted, result, hit, learned, during>>

\* activate_window and close_window: find_handle_by_id, request, flush; the
\* reply does not wait for the compositor.
Act(t) ==
    /\ worker = t /\ Roundtripped(t)
    /\ kind[t] \in Targeted
    /\ IF given[t] \in known
       THEN /\ requests' = IF connected
                           THEN Append(requests, Request(kind[t], given[t], t))
                           ELSE requests
            /\ Reply(t, "ok")
       ELSE Reply(t, "not_found") /\ UNCHANGED requests
    /\ UNCHANGED <<desktop, wire, connected, mirror, queue, synced, backend, kind,
                   given, wanted, result, hit, learned, during>>

------------------------------------------------------------------------------
(* The compositor.                                                         *)

\* The events of a change of focus from window a to window b.
FocusEvents(a, b) ==
    (IF a = None THEN <<>> ELSE <<Flags(HandleOf(a), FALSE), DoneEvent(HandleOf(a))>>)
    \o (IF b = None THEN <<>> ELSE <<Flags(HandleOf(b), TRUE), DoneEvent(HandleOf(b))>>)

Send(events) == wire' = IF connected THEN wire \o events ELSE wire

\* It serves requests in order.  A request on the handle of a closed window
\* does nothing; activating takes the focus off the old window first.
Serve ==
    /\ requests # <<>>
    /\ requests' = Tail(requests)
    /\ LET r == Head(requests)
           w == handle[r.h]
       IN \/ /\ r.op = "sync"
             /\ Send(<<Callback>>)
             /\ UNCHANGED <<active, handle, hit, during>>
          \/ /\ r.op = "destroy"
             /\ handle' = [handle EXCEPT ![r.h] = None]
             /\ UNCHANGED <<active, wire, hit, during>>
          \/ /\ r.op \in Targeted
             /\ hit' = [hit EXCEPT ![r.by] = {w} \cap open]
             /\ IF r.op = "activate" /\ w \in open /\ w # active
                THEN /\ active' = w
                     /\ Send(FocusEvents(active, w))
                     /\ Witness({View(stack, None), View(stack, w)})
                ELSE UNCHANGED <<active, wire, during>>
             /\ UNCHANGED handle
    /\ UNCHANGED <<stack, unborn, changes, mishaps, connected, mirror, thread, kind, pc, given,
                   wanted, result, learned>>

Change ==
    /\ changes < MaxChanges
    /\ changes' = changes + 1
    /\ UNCHANGED <<requests, connected, mirror, thread, calls>>

\* A new window takes the lowest free handle number, unfocused; somebody may
\* have been told that number for a window which is gone.
OpenWindow(w) ==
    /\ Change
    /\ w \in unborn
    /\ unborn' = unborn \ {w}
    /\ \E h \in Handles :
          /\ handle[h] = None /\ \A g \in 1..(h - 1) : handle[g] # None
          /\ handle' = [handle EXCEPT ![h] = w]
          /\ Send(<<Toplevel(h, w), Title(h), DoneEvent(h)>>)
          /\ mishaps' = mishaps \cup {m \in {"reused"} : \E l \in learned : l.id = h}
    /\ stack' = Append(stack, w)
    /\ Witness({View(stack', active)})
    /\ UNCHANGED active

\* A window goes; its handle number is in use until the client destroys it.
CloseWindow(w) ==
    /\ Change
    /\ \E i \in 1..Len(stack) : stack[i] = w /\ stack' = RemoveAt(stack, i)
    /\ active' = IF active = w THEN None ELSE active
    /\ Send(<<Closed(HandleOf(w))>>)
    /\ Witness({View(stack', active')})
    /\ UNCHANGED <<handle, unborn, mishaps>>

\* The focus moves to a window, or to none.
Focus(w) ==
    /\ Change
    /\ w \in open \cup {None} /\ w # active
    /\ active' = w
    /\ Send(FocusEvents(active, w))
    /\ Witness({View(stack, None), View(stack, w)})
    /\ UNCHANGED <<stack, handle, unborn, mishaps>>

\* A title changes: the compositor sends what changed, and done.
Retitle(w) ==
    /\ Retitles
    /\ Change
    /\ w \in open
    /\ Send(<<Title(HandleOf(w)), DoneEvent(HandleOf(w))>>)
    /\ mishaps' = mishaps \cup {"retitled"}
    /\ UNCHANGED <<stack, active, handle, unborn, during>>

\* The connection breaks; what was under way is lost.
Lose ==
    /\ Loses /\ connected
    /\ changes < MaxChanges /\ changes' = changes + 1
    /\ connected' = FALSE
    /\ wire' = <<>> /\ requests' = <<>>
    /\ mishaps' = mishaps \cup {"lost"}
    /\ UNCHANGED <<stack, active, handle, unborn, mirror, thread, calls, during>>

\* The process has ended and another connects: handles are numbered anew.
\* Its user knows the ids the earlier one printed.
Renew ==
    /\ Renews
    /\ backend = "dropped" /\ worker = "exited" /\ requests = <<>>
    /\ mishaps' = mishaps \cup {"renewed"}
    /\ UNCHANGED <<stack, active, unborn, changes, requests, calls, during>>
    /\ handle' = Numbered(stack) /\ stands' = Numbered(stack)
    /\ known' = 1..Len(stack)
    /\ activated' = FocusAt(stack, active)
    /\ wire' = <<>> /\ connected' = TRUE
    /\ pend' = {} /\ pendOn' = {}
    /\ queue' = <<>> /\ worker' = None /\ synced' = FALSE /\ backend' = "up"

------------------------------------------------------------------------------
Next ==
    \/ \E t \in Tasks : Ask(t) \/ Cancel(t) \/ AnswerRead(t) \/ Act(t)
    \/ DropBackend \/ Recv \/ Dispatch \/ Serve
    \/ \E w \in Windows : OpenWindow(w) \/ CloseWindow(w) \/ Retitle(w)
    \/ \E w \in Windows \cup {None} : Focus(w)
    \/ Lose \/ Renew

\* The worker thread runs, and the compositor serves a live connection.
Fairness ==
    /\ WF_vars(Recv) /\ WF_vars(Dispatch) /\ WF_vars(Serve)
    /\ \A t \in Tasks : WF_vars(AnswerRead(t) \/ Act(t))

Spec == Init /\ [][Next]_vars /\ Fairness
------------------------------------------------------------------------------

\* "A roundtrip ensures we have the latest state before snapshotting": what a
\* read reports is what the desktop was at some instant during the call.
LatestState ==
    \A t \in Tasks : pc[t] = "ok" =>
        /\ kind[t] = "list" => \E v \in during[t] : result[t] = v.open
        /\ kind[t] = "active" => \E v \in during[t] : result[t] = {v.active} \ {None}

\* Reads are of the latest state while the connection lives and titles stand,
\* through openings, closings, moves of the focus and successive processes.
FreshRead == mishaps \cap {"retitled", "lost"} = {} => LatestState

\* The verdict on an id of this connection is right for some instant during the
\* call, as long as no number of a window that is gone is used again.
VerdictHonest ==
    mishaps \cap {"lost", "renewed", "reused"} = {} => \A t \in Tasks : kind[t] \in Targeted =>
        /\ pc[t] = "ok" => \E v \in during[t] : wanted[t] \in v.open
        /\ pc[t] = "not_found" => \E v \in during[t] : wanted[t] \notin v.open

\* A request reaches no other window than the one its caller learned the id of
\* on this connection, although windows come and go and callers give up, as long
\* as no number that was told is used again.
ActsOnWanted ==
    mishaps \cap {"renewed", "reused"} = {} => \A t \in Tasks : hit[t] \subseteq {wanted[t]}

\* A success that is reported before the compositor has seen the request is
\* made good, unless the window or the connection goes first.
ActionLands ==
    \A t \in Tasks :
        (pc[t] = "ok" /\ kind[t] \in Targeted /\ mishaps \cap {"lost", "renewed"} = {})
            ~> (hit[t] # {} \/ wanted[t] \notin open \/ ~connected)

\* Every call returns: lost connections and cancelled calls ahead of it in
\* the queue do not hold it up.
CallsReturn == \A t \in Tasks : (pc[t] = "asked") ~> (pc[t] # "asked")

\* Dropping the backend ends the worker, although it holds a sender itself.
WorkerExits == (backend = "dropped") ~> (worker = "exited" \/ backend = "up")
==============================================================================
