----------------------------- MODULE BackendBuild -----------------------------
(***************************************************************************)
(* Choosing a backend: priority and build (detector.rs), and the steps of  *)
(* the constructors it tries.  A libei session is opened through the       *)
(* portal, which may ask the user (PortalToken has the token file), then   *)
(* handed to a dispatcher thread of its own; try_new waits for the thread  *)
(* to connect, without a limit, and for a first device, with one           *)
(* (LibeiDevices has what the thread does).  The KDE and GNOME backends    *)
(* start libei and then their own bridge.                                  *)
(***************************************************************************)
EXTENDS Naturals, Sequences, FiniteSets, SequencesExt

CONSTANT MaxSessions \* libei sessions one build may open

ASSUME SessionsAssumption == MaxSessions \in Nat /\ MaxSessions >= 2

Sessions == 1..MaxSessions

Kinds == {"Libei", "WlrProtocols", "KdeDBus", "GnomeExt", "Uinput"}
Composing == {"KdeDBus", "GnomeExt"}
OverLibei == Composing \cup {"Libei"}

VARIABLES
    env,      \* what the environment suggests: a subset of {"wlr", "KDE", "GNOME"}
    forced,   \* the kind named with --backend, or "no"
    todo,     \* kinds not yet tried, in order
    at,       \* the kind being tried
    step,     \* where its constructor is
    failed,   \* libei_just_failed
    outcome,  \* [Kinds -> "untried", "failed", "skipped" or "up"] (history)
    token,    \* is a restore token cached that the portal has not spent?
    tokens,   \* does the portal accept its own tokens?
    asked,    \* consent dialogs shown (history)
    lost,     \* did a session open whose token was not saved? (history)
    waits,    \* libei starts that failed (history)
    current,  \* the latest libei session
    thread,   \* [Sessions -> "none", "connecting", "running" or "ended"]
    inbox,    \* [Sessions -> "empty", "state" or "error"]: connection_rx
    signal    \* [Sessions -> "armed", "sent" or "dropped"]: ready_rx

choice == <<env, forced>>
dialog == <<token, tokens, asked, lost>>
session == <<current, thread, inbox, signal>>
vars == <<choice, todo, at, step, failed, outcome, dialog, waits, session>>

------------------------------------------------------------------------------
(* The detector.                                                           *)

\* Mutant of Priority: plain libei is preferred to what builds on it.
PriorityPlain(e) ==
    IF "wlr" \in e THEN <<"WlrProtocols", "Libei", "Uinput">>
    ELSE IF "KDE" \in e THEN <<"Libei", "KdeDBus", "WlrProtocols", "Uinput">>
    ELSE IF "GNOME" \in e THEN <<"Libei", "GnomeExt", "WlrProtocols", "Uinput">>
    ELSE <<"Libei", "WlrProtocols", "Uinput">>

\* priority: a hint of a wlroots compositor wins over the desktop's name.
Priority(e) ==
    IF "wlr" \in e THEN <<"WlrProtocols", "Libei", "Uinput">>
    ELSE IF "KDE" \in e THEN <<"KdeDBus", "Libei", "WlrProtocols", "Uinput">>
    ELSE IF "GNOME" \in e THEN <<"GnomeExt", "Libei", "WlrProtocols", "Uinput">>
    ELSE <<"Libei", "WlrProtocols", "Uinput">>

\* Mutant of SkipsLibei: libei is skipped after any failure.
SkipsLibeiAlways == \E k \in Kinds : outcome[k] = "failed"

SkipsLibei == failed

\* build, for the next kind of the list; a forced kind is the whole list.
TryNext ==
    /\ step = "next" /\ todo # <<>>
    /\ todo' = Tail(todo)
    /\ LET kind == Head(todo) IN
          \/ /\ kind = "Libei" /\ SkipsLibei
             /\ outcome' = [outcome EXCEPT ![kind] = "skipped"]
             /\ UNCHANGED <<at, step>>
          \/ /\ ~(kind = "Libei" /\ SkipsLibei)
             /\ at' = kind
             /\ step' = IF kind \in OverLibei THEN "open" ELSE "start"
             /\ UNCHANGED outcome
    /\ UNCHANGED <<choice, failed, dialog, waits, session>>

\* Only the last error is returned.
GiveUp ==
    /\ step = "next" /\ todo = <<>>
    /\ step' = "error"
    /\ UNCHANGED <<choice, todo, at, failed, outcome, dialog, waits, session>>

Succeed ==
    /\ step' = "built"
    /\ outcome' = [outcome EXCEPT ![at] = "up"]
    /\ UNCHANGED <<failed, waits>>

\* Mutant of IsLibeiFailure: the error of a composing backend is not looked into.
IsLibeiFailureDirect(ofLibei) == ofLibei /\ at = "Libei"

\* error_is_libei_failure: libei's own error, or one that wraps it.
IsLibeiFailure(ofLibei) == ofLibei

Fail(ofLibei) ==
    /\ step' = "next"
    /\ outcome' = [outcome EXCEPT ![at] = "failed"]
    /\ failed' = (failed \/ IsLibeiFailure(ofLibei))
    /\ waits' = IF ofLibei THEN waits + 1 ELSE waits

------------------------------------------------------------------------------
(* Constructors that stand alone.                                          *)

\* WlrProtocolsBackend::try_new waits for its worker's first word.
WlrStarts ==
    /\ step = "start" /\ at = "WlrProtocols"
    /\ Succeed \/ Fail(FALSE)
    /\ UNCHANGED <<choice, todo, at, dialog, session>>

\* UinputBackend::try_new: the device file, the device, the keymap.
UinputStarts ==
    /\ step = "start" /\ at = "Uinput"
    /\ Succeed \/ Fail(FALSE)
    /\ UNCHANGED <<choice, todo, at, dialog, session>>

------------------------------------------------------------------------------
(* LibeiBackend::try_new.                                                  *)

\* The context is there: a thread of its own drives it from here on.
Spawn ==
    LET n == current + 1 IN
    /\ n \in Sessions
    /\ current' = n
    /\ thread' = [thread EXCEPT ![n] = "connecting"]
    /\ UNCHANGED <<inbox, signal>>
    /\ step' = "connect"
    /\ UNCHANGED <<failed, outcome, waits>>

\* A session that opened has a token for the next one, which is saved.  None
\* may come, or the save may fail, which is only logged: then the cache is as
\* it was, with a token in it that may be spent.
Save ==
    \/ token' = TRUE /\ UNCHANGED lost
    \/ token' \in {FALSE, token} /\ lost' = TRUE

\* The rest of open_context: the token, and then the connection, which may fail.
Opened ==
    /\ Save
    /\ Spawn \/ (Fail(TRUE) /\ UNCHANGED session)
    /\ UNCHANGED <<choice, todo, at, tokens, asked>>

\* open_context with a token the portal accepts: silent.
OpenSilently ==
    /\ step = "open" /\ token /\ tokens
    /\ Opened

\* Without one the portal asks the user.
Ask ==
    /\ step = "open" /\ ~(token /\ tokens)
    /\ step' = "asking"
    /\ asked' = asked + 1
    /\ UNCHANGED <<choice, todo, at, failed, outcome, token, tokens, lost, waits, session>>

Consent ==
    /\ step = "asking"
    /\ Opened

\* The user says no, or there is no portal.
OpenFails ==
    /\ step \in {"open", "asking"}
    /\ Fail(TRUE)
    /\ UNCHANGED <<choice, todo, at, dialog, session>>

\* The thread: the handshake, of which connection_tx tells.
Handshake(n) ==
    /\ thread[n] = "connecting"
    /\ \/ thread' = [thread EXCEPT ![n] = "running"] /\ inbox' = [inbox EXCEPT ![n] = "state"]
       \/ thread' = [thread EXCEPT ![n] = "ended"] /\ inbox' = [inbox EXCEPT ![n] = "error"]
    /\ UNCHANGED <<choice, todo, at, step, failed, outcome, dialog, waits, current, signal>>

\* The first usable device has resumed; nobody need be listening.
DeviceReady(n) ==
    /\ thread[n] = "running" /\ signal[n] = "armed"
    /\ signal' = [signal EXCEPT ![n] = "sent"]
    /\ UNCHANGED <<choice, todo, at, step, failed, outcome, dialog, waits, current, thread, inbox>>

\* The server hangs up.
StreamEnds(n) ==
    /\ thread[n] = "running"
    /\ thread' = [thread EXCEPT ![n] = "ended"]
    /\ signal' = [signal EXCEPT ![n] = IF @ = "armed" THEN "dropped" ELSE @]
    /\ UNCHANGED <<choice, todo, at, step, failed, outcome, dialog, waits, current, inbox>>

\* connection_rx.recv(): no limit, and the caller's thread sleeps in it.
Connected ==
    /\ step = "connect" /\ inbox[current] # "empty"
    /\ \/ /\ inbox[current] = "state"
          /\ step' = "wait"
          /\ UNCHANGED <<failed, outcome, waits>>
       \/ inbox[current] = "error" /\ Fail(TRUE)
    /\ UNCHANGED <<choice, todo, at, dialog, session>>

\* The device is there: libei is up, or the bridge is next.
Ready ==
    /\ step = "wait" /\ signal[current] = "sent"
    /\ \/ at = "Libei" /\ Succeed
       \/ at \in Composing /\ step' = "bridge" /\ UNCHANGED <<failed, outcome, waits>>
    /\ UNCHANGED <<choice, todo, at, dialog, session>>

SignalLost ==
    /\ step = "wait" /\ signal[current] = "dropped"
    /\ Fail(TRUE)
    /\ UNCHANGED <<choice, todo, at, dialog, session>>

\* Mutant of TimeOut: the wait has no limit.
TimeOutNever == FALSE /\ UNCHANGED vars

\* The thread is left running, with the portal's session.
TimeOut ==
    /\ step = "wait" /\ signal[current] = "armed"
    /\ Fail(TRUE)
    /\ UNCHANGED <<choice, todo, at, dialog, session>>

------------------------------------------------------------------------------
(* The bridges of the composing backends.                                  *)

\* KdeBackend::try_new: the bus, the object, the name.  On failure the input
\* half is dropped, but its thread is not.
KdeBridge ==
    /\ step = "bridge" /\ at = "KdeDBus"
    /\ Succeed \/ Fail(FALSE)
    /\ UNCHANGED <<choice, todo, at, dialog, session>>

\* GnomeExtBackend::try_new: the bus, the proxy, a call to see that it answers.
GnomeBridge ==
    /\ step = "bridge" /\ at = "GnomeExt"
    /\ Succeed \/ Fail(FALSE)
    /\ UNCHANGED <<choice, todo, at, dialog, session>>

------------------------------------------------------------------------------
Init ==
    /\ env \in SUBSET {"wlr", "KDE", "GNOME"}
    /\ forced \in Kinds \cup {"no"}
    /\ todo = IF forced = "no" THEN Priority(env) ELSE <<forced>>
    /\ at = "" /\ step = "next" /\ failed = FALSE
    /\ outcome = [k \in Kinds |-> "untried"]
    /\ token \in BOOLEAN /\ tokens \in BOOLEAN /\ asked = 0 /\ lost = FALSE
    /\ waits = 0 /\ current = 0
    /\ thread = [n \in Sessions |-> "none"]
    /\ inbox = [n \in Sessions |-> "empty"]
    /\ signal = [n \in Sessions |-> "armed"]

Caller ==
    \/ TryNext \/ GiveUp
    \/ WlrStarts \/ UinputStarts
    \/ OpenSilently \/ Ask \/ Connected \/ Ready \/ SignalLost \/ TimeOut
    \/ KdeBridge \/ GnomeBridge

World ==
    \/ Consent \/ OpenFails
    \/ \E n \in Sessions : Handshake(n) \/ DeviceReady(n) \/ StreamEnds(n)

Next == Caller \/ World

\* The runtime polls the caller; the timer fires; the compositor and the
\* buses answer or fail.  Nothing is assumed of the user, of the portal or
\* of the EIS server.
Fairness == WF_vars(Caller)

Spec == Init /\ [][Next]_vars /\ Fairness
------------------------------------------------------------------------------

\* "Retrying bare libei next does the same thing and times out again": in one
\* build libei fails to start at most once.  The user is asked at most twice,
\* and twice only if the portal does not accept its own tokens, or a session
\* opened whose token did not reach the cache: a KDE or GNOME bridge that fails
\* after that makes bare libei ask again.
OneFailedStart ==
    /\ waits <= 1
    /\ asked <= 2
    /\ asked = 2 => ~tokens \/ lost

List == IF forced = "no" THEN Priority(env) ELSE <<forced>>
Tried(k) == outcome[k] = "failed" \/ (outcome[k] = "skipped" /\ waits > 0)

\* "If the preferred backend fails to bootstrap fall through to the next":
\* the backend returned is the first of the list that starts, an error means
\* that none did, and libei counts as tried if it failed inside another.
FirstThatStarts ==
    /\ step = "error" => \A k \in ToSet(List) : Tried(k)
    /\ step = "built" =>
          \E i \in DOMAIN List : /\ outcome[List[i]] = "up"
                                 /\ \A j \in 1..(i - 1) : Tried(List[j])

\* build returns, unless the user never answers the dialog or the EIS server
\* never answers the handshake.
BuildReturns == <>[](step \in {"built", "error", "asking", "connect"})
==============================================================================
