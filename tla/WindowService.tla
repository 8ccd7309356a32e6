---------------------------- MODULE WindowService ----------------------------
(***************************************************************************)
(* What a window-management call of the Backend trait promises its caller, *)
(* whatever the compositor: the request is executed at most once, after it *)
(* was asked, and a call that returns reports what its own execution saw   *)
(* of the windows.  A call may also fail at any moment; a failed call may  *)
(* still be executed later, because no backend can take a request back.    *)
(***************************************************************************)
CONSTANTS Tasks,       \* the calls made through one backend
          Windows,     \* the windows of the desktop
          Unreadable,  \* windows whose geometry the compositor cannot report
          KindsUsed,   \* the kinds of call made
          None         \* "no window"

VARIABLES phase,       \* [Tasks -> idle, asked, ok, not_found, failed]
          kind,        \* [Tasks -> the kind of the call, or None]
          target,      \* [Tasks -> the window it names, or None]
          executed,    \* the calls the compositor has carried out
          said,        \* [Tasks -> the windows the execution spoke of]
          open,        \* the windows that exist
          active       \* the focused window, or None

vars == <<phase, kind, target, executed, said, open, active>>

Targeted == {"geometry", "activate", "close"}

\* The windows an execution of a call speaks of, at the moment it runs.
Seen(k, w) ==
    {v \in open :
        \/ k = "list"
        \/ k = "active" /\ v = active
        \/ k = "geometry" /\ v = w /\ v \notin Unreadable
        \/ k \in {"activate", "close"} /\ v = w}

\* A call that names a window succeeds only if its execution found it.
Verdict(k, found) == IF k \in Targeted /\ found = {} THEN "not_found" ELSE "ok"

Init == /\ phase = [t \in Tasks |-> "idle"]
        /\ kind = [t \in Tasks |-> None]
        /\ target = [t \in Tasks |-> None]
        /\ executed = {}
        /\ said = [t \in Tasks |-> {}]
        /\ open = Windows
        /\ active \in Windows

Ask(t) ==
    /\ phase[t] = "idle"
    /\ \E k \in KindsUsed, w \in Windows :
          /\ kind' = [kind EXCEPT ![t] = k]
          /\ target' = [target EXCEPT ![t] = IF k \in Targeted THEN w ELSE None]
    /\ phase' = [phase EXCEPT ![t] = "asked"]
    /\ UNCHANGED <<executed, said, open, active>>

Execute(t) ==
    /\ phase[t] \in {"asked", "failed"}
    /\ t \notin executed
    /\ executed' = executed \cup {t}
    /\ said' = [said EXCEPT ![t] = Seen(kind[t], target[t])]
    /\ active' = IF kind[t] = "activate" /\ target[t] \in open
                 THEN target[t] ELSE active
    /\ UNCHANGED <<phase, kind, target, open>>

Return(t) ==
    /\ phase[t] = "asked"
    /\ t \in executed
    /\ phase' = [phase EXCEPT ![t] = Verdict(kind[t], said[t])]
    /\ UNCHANGED <<kind, target, executed, said, open, active>>

Fail(failing) ==
    /\ \A t \in failing : phase[t] = "asked"
    /\ phase' = [t \in Tasks |-> IF t \in failing THEN "failed" ELSE phase[t]]
    /\ UNCHANGED <<kind, target, executed, said, open, active>>

\* The user, and the clients, go on using the desktop.
Desktop ==
    /\ \/ \E w \in open : /\ open' = open \ {w}
                          /\ active' = IF active = w THEN None ELSE active
       \/ \E w \in open : active' = w /\ UNCHANGED open
    /\ UNCHANGED <<phase, kind, target, executed, said>>

Next == \/ \E t \in Tasks : Ask(t) \/ Execute(t) \/ Return(t)
        \/ \E failing \in SUBSET Tasks : Fail(failing)
        \/ Desktop

Spec == Init /\ [][Next]_vars
==============================================================================
