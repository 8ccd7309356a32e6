----------------------------- MODULE PortalToken -----------------------------
(***************************************************************************)
(* The cache of the portal's restore token (portal_token.rs) and the       *)
(* session start that uses it (open_context in backend/libei.rs), run by   *)
(* processes that overlap, fail and die.  The portal takes a token once:   *)
(* a session restored with it is given a new one.  A file is identified    *)
(* with the token written into it, since no token is saved twice.          *)
(***************************************************************************)
EXTENDS Naturals, FiniteSets

CONSTANTS Runs,       \* the calls of open_context under way at one time
          Pids,       \* process ids
          SharePid,   \* may two calls under way be of one process?
          MaxToken,   \* bound on the tokens the portal issues
          MaxStarts,  \* bound on the calls of open_context
          Junk,       \* a file that load() cannot use
          None        \* no token, no file, no process

Tokens == 1..MaxToken

ASSUME TokenAssumption ==
    /\ SharePid \in BOOLEAN
    /\ MaxToken \in Nat /\ MaxStarts \in Nat
    /\ None \notin Pids \cup Tokens \cup {Junk} /\ Junk \notin Tokens

VARIABLES
    file,      \* portal.token: the token of the file it names, Junk or None
    tmp,       \* tmp[k]: the token of the file portal.token.tmp.<k> names
    written,   \* tokens whose file holds all of it
    honoured,  \* portal: the tokens it accepts
    issued,    \* portal: the number of tokens issued so far
    pc, pid,   \* each call, and its process
    cached,    \* the token it loaded
    fresh,     \* the token the portal gave it
    starts,    \* bound counter
    consent,   \* "none", "given" once with a token, "again" (history)
    mishaps    \* what has gone wrong outside this code (history)

files  == <<file, tmp, written>>
portal == <<honoured, issued>>
calls  == <<pid, cached, fresh, starts>>
vars   == <<files, portal, pc, calls, consent, mishaps>>

Saving == {"create", "write", "rename"}
Settled == {"idle", "up", "failed"}
Goto(r, label) == pc' = [pc EXCEPT ![r] = label]
Befall(m) == mishaps' = mishaps \cup {m}

Init ==
    /\ file \in {None, Junk}
    /\ tmp = [k \in Pids |-> None]
    /\ written = {} /\ honoured = {} /\ issued = 0
    /\ pc = [r \in Runs |-> "idle"]
    /\ pid = [r \in Runs |-> None]
    /\ cached = [r \in Runs |-> None]
    /\ fresh = [r \in Runs |-> None]
    /\ starts = 0 /\ consent = "none" /\ mishaps = {}

------------------------------------------------------------------------------
\* Mutant of Usable: nothing the file holds is used.
UsableNever(f) == None

\* What load() makes of the file: junk, and half a file, count as no token.
Usable(f) == IF f \in written THEN f ELSE None

\* load(); an error of the read counts as no token as well.
Load(r) ==
    /\ pc[r] = "idle" /\ starts < MaxStarts
    /\ starts' = starts + 1
    /\ \E k \in Pids :
          /\ SharePid \/ \A q \in Runs : pc[q] # "idle" => pid[q] # k
          /\ pid' = [pid EXCEPT ![r] = k]
    /\ \E read \in BOOLEAN :
          LET token == IF read THEN Usable(file) ELSE None IN
          /\ cached' = [cached EXCEPT ![r] = token]
          /\ Goto(r, IF token = None THEN "consent" ELSE "restore")
          /\ mishaps' = mishaps
                \cup (IF read THEN {} ELSE {"io"})
                \cup (IF \A q \in Runs : pc[q] \in Settled THEN {} ELSE {"overlap"})
    /\ UNCHANGED <<files, portal, fresh, consent>>

\* The session has started; the portal may give a token for the next one.
Started(r) ==
    \/ /\ issued < MaxToken
       /\ issued' = issued + 1
       /\ fresh' = [fresh EXCEPT ![r] = issued']
       /\ Goto(r, "create")
       /\ UNCHANGED mishaps
    \/ /\ Befall("forgotten")
       /\ Goto(r, "up")
       /\ UNCHANGED <<issued, fresh>>

\* Mutant of Restore: the new token is not saved.
RestoreUnsaved(r) ==
    /\ pc[r] = "restore"
    /\ \/ /\ cached[r] \in honoured
          /\ honoured' = honoured \ {cached[r]}
          /\ Goto(r, "up")
          /\ UNCHANGED <<mishaps>>
       \/ /\ Goto(r, "consent")
          /\ mishaps' = IF cached[r] \in honoured THEN mishaps \cup {"portal"} ELSE mishaps
          /\ UNCHANGED honoured
    /\ UNCHANGED <<files, issued, fresh, pid, cached, starts, consent>>

\* run_session_flow with the cached token: no dialog if the portal accepts it,
\* and the flow without a token after any error.
Restore(r) ==
    /\ pc[r] = "restore"
    /\ \/ /\ cached[r] \in honoured
          /\ Started(r)
          /\ honoured' = (honoured \ {cached[r]}) \cup ({fresh'[r]} \ {None})
       \/ /\ Goto(r, "consent")
          /\ mishaps' = IF cached[r] \in honoured THEN mishaps \cup {"portal"} ELSE mishaps
          /\ UNCHANGED <<honoured, issued, fresh>>
    /\ UNCHANGED <<files, pid, cached, starts, consent>>

\* Mutant of Refuse: a refusal forgets the cached token.
RefuseForgetting(r) ==
    /\ Goto(r, "failed")
    /\ file' = None
    /\ UNCHANGED <<tmp, written, portal, fresh, consent, mishaps>>

\* The user denies, or the portal fails: the file stays as it is.
Refuse(r) ==
    /\ Goto(r, "failed")
    /\ UNCHANGED <<files, portal, fresh, consent, mishaps>>

\* run_session_flow without a token: the consent dialog.
Consent(r) ==
    /\ pc[r] = "consent"
    /\ \/ /\ Started(r)
          /\ honoured' = honoured \cup ({fresh'[r]} \ {None})
          /\ consent' = IF consent # "none" THEN "again"
                        ELSE IF fresh'[r] # None THEN "given" ELSE consent
          /\ UNCHANGED files
       \/ Refuse(r)
    /\ UNCHANGED <<pid, cached, starts>>

------------------------------------------------------------------------------
(* save_to: an error is logged and the session goes on.                    *)

\* Mutant of Create: the token is written where it is to be read.
CreateInPlace(r) ==
    /\ pc[r] = "create"
    /\ Goto(r, "write")
    /\ file' = fresh[r]
    /\ tmp' = [tmp EXCEPT ![pid[r]] = fresh[r]]
    /\ UNCHANGED <<written, portal, calls, consent, mishaps>>

\* create_new fails on a name that exists, whosever it is; after any error the
\* name is removed, unless the directory itself could not be used.
Create(r) ==
    /\ pc[r] = "create"
    /\ \/ /\ tmp[pid[r]] = None
          /\ tmp' = [tmp EXCEPT ![pid[r]] = fresh[r]]
          /\ Goto(r, "write")
          /\ UNCHANGED mishaps
       \/ /\ tmp[pid[r]] # None
          /\ tmp' = [tmp EXCEPT ![pid[r]] = None]
          /\ Goto(r, "up")
          /\ UNCHANGED mishaps
       \/ /\ tmp' \in {tmp, [tmp EXCEPT ![pid[r]] = None]}
          /\ Goto(r, "up")
          /\ Befall("io")
    /\ UNCHANGED <<file, written, portal, calls, consent>>

Write(r) ==
    /\ pc[r] = "write"
    /\ \/ /\ written' = written \cup {fresh[r]}
          /\ Goto(r, "rename")
          /\ UNCHANGED <<tmp, mishaps>>
       \/ /\ tmp' = [tmp EXCEPT ![pid[r]] = None]
          /\ Goto(r, "up")
          /\ Befall("io")
          /\ UNCHANGED written
    /\ UNCHANGED <<file, portal, calls, consent>>

\* rename moves what the name names now; without it, or on another error, the
\* name is removed.
Rename(r) ==
    /\ pc[r] = "rename"
    /\ Goto(r, "up")
    /\ tmp' = [tmp EXCEPT ![pid[r]] = None]
    /\ \/ tmp[pid[r]] # None /\ file' = tmp[pid[r]] /\ UNCHANGED mishaps
       \/ tmp[pid[r]] = None /\ UNCHANGED <<file, mishaps>>
       \/ Befall("io") /\ UNCHANGED file
    /\ UNCHANGED <<written, portal, calls, consent>>

------------------------------------------------------------------------------
\* The call and its session are over.
Finish(r) ==
    /\ pc[r] \in {"up", "failed"}
    /\ Goto(r, "idle")
    /\ cached' = [cached EXCEPT ![r] = None]
    /\ fresh' = [fresh EXCEPT ![r] = None]
    /\ pid' = [pid EXCEPT ![r] = None]
    /\ UNCHANGED <<files, portal, starts, consent, mishaps>>

\* A process is killed.
Crash(k) ==
    LET dead == {r \in Runs : pid[r] = k} IN
    /\ dead # {}
    /\ pc' = [r \in Runs |-> IF r \in dead THEN "idle" ELSE pc[r]]
    /\ pid' = [r \in Runs |-> IF r \in dead THEN None ELSE pid[r]]
    /\ cached' = [r \in Runs |-> IF r \in dead THEN None ELSE cached[r]]
    /\ fresh' = [r \in Runs |-> IF r \in dead THEN None ELSE fresh[r]]
    /\ Befall("crash")
    /\ UNCHANGED <<files, portal, starts, consent>>

\* The user takes the grant back.
Revoke ==
    /\ honoured # {}
    /\ honoured' = {}
    /\ Befall("revoked")
    /\ UNCHANGED <<files, issued, pc, calls, consent>>

Next ==
    \/ \E r \in Runs : \/ Load(r) \/ Restore(r) \/ Consent(r)
                       \/ Create(r) \/ Write(r) \/ Rename(r) \/ Finish(r)
    \/ \E k \in Pids : Crash(k)
    \/ Revoke

Spec == Init /\ [][Next]_vars
------------------------------------------------------------------------------
TypeOK ==
    /\ file \in Tokens \cup {Junk, None}
    /\ tmp \in [Pids -> Tokens \cup {None}]
    /\ written \subseteq Tokens /\ honoured \subseteq Tokens
    /\ issued \in 0..MaxToken
    /\ pc \in [Runs -> {"restore", "consent"} \cup Saving \cup Settled]
    /\ pid \in [Runs -> Pids \cup {None}]
    /\ cached \in [Runs -> Tokens \cup {None}]
    /\ fresh \in [Runs -> Tokens \cup {None}]
    /\ starts \in 0..MaxStarts
    /\ consent \in {"none", "given", "again"}
    /\ mishaps \subseteq {"io", "overlap", "forgotten", "portal", "crash", "revoked"}

\* "The receiving open() either sees the old file or the new file, never a
\* half-written one": whoever dies or overlaps, portal.token is whole.
FileWhole == file \in written \cup {Junk, None}

\* "Keep the OLD cached file untouched": the file changes only when a call
\* whose session started puts its own new token there.
OldFileKept ==
    [][file' # file => \E r \in Runs : pc[r] = "rename" /\ file' = fresh[r]]_vars

\* "The first run prompts once, every subsequent run is silent until the user
\* revokes": runs that follow each other ask no second time when nothing
\* fails around them.
PromptsOnce == mishaps = {} => consent # "again"

\* When no call is under way the cached token is one the portal accepts,
\* although calls overlapped, used the same token and saved in any order.
TokenUsable ==
    (/\ \A r \in Runs : pc[r] \in Settled
     /\ mishaps \subseteq {"overlap", "portal"})
        => file \in honoured \cup {Junk, None}
==============================================================================
