-------------------------- MODULE PortalTokenProofs --------------------------
(***************************************************************************)
(* Theorems about PortalToken for any number of calls, processes, tokens   *)
(* and starts, the calls under way being of different processes: the file  *)
(* portal.token is always whole, and only a new token replaces it.  The    *)
(* name of the temporary file ends in the process id, so the heart of the  *)
(* argument is that a call which is saving owns what its name stands for.  *)
(***************************************************************************)
EXTENDS PortalToken, TLAPS

\* A call under way has a process, and no other call has the same one.
OwnProcess ==
    \A r \in Runs :
        /\ (pc[r] = "idle") <=> (pid[r] = None)
        /\ \A q \in Runs : pid[q] = pid[r] /\ pid[r] # None => q = r

\* The name a call writes to stands for the file with its own token; after the
\* write that file holds all of the token.
OwnName ==
    \A r \in Runs :
        /\ pc[r] \in Saving => fresh[r] \in Tokens
        /\ pc[r] \in {"write", "rename"} => tmp[pid[r]] = fresh[r]
        /\ pc[r] = "rename" => fresh[r] \in written

IInv == TypeOK /\ OwnProcess /\ OwnName /\ FileWhole

------------------------------------------------------------------------------
\* The first state: no token yet, or a file that is junk.
LEMMA InitEstablishes == Init => IInv
  BY TokenAssumption
  DEF Init, IInv, TypeOK, OwnProcess, OwnName, FileWhole, Tokens, Saving, Settled

\* load() yields a token whose file is whole, or none; the call gets a process
\* of its own.
LEMMA LoadKeeps ==
  ASSUME IInv, ~SharePid, NEW r \in Runs, Load(r)  PROVE IInv'
  <1> USE TokenAssumption DEF IInv
  <1>1. PICK k \in Pids : /\ \A q \in Runs : pc[q] # "idle" => pid[q] # k
                          /\ pid' = [pid EXCEPT ![r] = k]
    BY DEF Load
  <1>2. PICK token \in Tokens \cup {None} :
          /\ cached' = [cached EXCEPT ![r] = token]
          /\ pc' = [pc EXCEPT ![r] = IF token = None THEN "consent" ELSE "restore"]
          /\ mishaps' \subseteq mishaps \cup {"io", "overlap"}
    BY DEF Load, Goto, Usable, TypeOK, FileWhole
  <1>3. TypeOK'
    BY <1>1, <1>2 DEF Load, TypeOK, files, portal, Saving, Settled
  <1>4. OwnProcess'
    BY <1>1, <1>2 DEF Load, OwnProcess, TypeOK
  <1>5. OwnName'
    BY <1>1, <1>2 DEF Load, OwnName, TypeOK, files, Saving
  <1>6. FileWhole'
    BY DEF Load, FileWhole, files
  <1> QED BY <1>3, <1>4, <1>5, <1>6

\* The portal's answer to a session start.
LEMMA StartedGives ==
  ASSUME IInv, NEW r \in Runs, Started(r)
  PROVE /\ issued' \in 0..MaxToken
        /\ mishaps' \subseteq mishaps \cup {"forgotten"}
        /\ \/ /\ pc' = [pc EXCEPT ![r] = "create"]
              /\ \E n \in Tokens : fresh' = [fresh EXCEPT ![r] = n]
           \/ pc' = [pc EXCEPT ![r] = "up"] /\ fresh' = fresh
  <1>1. CASE issued < MaxToken /\ issued' = issued + 1
              /\ fresh' = [fresh EXCEPT ![r] = issued'] /\ Goto(r, "create")
              /\ UNCHANGED mishaps
    <2>1. issued' \in 0..MaxToken /\ issued' \in Tokens
      BY <1>1, TokenAssumption DEF IInv, TypeOK, Tokens
    <2>2. pc' = [pc EXCEPT ![r] = "create"]  BY <1>1 DEF Goto
    <2> QED BY <1>1, <2>1, <2>2
  <1>2. CASE Befall("forgotten") /\ Goto(r, "up") /\ UNCHANGED <<issued, fresh>>
    BY <1>2 DEF IInv, TypeOK, Befall, Goto
  <1> QED BY <1>1, <1>2 DEF Started

\* A step of one call from outside the save to the save or to its end, which
\* leaves the files and the processes alone.
LEMMA AnswerKeeps ==
  ASSUME IInv, NEW r \in Runs, UNCHANGED <<files, pid, cached, starts>>,
         pc[r] \in {"restore", "consent"},
         issued' \in 0..MaxToken, honoured' \subseteq Tokens,
         consent' \in {"none", "given", "again"},
         mishaps' \subseteq mishaps \cup {"forgotten", "portal"},
         \/ /\ pc' = [pc EXCEPT ![r] = "create"]
            /\ \E n \in Tokens : fresh' = [fresh EXCEPT ![r] = n]
         \/ /\ \E l \in {"consent", "up", "failed"} : pc' = [pc EXCEPT ![r] = l]
            /\ fresh' = fresh
  PROVE IInv'
  <1> USE TokenAssumption DEF IInv
  <1>1. PICK l \in {"create", "consent", "up", "failed"}, n \in Tokens \cup {None} :
          /\ pc' = [pc EXCEPT ![r] = l]
          /\ fresh' = [fresh EXCEPT ![r] = n]
          /\ l = "create" => n \in Tokens
    <2>1. CASE fresh' = fresh
      <3>1. fresh' = [fresh EXCEPT ![r] = fresh[r]]  BY <2>1 DEF TypeOK
      <3>2. fresh[r] \in Tokens \cup {None}  BY DEF TypeOK
      <3>3. \/ \E l \in {"consent", "up", "failed"} : pc' = [pc EXCEPT ![r] = l]
            \/ pc' = [pc EXCEPT ![r] = "create"] /\ fresh[r] \in Tokens
        BY <2>1 DEF TypeOK
      <3> QED BY <3>1, <3>2, <3>3
    <2> QED BY <2>1
  <1>2. TypeOK'
    BY <1>1 DEF TypeOK, files, Saving, Settled
  <1>3. OwnProcess'
    BY <1>1 DEF OwnProcess, TypeOK
  <1>4. OwnName'
    BY <1>1 DEF OwnName, TypeOK, files, Saving
  <1>5. FileWhole'
    BY DEF FileWhole, files
  <1> QED BY <1>2, <1>3, <1>4, <1>5

LEMMA RestoreKeeps ==
  ASSUME IInv, NEW r \in Runs, Restore(r)  PROVE IInv'
  <1>1. CASE /\ Started(r)
             /\ honoured' = (honoured \ {cached[r]}) \cup ({fresh'[r]} \ {None})
    <2>1. consent' \in {"none", "given", "again"}  BY DEF Restore, IInv, TypeOK
    <2>2. fresh'[r] \in Tokens \cup {None}
      BY <1>1, StartedGives DEF IInv, TypeOK
    <2>3. honoured' \subseteq Tokens  BY <1>1, <2>2 DEF IInv, TypeOK
    <2> QED BY <1>1, <2>1, <2>3, StartedGives, AnswerKeeps DEF Restore
  <1>2. CASE /\ Goto(r, "consent")
             /\ mishaps' = IF cached[r] \in honoured THEN mishaps \cup {"portal"}
                           ELSE mishaps
             /\ UNCHANGED <<honoured, issued, fresh>>
    <2>1. mishaps' \subseteq mishaps \cup {"forgotten", "portal"}  BY <1>2
    <2>2. honoured' \subseteq Tokens /\ issued' \in 0..MaxToken
          /\ consent' \in {"none", "given", "again"}
      BY <1>2 DEF Restore, IInv, TypeOK
    <2> QED BY <1>2, <2>1, <2>2, AnswerKeeps DEF Restore, Goto
  <1> QED BY <1>1, <1>2 DEF Restore

LEMMA ConsentKeeps ==
  ASSUME IInv, NEW r \in Runs, Consent(r)  PROVE IInv'
  <1>1. CASE /\ Started(r)
             /\ honoured' = honoured \cup ({fresh'[r]} \ {None})
             /\ consent' = IF consent # "none" THEN "again"
                           ELSE IF fresh'[r] # None THEN "given" ELSE consent
             /\ UNCHANGED files
    <2>1. consent' \in {"none", "given", "again"}  BY <1>1 DEF IInv, TypeOK
    <2>2. fresh'[r] \in Tokens \cup {None}
      BY <1>1, StartedGives DEF IInv, TypeOK
    <2>3. honoured' \subseteq Tokens  BY <1>1, <2>2 DEF IInv, TypeOK
    <2> QED BY <1>1, <2>1, <2>3, StartedGives, AnswerKeeps DEF Consent
  <1>2. CASE Refuse(r)
    <2>1. /\ mishaps' \subseteq mishaps \cup {"forgotten", "portal"}
          /\ honoured' \subseteq Tokens /\ issued' \in 0..MaxToken
          /\ consent' \in {"none", "given", "again"}
      BY <1>2 DEF Refuse, IInv, TypeOK, portal
    <2> QED BY <1>2, <2>1, AnswerKeeps DEF Consent, Refuse, Goto
  <1> QED BY <1>1, <1>2 DEF Consent

------------------------------------------------------------------------------
\* No other call writes to the name of a call that has a process of its own.
LEMMA NamesApart ==
  ASSUME IInv, NEW r \in Runs, pc[r] # "idle"
  PROVE /\ pid[r] \in Pids
        /\ \A q \in Runs : pc[q] # "idle" /\ q # r => pid[q] # pid[r]
  BY DEF IInv, OwnProcess, TypeOK

LEMMA CreateKeeps ==
  ASSUME IInv, NEW r \in Runs, Create(r)  PROVE IInv'
  <1> USE TokenAssumption DEF IInv
  <1>1. pc[r] = "create" /\ pid[r] \in Pids
        /\ \A q \in Runs : pc[q] # "idle" /\ q # r => pid[q] # pid[r]
    BY NamesApart DEF Create
  <1>2. PICK l \in {"write", "up"}, f \in Tokens \cup {None} :
          /\ pc' = [pc EXCEPT ![r] = l]
          /\ tmp' = [tmp EXCEPT ![pid[r]] = f]
          /\ l = "write" => f = fresh[r]
          /\ mishaps' \subseteq mishaps \cup {"io"}
    <2>1. CASE tmp[pid[r]] = None /\ tmp' = [tmp EXCEPT ![pid[r]] = fresh[r]]
                 /\ Goto(r, "write") /\ UNCHANGED mishaps
      BY <1>1, <2>1 DEF Goto, TypeOK
    <2>2. CASE tmp[pid[r]] # None /\ tmp' = [tmp EXCEPT ![pid[r]] = None]
                 /\ Goto(r, "up") /\ UNCHANGED mishaps
      BY <1>1, <2>2 DEF Goto, TypeOK
    <2>3. CASE tmp' \in {tmp, [tmp EXCEPT ![pid[r]] = None]} /\ Goto(r, "up")
                 /\ Befall("io")
      <3>1. tmp = [tmp EXCEPT ![pid[r]] = tmp[pid[r]]] /\ tmp[pid[r]] \in Tokens \cup {None}
        BY <1>1 DEF TypeOK
      <3>2. pc' = [pc EXCEPT ![r] = "up"] /\ mishaps' \subseteq mishaps \cup {"io"}
        BY <2>3 DEF Goto, Befall
      <3> QED BY <2>3, <3>1, <3>2
    <2> QED BY <2>1, <2>2, <2>3 DEF Create
  <1>3. UNCHANGED <<file, written, portal, calls, consent>>
    BY DEF Create
  <1>4. TypeOK'
    BY <1>1, <1>2, <1>3 DEF TypeOK, portal, calls, Saving, Settled
  <1>5. OwnProcess'
    BY <1>1, <1>2, <1>3 DEF OwnProcess, TypeOK, calls
  <1>6. OwnName'
    BY <1>1, <1>2, <1>3 DEF OwnName, TypeOK, calls, Saving
  <1>7. FileWhole'
    BY <1>3 DEF FileWhole
  <1> QED BY <1>4, <1>5, <1>6, <1>7

LEMMA WriteKeeps ==
  ASSUME IInv, NEW r \in Runs, Write(r)  PROVE IInv'
  <1> USE TokenAssumption DEF IInv
  <1>1. pc[r] = "write" /\ pid[r] \in Pids
        /\ \A q \in Runs : pc[q] # "idle" /\ q # r => pid[q] # pid[r]
    BY NamesApart DEF Write
  <1>2. UNCHANGED <<file, portal, calls, consent>>
    BY DEF Write
  <1>3. fresh[r] \in Tokens /\ tmp[pid[r]] = fresh[r]
    BY <1>1 DEF OwnName, Saving
  <1>4. CASE /\ written' = written \cup {fresh[r]} /\ Goto(r, "rename")
             /\ UNCHANGED <<tmp, mishaps>>
    <2>1. TypeOK'  BY <1>2, <1>3, <1>4 DEF TypeOK, portal, calls, Goto, Saving, Settled
    <2>2. OwnProcess'  BY <1>1, <1>2, <1>4 DEF OwnProcess, TypeOK, calls, Goto
    <2>3. OwnName'  BY <1>1, <1>2, <1>3, <1>4 DEF OwnName, TypeOK, calls, Goto, Saving
    <2>4. FileWhole'  BY <1>2, <1>4 DEF FileWhole
    <2> QED BY <2>1, <2>2, <2>3, <2>4
  <1>5. CASE /\ tmp' = [tmp EXCEPT ![pid[r]] = None] /\ Goto(r, "up")
             /\ Befall("io") /\ UNCHANGED written
    <2>1. TypeOK'
      BY <1>1, <1>2, <1>5 DEF TypeOK, portal, calls, Goto, Befall, Saving, Settled
    <2>2. OwnProcess'  BY <1>1, <1>2, <1>5 DEF OwnProcess, TypeOK, calls, Goto
    <2>3. OwnName'  BY <1>1, <1>2, <1>5 DEF OwnName, TypeOK, calls, Goto, Saving
    <2>4. FileWhole'  BY <1>2, <1>5 DEF FileWhole
    <2> QED BY <2>1, <2>2, <2>3, <2>4
  <1> QED BY <1>4, <1>5 DEF Write

\* The file only changes to the new token of the call that renames, and all of
\* that token has been written.
LEMMA RenameKeeps ==
  ASSUME IInv, NEW r \in Runs, Rename(r)
  PROVE IInv' /\ (file' # file => file' = fresh[r])
  <1> USE TokenAssumption DEF IInv
  <1>1. pc[r] = "rename" /\ pid[r] \in Pids
        /\ \A q \in Runs : pc[q] # "idle" /\ q # r => pid[q] # pid[r]
    BY NamesApart DEF Rename
  <1>2. /\ UNCHANGED <<written, portal, calls, consent>>
        /\ pc' = [pc EXCEPT ![r] = "up"]
        /\ tmp' = [tmp EXCEPT ![pid[r]] = None]
    BY DEF Rename, Goto
  <1>3. fresh[r] \in Tokens \cap written /\ tmp[pid[r]] = fresh[r]
    BY <1>1 DEF OwnName, Saving
  <1>4. file' \in {file, fresh[r]} /\ mishaps' \subseteq mishaps \cup {"io"}
    BY <1>3 DEF Rename, Befall
  <1>5. TypeOK'
    BY <1>1, <1>2, <1>3, <1>4 DEF TypeOK, portal, calls, Saving, Settled
  <1>6. OwnProcess'
    BY <1>1, <1>2 DEF OwnProcess, TypeOK, calls
  <1>7. OwnName'
    BY <1>1, <1>2 DEF OwnName, TypeOK, calls, Saving
  <1>8. FileWhole'
    BY <1>2, <1>3, <1>4 DEF FileWhole
  <1> QED BY <1>4, <1>5, <1>6, <1>7, <1>8

LEMMA FinishKeeps ==
  ASSUME IInv, NEW r \in Runs, Finish(r)  PROVE IInv'
  <1> USE TokenAssumption DEF IInv
  <1>1. TypeOK'
    BY DEF Finish, TypeOK, Goto, files, portal, Saving, Settled
  <1>2. OwnProcess'
    BY DEF Finish, OwnProcess, TypeOK, Goto
  <1>3. OwnName'
    BY DEF Finish, OwnName, TypeOK, Goto, files, Saving
  <1>4. FileWhole'
    BY DEF Finish, FileWhole, files
  <1> QED BY <1>1, <1>2, <1>3, <1>4

\* The name of a process that died may still stand for its file; the next call
\* of that process id does not take it for its own.
LEMMA CrashKeeps ==
  ASSUME IInv, NEW k \in Pids, Crash(k)  PROVE IInv'
  <1> USE TokenAssumption DEF IInv
  <1>1. TypeOK'
    BY DEF Crash, TypeOK, Befall, files, portal, Saving, Settled
  <1>2. OwnProcess'
    BY DEF Crash, OwnProcess, TypeOK
  <1>3. OwnName'
    BY DEF Crash, OwnName, TypeOK, files, Saving
  <1>4. FileWhole'
    BY DEF Crash, FileWhole, files
  <1> QED BY <1>1, <1>2, <1>3, <1>4

LEMMA RevokeKeeps ==
  ASSUME IInv, Revoke  PROVE IInv'
  <1> USE DEF IInv
  <1>1. TypeOK'
    BY DEF Revoke, TypeOK, Befall, files, calls
  <1>2. OwnProcess' /\ OwnName' /\ FileWhole'
    BY DEF Revoke, OwnProcess, OwnName, FileWhole, files, calls
  <1> QED BY <1>1, <1>2

LEMMA NextKeeps ==
  ASSUME IInv, ~SharePid, [Next]_vars  PROVE IInv'
  <1>1. CASE UNCHANGED vars
    BY <1>1 DEF IInv, TypeOK, OwnProcess, OwnName, FileWhole, vars, files, portal, calls
  <1>2. ASSUME NEW r \in Runs,
               \/ Load(r) \/ Restore(r) \/ Consent(r) \/ Create(r) \/ Write(r)
               \/ Rename(r) \/ Finish(r)
        PROVE IInv'
    BY <1>2, LoadKeeps, RestoreKeeps, ConsentKeeps, CreateKeeps, WriteKeeps,
       RenameKeeps, FinishKeeps
  <1>3. ASSUME NEW k \in Pids, Crash(k)  PROVE IInv'
    BY <1>3, CrashKeeps
  <1> QED BY <1>1, <1>2, <1>3, RevokeKeeps DEF Next

------------------------------------------------------------------------------
\* Every variable of the token cache keeps its type, and portal.token is whole
\* in every reachable state: save_to may die or overlap at any step.
THEOREM FileIsWhole == ~SharePid /\ Spec => [](TypeOK /\ FileWhole)
  <1> SUFFICES ASSUME ~SharePid PROVE Spec => [](TypeOK /\ FileWhole)
    OBVIOUS
  <1>1. IInv /\ [Next]_vars => IInv'  BY NextKeeps
  <1>2. IInv => TypeOK /\ FileWhole  BY DEF IInv
  <1> QED BY InitEstablishes, <1>1, <1>2, PTL DEF Spec

\* No error, refusal, crash or overlap touches the cached token: portal.token
\* changes only when a call renames its own new token over it.
THEOREM OldFileIsKept == ~SharePid /\ Spec => OldFileKept
  <1> SUFFICES ASSUME ~SharePid PROVE Spec => OldFileKept
    OBVIOUS
  <1>1. IInv /\ [Next]_vars => IInv'  BY NextKeeps
  <1>2. ASSUME IInv, [Next]_vars
        PROVE [file' # file => \E r \in Runs : pc[r] = "rename" /\ file' = fresh[r]]_vars
    <2>1. SUFFICES ASSUME file' # file
          PROVE \E r \in Runs : pc[r] = "rename" /\ file' = fresh[r]
      OBVIOUS
    <2>2. ASSUME NEW r \in Runs, Rename(r)
          PROVE pc[r] = "rename" /\ file' = fresh[r]
      BY <1>2, <2>1, <2>2, RenameKeeps DEF Rename
    <2>3. ASSUME NEW r \in Runs,
                 \/ Load(r) \/ Restore(r) \/ Create(r) \/ Write(r) \/ Finish(r)
          PROVE FALSE
      BY <2>1, <2>3 DEF Load, Restore, Create, Write, Finish, files
    <2>4. ASSUME NEW r \in Runs, Consent(r)  PROVE FALSE
      BY <2>1, <2>4 DEF Consent, Refuse, files
    <2>5. ASSUME NEW k \in Pids, Crash(k)  PROVE FALSE
      BY <2>1, <2>5 DEF Crash, files
    <2>6. ~Revoke /\ ~UNCHANGED vars
      BY <2>1 DEF Revoke, vars, files
    <2> QED BY <1>2, <2>2, <2>3, <2>4, <2>5, <2>6 DEF Next
  <1> QED BY InitEstablishes, <1>1, <1>2, PTL DEF Spec, OldFileKept

------------------------------------------------------------------------------
(* The cached token is usable.                                             *)

Harmless == mishaps \subseteq {"overlap", "portal"}

\* No token is issued twice, and one that is yet to be saved is known to the
\* call that saves it only.
Unused ==
    /\ file \in Tokens => file <= issued
    /\ \A r \in Runs :
          /\ cached[r] \in Tokens => cached[r] <= issued
          /\ fresh[r] \in Tokens => fresh[r] <= issued
          /\ pc[r] \in Saving =>
                /\ file # fresh[r]
                /\ \A q \in Runs : /\ cached[q] # fresh[r]
                                   /\ pc[q] \in Saving /\ fresh[q] = fresh[r] => q = r

\* The portal accepts the tokens that are yet to be saved, a temporary name is
\* that of a call which is saving, and while the file holds a token that has
\* been used some call is about to replace it.
Replacing ==
    /\ \A r \in Runs : pc[r] \in Saving => fresh[r] \in honoured
    /\ \A k \in Pids : tmp[k] # None =>
          \E r \in Runs : pc[r] \in {"write", "rename"} /\ pid[r] = k
    /\ \/ file \in honoured \cup {Junk, None}
       \/ \E r \in Runs : pc[r] \in Saving

UInv == IInv /\ Unused /\ (Harmless => Replacing)

LEMMA InitUsable == Init => UInv
  <1> SUFFICES ASSUME Init PROVE UInv
    OBVIOUS
  <1>1. IInv  BY InitEstablishes
  <1>2. Unused
    BY TokenAssumption DEF Init, Unused, Saving, Tokens
  <1>3. Replacing
    BY DEF Init, Replacing, Saving
  <1> QED BY <1>1, <1>2, <1>3 DEF UInv

LEMMA LoadUsable ==
  ASSUME UInv, ~SharePid, NEW r \in Runs, Load(r)  PROVE UInv'
  <1> USE TokenAssumption DEF UInv
  <1>1. IInv'  BY LoadKeeps
  <1>2. PICK token \in {file, None} :
          /\ cached' = [cached EXCEPT ![r] = token]
          /\ pc' = [pc EXCEPT ![r] = IF token = None THEN "consent" ELSE "restore"]
          /\ mishaps \subseteq mishaps'
    BY DEF Load, Goto, Usable
  <1>3. /\ UNCHANGED <<files, portal, fresh, consent>> /\ pc[r] = "idle"
        /\ \E k \in Pids : pid' = [pid EXCEPT ![r] = k]
    BY DEF Load
  <1>4. Unused'
    BY <1>2, <1>3 DEF Unused, IInv, TypeOK, OwnName, files, portal, Saving
  <1>5. ASSUME Replacing PROVE Replacing'
    BY <1>2, <1>3, <1>5 DEF Replacing, IInv, TypeOK, files, portal, Saving
  <1> QED BY <1>1, <1>2, <1>4, <1>5 DEF Harmless

\* A call that goes on without a new token changes nothing that matters.
LEMMA GoOnUsable ==
  ASSUME UInv, IInv', NEW r \in Runs, UNCHANGED <<file, tmp, cached, fresh, portal>>,
         mishaps \subseteq mishaps', UNCHANGED pid,
         pc[r] \notin Saving,
         NEW l \in {"consent", "up", "failed"}, pc' = [pc EXCEPT ![r] = l]
  PROVE UInv'
  <1> USE DEF UInv
  <1>1. Unused'
    BY DEF Unused, IInv, TypeOK, portal, Saving
  <1>2. ASSUME Replacing PROVE Replacing'
    BY <1>2 DEF Replacing, IInv, TypeOK, portal, Saving
  <1> QED BY <1>1, <1>2 DEF Harmless

\* A call with a new token: the portal takes back the one that was used, which
\* no call is about to save.
LEMMA GivenUsable ==
  ASSUME UInv, IInv', NEW r \in Runs, pc[r] \in {"restore", "consent"},
         UNCHANGED <<file, tmp, cached, pid>>, mishaps \subseteq mishaps',
         issued' = issued + 1, fresh' = [fresh EXCEPT ![r] = issued'],
         pc' = [pc EXCEPT ![r] = "create"],
         honoured' \in {honoured \cup {issued'}, (honoured \ {cached[r]}) \cup {issued'}}
  PROVE UInv'
  <1> USE TokenAssumption DEF UInv
  <1>1. issued \in Nat /\ issued' \in Tokens /\ file \in Tokens \cup {Junk, None}
        /\ \A q \in Runs : cached[q] \in Tokens \cup {None} /\ fresh[q] \in Tokens \cup {None}
    BY DEF IInv, TypeOK, Tokens
  <1>2. Tokens \subseteq Nat /\ None \notin Tokens /\ Junk \notin Tokens
    BY DEF Tokens
  <1>3. \A q \in Runs : pc'[q] \in Saving <=> q = r \/ pc[q] \in Saving
    BY DEF IInv, TypeOK, Saving
  <1>4. fresh'[r] = issued' /\ \A q \in Runs : q # r => fresh'[q] = fresh[q]
    BY DEF IInv, TypeOK
  <1>5. pc[r] \notin Saving
    BY DEF Saving
  <1>6. \A q \in Runs : cached[q] # issued' /\ fresh[q] # issued' /\ file # issued'
    BY <1>1, <1>2 DEF Unused
  <1>7. Unused'
    <2>1. file' \in Tokens => file' <= issued'
      BY <1>1, <1>2 DEF Unused
    <2>2. ASSUME NEW q \in Runs
          PROVE /\ cached'[q] \in Tokens => cached'[q] <= issued'
                /\ fresh'[q] \in Tokens => fresh'[q] <= issued'
      <3>1. cached[q] \in Tokens => cached[q] <= issued + 1
        <4>1. cached[q] \in Tokens => cached[q] <= issued  BY DEF Unused
        <4>2. cached[q] \in Tokens => cached[q] \in Nat  BY <1>2
        <4> HIDE DEF UInv
        <4> QED BY <1>1, <4>1, <4>2
      <3>2. fresh[q] \in Tokens => fresh[q] <= issued + 1
        <4>1. fresh[q] \in Tokens => fresh[q] <= issued  BY DEF Unused
        <4>2. fresh[q] \in Tokens => fresh[q] \in Nat  BY <1>2
        <4> HIDE DEF UInv
        <4> QED BY <1>1, <4>1, <4>2
      <3>3. issued' <= issued'
        BY <1>1
      <3> QED BY <1>4, <3>1, <3>2, <3>3
    <2>3. ASSUME NEW q \in Runs, pc'[q] \in Saving
          PROVE /\ file' # fresh'[q]
                /\ \A o \in Runs : /\ cached'[o] # fresh'[q]
                                   /\ pc'[o] \in Saving /\ fresh'[o] = fresh'[q] => o = q
      <3>1. CASE q = r
        BY <1>4, <1>6, <3>1
      <3>2. CASE q # r
        <4>1. pc[q] \in Saving /\ fresh'[q] = fresh[q]
          BY <1>3, <1>4, <2>3, <3>2
        <4>2. fresh[q] # issued'
          BY <1>6
        <4> QED BY <1>3, <1>4, <4>1, <4>2 DEF Unused
      <3> QED BY <3>1, <3>2
    <2> QED BY <2>1, <2>2, <2>3 DEF Unused
  <1>8. ASSUME Replacing PROVE Replacing'
    <2>1. ASSUME NEW q \in Runs, pc'[q] \in Saving  PROVE fresh'[q] \in honoured'
      <3>1. CASE q = r
        BY <1>4, <3>1
      <3>2. CASE q # r
        <4>1. pc[q] \in Saving /\ fresh'[q] = fresh[q]
          BY <1>3, <1>4, <2>1, <3>2
        <4>2. fresh[q] \in honoured /\ cached[r] # fresh[q]
          <5>1. fresh[q] \in honoured  BY <1>8, <4>1 DEF Replacing
          <5>2. cached[r] # fresh[q]  BY <4>1 DEF Unused
          <5> QED BY <5>1, <5>2
        <4> QED BY <4>1, <4>2
      <3> QED BY <3>1, <3>2
    <2>2. ASSUME NEW k \in Pids, tmp[k] # None
          PROVE \E q \in Runs : pc'[q] \in {"write", "rename"} /\ pid[q] = k
      BY <1>8, <2>2 DEF Replacing, IInv, TypeOK
    <2>3. \E q \in Runs : pc'[q] \in Saving
      BY <1>3
    <2> QED BY <2>1, <2>2, <2>3 DEF Replacing
  <1> QED BY <1>7, <1>8 DEF Harmless

LEMMA RestoreUsable ==
  ASSUME UInv, NEW r \in Runs, Restore(r)  PROVE UInv'
  <1>1. IInv'  BY RestoreKeeps DEF UInv
  <1>2. pc[r] = "restore" /\ UNCHANGED <<files, pid, cached, starts, consent>>
    BY DEF Restore
  <1>3. CASE /\ Started(r)
             /\ honoured' = (honoured \ {cached[r]}) \cup ({fresh'[r]} \ {None})
    <2>1. CASE issued < MaxToken /\ issued' = issued + 1
                /\ fresh' = [fresh EXCEPT ![r] = issued'] /\ Goto(r, "create")
                /\ UNCHANGED mishaps
      <3>1. fresh'[r] = issued' /\ issued' # None
        BY <2>1, <1>1, TokenAssumption DEF UInv, IInv, TypeOK, Tokens
      <3>2. honoured' = (honoured \ {cached[r]}) \cup {issued'}
        BY <1>3, <3>1
      <3> QED BY <1>1, <1>2, <2>1, <3>2, GivenUsable DEF Goto, files
    <2>2. CASE Befall("forgotten") /\ Goto(r, "up") /\ UNCHANGED <<issued, fresh>>
      <3>1. ~Harmless'  BY <2>2 DEF Befall, Harmless
      <3>2. Unused'
        BY <1>2, <2>2 DEF UInv, Unused, IInv, TypeOK, Goto, files, Saving
      <3> QED BY <1>1, <3>1, <3>2 DEF UInv
    <2> QED BY <1>3, <2>1, <2>2 DEF Started
  <1>4. CASE /\ Goto(r, "consent")
             /\ mishaps' = IF cached[r] \in honoured THEN mishaps \cup {"portal"}
                           ELSE mishaps
             /\ UNCHANGED <<honoured, issued, fresh>>
    <2>1. mishaps \subseteq mishaps' /\ pc[r] \notin Saving
      BY <1>2, <1>4 DEF Saving
    <2> QED BY <1>1, <1>2, <1>4, <2>1, GoOnUsable DEF Goto, files, portal
  <1> QED BY <1>3, <1>4 DEF Restore

LEMMA ConsentUsable ==
  ASSUME UInv, NEW r \in Runs, Consent(r)  PROVE UInv'
  <1>1. IInv'  BY ConsentKeeps DEF UInv
  <1>2. pc[r] = "consent" /\ UNCHANGED <<files, pid, cached, starts>>
    BY DEF Consent, Refuse
  <1>3. CASE Started(r) /\ honoured' = honoured \cup ({fresh'[r]} \ {None})
    <2>1. CASE issued < MaxToken /\ issued' = issued + 1
                /\ fresh' = [fresh EXCEPT ![r] = issued'] /\ Goto(r, "create")
                /\ UNCHANGED mishaps
      <3>1. fresh'[r] = issued' /\ issued' # None
        BY <2>1, <1>1, TokenAssumption DEF UInv, IInv, TypeOK, Tokens
      <3>2. honoured' = honoured \cup {issued'}
        BY <1>3, <3>1
      <3> QED BY <1>1, <1>2, <2>1, <3>2, GivenUsable DEF Goto, files
    <2>2. CASE Befall("forgotten") /\ Goto(r, "up") /\ UNCHANGED <<issued, fresh>>
      <3>1. ~Harmless'  BY <2>2 DEF Befall, Harmless
      <3>2. Unused'
        BY <1>2, <2>2 DEF UInv, Unused, IInv, TypeOK, Goto, files, Saving
      <3> QED BY <1>1, <3>1, <3>2 DEF UInv
    <2> QED BY <1>3, <2>1, <2>2 DEF Started
  <1>4. CASE Refuse(r)
    <2>1. pc[r] \notin Saving  BY <1>2 DEF Saving
    <2> QED BY <1>1, <1>2, <1>4, <2>1, GoOnUsable DEF Refuse, Goto, files, portal
  <1> QED BY <1>3, <1>4 DEF Consent

\* A step of a save, and the end of a call, keep the tokens as they are; a call
\* that is saving may stop.
LEMMA UnusedKept ==
  ASSUME UInv, NEW r \in Runs, UNCHANGED <<file, issued>>,
         \A q \in Runs : /\ pc'[q] \in Saving => pc[q] \in Saving /\ fresh'[q] = fresh[q]
                         /\ cached'[q] \in {cached[q], None}
                         /\ fresh'[q] \in {fresh[q], None}
  PROVE Unused'
  <1> USE DEF UInv
  <1>1. \A q \in Runs : pc'[q] \in Saving => fresh'[q] # None
    BY TokenAssumption DEF IInv, OwnName
  <1>2. None \notin Tokens
    BY TokenAssumption
  <1>3. file' \in Tokens => file' <= issued'
    BY DEF Unused
  <1>4. ASSUME NEW q \in Runs
        PROVE /\ cached'[q] \in Tokens => cached'[q] <= issued'
              /\ fresh'[q] \in Tokens => fresh'[q] <= issued'
    BY <1>2 DEF Unused
  <1>5. ASSUME NEW q \in Runs, pc'[q] \in Saving
        PROVE /\ file' # fresh'[q]
              /\ \A o \in Runs : /\ cached'[o] # fresh'[q]
                                 /\ pc'[o] \in Saving /\ fresh'[o] = fresh'[q] => o = q
    <2>1. pc[q] \in Saving /\ fresh'[q] = fresh[q] /\ fresh[q] # None
      BY <1>1, <1>5
    <2>2. /\ file # fresh[q]
          /\ \A o \in Runs : /\ cached[o] # fresh[q]
                             /\ pc[o] \in Saving /\ fresh[o] = fresh[q] => o = q
      BY <2>1 DEF Unused
    <2>3. ASSUME NEW o \in Runs  PROVE cached'[o] # fresh'[q]
      BY <2>1, <2>2
    <2>4. ASSUME NEW o \in Runs, pc'[o] \in Saving, fresh'[o] = fresh'[q]  PROVE o = q
      BY <2>1, <2>2, <2>4
    <2> QED BY <2>1, <2>2, <2>3, <2>4
  <1> QED BY <1>3, <1>4, <1>5 DEF Unused

LEMMA CreateUsable ==
  ASSUME UInv, NEW r \in Runs, Create(r)  PROVE UInv'
  <1>1. IInv'  BY CreateKeeps DEF UInv
  <1>2. pc[r] = "create" /\ UNCHANGED <<file, written, portal, calls, consent>>
        /\ mishaps \subseteq mishaps' /\ pid[r] \in Pids
        /\ \E l \in {"write", "up"} : pc' = [pc EXCEPT ![r] = l]
    BY NamesApart DEF UInv, Create, Goto, Befall
  <1>3. Unused'
    <2>1. \A q \in Runs : pc'[q] \in Saving => pc[q] \in Saving
      BY <1>2 DEF UInv, IInv, TypeOK, Saving
    <2> QED BY <1>2, <2>1, UnusedKept DEF portal, calls
  <1>4. ASSUME Harmless, Harmless', Replacing PROVE Replacing'
    <2>1. tmp[pid[r]] = None
      <3>1. SUFFICES ASSUME tmp[pid[r]] # None PROVE FALSE
        OBVIOUS
      <3>2. PICK q \in Runs : pc[q] \in {"write", "rename"} /\ pid[q] = pid[r]
        BY <1>2, <1>4, <3>1 DEF Replacing
      <3>3. q = r
        BY <1>2, <3>2, TokenAssumption DEF UInv, IInv, OwnProcess
      <3> QED BY <1>2, <3>2, <3>3
    <2>2. tmp' = [tmp EXCEPT ![pid[r]] = fresh[r]] /\ pc' = [pc EXCEPT ![r] = "write"]
      BY <1>4, <2>1 DEF Create, Goto, Befall, Harmless
    <2> QED BY <1>2, <1>4, <2>2 DEF Replacing, UInv, IInv, TypeOK, portal, calls, Saving
  <1> QED BY <1>1, <1>2, <1>3, <1>4 DEF UInv, Harmless

LEMMA WriteUsable ==
  ASSUME UInv, NEW r \in Runs, Write(r)  PROVE UInv'
  <1>1. IInv'  BY WriteKeeps DEF UInv
  <1>2. pc[r] = "write" /\ UNCHANGED <<file, portal, calls, consent>>
        /\ mishaps \subseteq mishaps'
        /\ \E l \in {"rename", "up"} : pc' = [pc EXCEPT ![r] = l]
    BY DEF Write, Goto, Befall
  <1>3. Unused'
    <2>1. \A q \in Runs : pc'[q] \in Saving => pc[q] \in Saving
      BY <1>2 DEF UInv, IInv, TypeOK, Saving
    <2> QED BY <1>2, <2>1, UnusedKept DEF portal, calls
  <1>4. ASSUME Harmless', Replacing PROVE Replacing'
    <2>1. tmp' = tmp /\ pc' = [pc EXCEPT ![r] = "rename"]
      BY <1>4 DEF Write, Goto, Befall, Harmless
    <2> QED BY <1>2, <1>4, <2>1 DEF Replacing, UInv, IInv, TypeOK, portal, calls, Saving
  <1> QED BY <1>1, <1>2, <1>3, <1>4 DEF UInv, Harmless

\* The rename puts an accepted token in the place of whatever was there.
LEMMA RenameUsable ==
  ASSUME UInv, NEW r \in Runs, Rename(r)  PROVE UInv'
  <1> USE TokenAssumption
  <1>1. IInv'  BY RenameKeeps DEF UInv
  <1>2. pc[r] = "rename" /\ UNCHANGED <<written, portal, calls, consent>>
        /\ pc' = [pc EXCEPT ![r] = "up"] /\ tmp' = [tmp EXCEPT ![pid[r]] = None]
        /\ mishaps \subseteq mishaps'
    BY DEF Rename, Goto, Befall
  <1>3. fresh[r] \in Tokens /\ tmp[pid[r]] = fresh[r] /\ file' \in {file, fresh[r]}
        /\ pid[r] \in Pids
        /\ \A q \in Runs : pc[q] # "idle" /\ q # r => pid[q] # pid[r]
    BY <1>2, NamesApart, RenameKeeps DEF UInv, IInv, OwnName, Saving
  <1>4. \A q \in Runs : pc'[q] \in Saving => q # r /\ pc[q] \in Saving
    BY <1>2 DEF UInv, IInv, TypeOK, Saving
  <1>5. pc[r] \in Saving
    BY <1>2 DEF Saving
  <1>6. Unused'
    <2>1. UNCHANGED <<cached, fresh, issued>>
      BY <1>2 DEF portal, calls
    <2>2. file' \in Tokens => file' <= issued'
      BY <1>3, <2>1 DEF UInv, Unused
    <2>3. ASSUME NEW q \in Runs
          PROVE /\ cached'[q] \in Tokens => cached'[q] <= issued'
                /\ fresh'[q] \in Tokens => fresh'[q] <= issued'
      BY <2>1 DEF UInv, Unused
    <2>4. ASSUME NEW q \in Runs, pc'[q] \in Saving
          PROVE /\ file' # fresh'[q]
                /\ \A o \in Runs : /\ cached'[o] # fresh'[q]
                                   /\ pc'[o] \in Saving /\ fresh'[o] = fresh'[q] => o = q
      <3>1. q # r /\ pc[q] \in Saving
        BY <1>4, <2>4
      <3>2. fresh[q] # fresh[r]
        BY <1>5, <3>1 DEF UInv, Unused
      <3>3. file # fresh[q]
        BY <3>1 DEF UInv, Unused
      <3>4. \A o \in Runs : /\ cached[o] # fresh[q]
                            /\ pc[o] \in Saving /\ fresh[o] = fresh[q] => o = q
        BY <3>1 DEF UInv, Unused
      <3> QED BY <1>3, <1>4, <2>1, <3>2, <3>3, <3>4
    <2> QED BY <2>2, <2>3, <2>4 DEF Unused
  <1>7. ASSUME Harmless', Replacing PROVE Replacing'
    <2>1. file' = fresh[r]
      BY <1>3, <1>7 DEF Rename, Befall, Harmless
    <2>2. file' \in honoured'
      BY <1>2, <1>5, <1>7, <2>1 DEF Replacing, portal
    <2>3. \A q \in Runs : pc'[q] \in Saving => fresh'[q] \in honoured'
      BY <1>2, <1>4, <1>7 DEF Replacing, portal, calls
    <2>4. ASSUME NEW k \in Pids, tmp'[k] # None
          PROVE \E q \in Runs : pc'[q] \in {"write", "rename"} /\ pid'[q] = k
      <3>1. k # pid[r] /\ tmp[k] # None
        BY <1>2, <1>3, <2>4 DEF UInv, IInv, TypeOK
      <3>2. PICK q \in Runs : pc[q] \in {"write", "rename"} /\ pid[q] = k
        BY <1>7, <3>1 DEF Replacing
      <3> QED BY <1>2, <3>1, <3>2 DEF UInv, IInv, TypeOK, calls
    <2> QED BY <2>2, <2>3, <2>4 DEF Replacing
  <1> QED BY <1>1, <1>2, <1>6, <1>7 DEF UInv, Harmless

LEMMA FinishUsable ==
  ASSUME UInv, NEW r \in Runs, Finish(r)  PROVE UInv'
  <1>1. IInv'  BY FinishKeeps DEF UInv
  <1>2. \A q \in Runs : pc'[q] \in Saving <=> pc[q] \in Saving
    BY DEF Finish, Goto, UInv, IInv, TypeOK, Saving
  <1>3. ASSUME NEW q \in Runs, pc[q] \in Saving
        PROVE q # r /\ pc'[q] = pc[q] /\ pid'[q] = pid[q] /\ fresh'[q] = fresh[q]
    BY <1>3 DEF Finish, Goto, UInv, IInv, TypeOK, Saving
  <1>4. Unused'
    <2>1. \A q \in Runs : cached'[q] \in {cached[q], None} /\ fresh'[q] \in {fresh[q], None}
      BY DEF Finish, UInv, IInv, TypeOK
    <2>2. UNCHANGED <<file, issued>>
      BY DEF Finish, files, portal
    <2> QED BY <1>2, <1>3, <2>1, <2>2, UnusedKept
  <1>5. ASSUME Replacing PROVE Replacing'
    <2>1. UNCHANGED <<file, tmp, honoured>>
      BY DEF Finish, files, portal
    <2>2. \A q \in Runs : pc[q] \in {"write", "rename"} =>
                           pc'[q] \in {"write", "rename"} /\ pid'[q] = pid[q]
      BY <1>3 DEF Saving
    <2> QED BY <1>2, <1>3, <1>5, <2>1, <2>2 DEF Replacing
  <1>6. mishaps' = mishaps
    BY DEF Finish
  <1> QED BY <1>1, <1>4, <1>5, <1>6 DEF UInv, Harmless

LEMMA CrashUsable ==
  ASSUME UInv, NEW k \in Pids, Crash(k)  PROVE UInv'
  <1>1. IInv'  BY CrashKeeps DEF UInv
  <1>2. ~Harmless'  BY DEF Crash, Befall, Harmless
  <1>3. PICK r \in Runs : pid[r] = k
    BY DEF Crash
  <1>4. Unused'
    <2>1. \A q \in Runs : cached'[q] \in {cached[q], None} /\ fresh'[q] \in {fresh[q], None}
      BY DEF Crash
    <2>2. UNCHANGED <<file, issued>>
      BY DEF Crash, files, portal
    <2>3. \A q \in Runs : pc'[q] \in Saving => pc[q] \in Saving /\ fresh'[q] = fresh[q]
      BY DEF Crash, Saving
    <2> QED BY <2>1, <2>2, <2>3, UnusedKept
  <1> QED BY <1>1, <1>2, <1>4 DEF UInv

LEMMA NextUsable ==
  ASSUME UInv, ~SharePid, [Next]_vars  PROVE UInv'
  <1>1. CASE UNCHANGED vars
    <2>1. IInv'  BY <1>1, NextKeeps DEF UInv
    <2>2. Unused' /\ (Harmless' => Replacing')
      BY <1>1 DEF UInv, Unused, Harmless, Replacing, vars, files, portal, calls
    <2> QED BY <2>1, <2>2 DEF UInv
  <1>2. CASE Revoke
    <2>1. IInv'  BY <1>2, RevokeKeeps DEF UInv
    <2>2. ~Harmless'  BY <1>2 DEF Revoke, Befall, Harmless
    <2>3. Unused'  BY <1>2 DEF UInv, Unused, Revoke, files, calls
    <2> QED BY <2>1, <2>2, <2>3 DEF UInv
  <1>3. ASSUME NEW r \in Runs,
               \/ Load(r) \/ Restore(r) \/ Consent(r) \/ Create(r) \/ Write(r)
               \/ Rename(r) \/ Finish(r)
        PROVE UInv'
    BY <1>3, LoadUsable, RestoreUsable, ConsentUsable, CreateUsable, WriteUsable,
       RenameUsable, FinishUsable
  <1>4. ASSUME NEW k \in Pids, Crash(k)  PROVE UInv'
    BY <1>4, CrashUsable
  <1> QED BY <1>1, <1>2, <1>3, <1>4 DEF Next

\* However many processes start at once, use the same token and save in any
\* order: when none is under way, portal.token is a token the portal accepts.
THEOREM CachedTokenUsable == ~SharePid /\ Spec => []TokenUsable
  <1> SUFFICES ASSUME ~SharePid PROVE Spec => []TokenUsable
    OBVIOUS
  <1>1. UInv /\ [Next]_vars => UInv'  BY NextUsable
  <1>2. UInv => TokenUsable
    BY DEF UInv, Harmless, Replacing, TokenUsable, Saving, Settled
  <1> QED BY InitUsable, <1>1, <1>2, PTL DEF Spec

------------------------------------------------------------------------------
(* Only the first run asks.                                                *)

Undisturbed == mishaps = {}

\* One call is under way at most; a token it goes on with is one the portal
\* accepts, it asks only if nobody has been asked, and once the user has
\* consented the token is in the file or in the hands of the call that saves it.
Silent ==
    /\ \A r, q \in Runs : pc[r] \notin Settled /\ pc[q] \notin Settled => q = r
    /\ consent # "again"
    /\ \A r \in Runs : /\ pc[r] = "restore" => cached[r] \in honoured
                       /\ pc[r] = "consent" => consent = "none"
    /\ consent = "given" => file \in written \/ \E r \in Runs : pc[r] \in Saving

PInv == UInv /\ (Undisturbed => Silent)

LEMMA InitAsksOnce == Init => PInv
  <1> SUFFICES ASSUME Init PROVE PInv
    OBVIOUS
  <1>1. UInv  BY InitUsable
  <1>2. Silent  BY DEF Init, Silent, Settled
  <1> QED BY <1>1, <1>2 DEF PInv

\* A call that starts by itself finds the token that was saved, whole, and the
\* portal accepts it.
LEMMA LoadAsksOnce ==
  ASSUME UInv, Undisturbed, Silent, NEW r \in Runs, Load(r), Undisturbed'
  PROVE Silent'
  <1> USE TokenAssumption
  <1>1. Replacing /\ IInv
    BY DEF UInv, Harmless, Undisturbed
  <1>2. UNCHANGED <<files, portal, consent>> /\ \A q \in Runs : pc[q] \in Settled
    BY DEF Load, Undisturbed
  <1>3. cached' = [cached EXCEPT ![r] = Usable(file)]
        /\ pc' = [pc EXCEPT ![r] = IF Usable(file) = None THEN "consent" ELSE "restore"]
    BY DEF Load, Undisturbed, Goto
  <1>4. \A q \in Runs : pc[q] \notin Saving
    BY <1>2 DEF Saving, Settled
  <1>5. Usable(file) # None => Usable(file) \in honoured
    BY <1>1, <1>4 DEF Replacing, Usable, IInv, TypeOK
  <1>6. Usable(file) = None => consent = "none"
    BY <1>1, <1>4 DEF Silent, Usable, IInv, TypeOK
  <1>7. \A q \in Runs : q # r => pc'[q] \in Settled
    BY <1>1, <1>2, <1>3 DEF IInv, TypeOK
  <1>8. /\ pc'[r] = "restore" => cached'[r] \in honoured'
        /\ pc'[r] = "consent" => consent' = "none"
    BY <1>1, <1>2, <1>3, <1>5, <1>6 DEF IInv, TypeOK, portal
  <1>9. consent' = "given" => file' \in written'
    BY <1>2, <1>4 DEF Silent, files
  <1> QED BY <1>2, <1>7, <1>8, <1>9 DEF Silent, Settled

\* The portal accepts the token and gives the next one, or nothing is as it
\* should be.
LEMMA RestoreAsksOnce ==
  ASSUME UInv, Undisturbed, Silent, NEW r \in Runs, Restore(r), Undisturbed'
  PROVE Silent'
  <1>1. IInv  BY DEF UInv
  <1>2. pc[r] = "restore" /\ cached[r] \in honoured /\ UNCHANGED <<files, cached, consent>>
    BY DEF Restore, Silent
  <1>3. Started(r)
    BY <1>2 DEF Restore, Undisturbed
  <1>4. pc' = [pc EXCEPT ![r] = "create"]
    BY <1>3 DEF Started, Undisturbed, Befall, Goto
  <1>5. pc'[r] = "create" /\ \A q \in Runs : q # r => pc'[q] = pc[q] /\ pc[q] \in Settled
    BY <1>1, <1>2, <1>4 DEF IInv, TypeOK, Silent, Settled
  <1> QED BY <1>2, <1>5 DEF Silent, Settled, Saving

\* The one dialog.
LEMMA ConsentAsksOnce ==
  ASSUME UInv, Undisturbed, Silent, NEW r \in Runs, Consent(r), Undisturbed'
  PROVE Silent'
  <1>1. IInv  BY DEF UInv
  <1>2. pc[r] = "consent" /\ consent = "none" /\ UNCHANGED <<files, cached>>
    BY DEF Consent, Refuse, Silent
  <1>3. CASE Refuse(r)
    <2>1. pc' = [pc EXCEPT ![r] = "failed"] /\ consent' = "none"
      BY <1>2, <1>3 DEF Refuse, Goto
    <2>2. pc'[r] = "failed" /\ \A q \in Runs : q # r => pc'[q] = pc[q] /\ pc[q] \in Settled
      BY <1>1, <1>2, <2>1 DEF IInv, TypeOK, Silent, Settled
    <2> QED BY <2>1, <2>2 DEF Silent, Settled
  <1>4. CASE /\ Started(r)
             /\ consent' = IF consent # "none" THEN "again"
                           ELSE IF fresh'[r] # None THEN "given" ELSE consent
    <2>1. pc' = [pc EXCEPT ![r] = "create"] /\ consent' \in {"none", "given"}
      BY <1>2, <1>4 DEF Started, Undisturbed, Befall, Goto
    <2>2. pc'[r] = "create" /\ \A q \in Runs : q # r => pc'[q] = pc[q] /\ pc[q] \in Settled
      BY <1>1, <1>2, <2>1 DEF IInv, TypeOK, Silent, Settled
    <2> QED BY <2>1, <2>2 DEF Silent, Settled, Saving
  <1> QED BY <1>3, <1>4 DEF Consent

\* The steps of the save: with no error the name is free, and the rename finds
\* what was written.
LEMMA SaveAsksOnce ==
  ASSUME UInv, Undisturbed, Silent, NEW r \in Runs,
         Create(r) \/ Write(r) \/ Rename(r), Undisturbed'
  PROVE Silent'
  <1> USE TokenAssumption
  <1>1. Replacing /\ IInv
    BY DEF UInv, Harmless, Undisturbed
  <1>2. pc[r] \in Saving /\ UNCHANGED <<honoured, cached, consent>>
        /\ pid[r] \in Pids /\ fresh[r] \in Tokens
    BY <1>1, NamesApart DEF Create, Write, Rename, Saving, portal, calls, IInv, OwnName
  <1>3. \/ \E l \in {"write", "rename"} : pc' = [pc EXCEPT ![r] = l]
        \/ pc' = [pc EXCEPT ![r] = "up"] /\ file' \in written'
    <2>1. CASE Create(r)
      <3>1. tmp[pid[r]] = None
        <4>1. SUFFICES ASSUME tmp[pid[r]] # None PROVE FALSE
          OBVIOUS
        <4>2. PICK q \in Runs : pc[q] \in {"write", "rename"} /\ pid[q] = pid[r]
          BY <1>1, <1>2, <4>1 DEF Replacing
        <4>3. q = r
          BY <1>1, <1>2, <4>2 DEF IInv, OwnProcess
        <4> QED BY <2>1, <4>2, <4>3 DEF Create
      <3> QED BY <2>1, <3>1 DEF Create, Goto, Befall, Undisturbed
    <2>2. CASE Write(r)
      BY <2>2 DEF Write, Goto, Befall, Undisturbed
    <2>3. CASE Rename(r)
      <3>1. tmp[pid[r]] = fresh[r] /\ fresh[r] \in written /\ written' = written
        BY <1>1, <2>3 DEF Rename, IInv, OwnName
      <3>2. file' = fresh[r]
        BY <1>2, <2>3, <3>1 DEF Rename, Befall, Undisturbed
      <3> QED BY <2>3, <3>1, <3>2 DEF Rename, Goto
    <2> QED BY <2>1, <2>2, <2>3
  <1>4. \A q \in Runs : q # r => pc'[q] = pc[q] /\ pc[q] \in Settled
    BY <1>1, <1>2, <1>3 DEF IInv, TypeOK, Silent, Saving, Settled
  <1>5. pc'[r] \in {"write", "rename"} \/ (pc'[r] = "up" /\ file' \in written')
    BY <1>1, <1>3 DEF IInv, TypeOK
  <1> QED BY <1>2, <1>4, <1>5 DEF Silent, Settled, Saving

LEMMA FinishAsksOnce ==
  ASSUME UInv, Silent, NEW r \in Runs, Finish(r)
  PROVE Silent'
  <1>1. IInv  BY DEF UInv
  <1>2. pc[r] \in {"up", "failed"} /\ pc' = [pc EXCEPT ![r] = "idle"]
        /\ cached' = [cached EXCEPT ![r] = None] /\ UNCHANGED <<files, portal, consent>>
    BY DEF Finish, Goto
  <1>3. pc'[r] = "idle" /\ \A q \in Runs : q # r => pc'[q] = pc[q] /\ cached'[q] = cached[q]
    BY <1>1, <1>2 DEF IInv, TypeOK
  <1>4. \A q \in Runs : pc[q] \in Saving => pc'[q] \in Saving
    BY <1>2, <1>3 DEF Saving
  <1> QED BY <1>2, <1>3, <1>4 DEF Silent, Settled, files, portal

LEMMA NextAsksOnce ==
  ASSUME PInv, ~SharePid, [Next]_vars  PROVE PInv'
  <1>1. UInv'  BY NextUsable DEF PInv
  <1>2. ASSUME Undisturbed'  PROVE Silent'
    <2>1. CASE UNCHANGED vars
      BY <1>2, <2>1 DEF PInv, Undisturbed, Silent, vars, files, portal, calls
    <2>2. ASSUME NEW k \in Pids, Crash(k)  PROVE FALSE
      BY <1>2, <2>2 DEF Undisturbed, Crash, Befall
    <2>3. ~Revoke
      BY <1>2 DEF Undisturbed, Revoke, Befall
    <2>4. ASSUME NEW r \in Runs,
                 \/ Load(r) \/ Restore(r) \/ Consent(r) \/ Create(r) \/ Write(r)
                 \/ Rename(r) \/ Finish(r)
          PROVE Silent'
      <3>1. Undisturbed
        <4>1. CASE Load(r)  BY <1>2, <4>1 DEF Load, Undisturbed
        <4>2. CASE Restore(r) \/ Consent(r)
          BY <1>2, <4>2 DEF Restore, Consent, Started, Refuse, Befall, Undisturbed
        <4>3. CASE Create(r) \/ Write(r) \/ Rename(r) \/ Finish(r)
          BY <1>2, <4>3 DEF Create, Write, Rename, Finish, Befall, Undisturbed
        <4> QED BY <2>4, <4>1, <4>2, <4>3
      <3>2. UInv /\ Silent
        BY <3>1 DEF PInv
      <3> QED BY <1>2, <2>4, <3>1, <3>2, LoadAsksOnce, RestoreAsksOnce, ConsentAsksOnce,
              SaveAsksOnce, FinishAsksOnce
    <2> QED BY <2>1, <2>2, <2>3, <2>4 DEF Next
  <1> QED BY <1>1, <1>2 DEF PInv

\* "The first run prompts once, every subsequent run is silent": in a behaviour
\* in which calls follow each other and nothing outside fails, the dialog that
\* yields a token is the last one.
THEOREM OnlyTheFirstAsks == ~SharePid /\ Spec => []PromptsOnce
  <1> SUFFICES ASSUME ~SharePid PROVE Spec => []PromptsOnce
    OBVIOUS
  <1>1. PInv /\ [Next]_vars => PInv'  BY NextAsksOnce
  <1>2. PInv => PromptsOnce
    BY DEF PInv, Undisturbed, Silent, PromptsOnce
  <1> QED BY InitAsksOnce, <1>1, <1>2, PTL DEF Spec
==============================================================================
