-------------------------- MODULE BackendBuildProofs --------------------------
(***************************************************************************)
(* Proofs about BackendBuild: libei fails to start at most once, and the   *)
(* backend that build returns is the first that starts.                    *)
(***************************************************************************)
EXTENDS BackendBuild, TLAPS

Opening == {"open", "asking", "connect", "wait"}
Trying == Opening \cup {"bridge", "start"}
Outcomes == {"untried", "failed", "skipped", "up"}

\* How many kinds of the list have been taken from it.
Taken == Len(List) - Len(todo)

\* The environment and the command line.
Chosen ==
    /\ env \in SUBSET {"wlr", "KDE", "GNOME"}
    /\ forced \in Kinds \cup {"no"}

Typed ==
    /\ Chosen
    /\ todo \in Seq(Kinds)
    /\ step \in Trying \cup {"next", "error", "built"}
    /\ outcome \in [Kinds -> Outcomes]
    /\ asked \in Nat /\ waits \in Nat
    /\ failed \in BOOLEAN /\ token \in BOOLEAN /\ tokens \in BOOLEAN /\ lost \in BOOLEAN

\* What is left to try is the end of the list, and what is being tried is the
\* kind before it.
InList ==
    /\ Len(todo) <= Len(List)
    /\ \A i \in 1..Len(todo) : todo[i] = List[Taken + i]
    /\ step \in Trying \cup {"built"} => Taken >= 1 /\ at = List[Taken]
    /\ step = "error" => Len(todo) = 0

\* A libei start under way is the first that could fail; what builds on libei
\* comes before all else.
Starts ==
    /\ waits <= 1
    /\ failed <=> waits = 1
    /\ step \in Opening => waits = 0
    /\ Taken = 0 => waits = 0

\* A kind shows one dialog, and two kinds of the list at most.  One that has
\* been shown is still open, or has brought a token, or was the end of libei.
Dialogs ==
    /\ asked <= 2 /\ asked <= Taken
    /\ step = "open" => asked < Taken /\ Taken <= 2
    /\ tokens /\ ~lost =>
          /\ asked <= 1
          /\ asked = 1 => step = "asking" \/ token \/ waits = 1

\* Whatever was taken, and is not being tried or up, was tried in vain.
InVain ==
    /\ \A j \in 1..Taken : (j < Taken \/ step \in {"next", "error"}) => Tried(List[j])
    /\ step = "built" => outcome[at] = "up"

Inv == Typed /\ InList /\ Starts /\ Dialogs /\ InVain

------------------------------------------------------------------------------
\* Every list of kinds to try (priority, or the kind that was forced) names a
\* kind once, and what builds on libei first.
LEMMA ChosenList ==
    ASSUME Chosen
    PROVE  /\ List \in Seq(Kinds) /\ Len(List) >= 1
           /\ \A i, j \in 1..Len(List) : List[i] = List[j] => i = j
           /\ \A i \in 2..Len(List) : List[i] \notin Composing
           /\ \A i \in 1..Len(List) : List[i] \in OverLibei => i <= 2
<1>1. CASE forced # "no"
  <2>1. List = <<forced>> /\ forced \in Kinds
    BY <1>1 DEF List, Chosen
  <2> QED BY <2>1
<1>2. CASE forced = "no"
  <2>1. List = Priority(env)
    BY <1>2 DEF List
  <2>2. CASE "wlr" \in env
    <3>1. List = <<"WlrProtocols", "Libei", "Uinput">>
      BY <2>1, <2>2 DEF Priority
    <3> QED BY <3>1 DEF Kinds, Composing, OverLibei
  <2>3. CASE "wlr" \notin env /\ "KDE" \in env
    <3>1. List = <<"KdeDBus", "Libei", "WlrProtocols", "Uinput">>
      BY <2>1, <2>3 DEF Priority
    <3> QED BY <3>1 DEF Kinds, Composing, OverLibei
  <2>4. CASE "wlr" \notin env /\ "KDE" \notin env /\ "GNOME" \in env
    <3>1. List = <<"GnomeExt", "Libei", "WlrProtocols", "Uinput">>
      BY <2>1, <2>4 DEF Priority
    <3> QED BY <3>1 DEF Kinds, Composing, OverLibei
  <2>5. CASE "wlr" \notin env /\ "KDE" \notin env /\ "GNOME" \notin env
    <3>1. List = <<"Libei", "WlrProtocols", "Uinput">>
      BY <2>1, <2>5 DEF Priority
    <3> QED BY <3>1 DEF Kinds, Composing, OverLibei
  <2> QED BY <2>2, <2>3, <2>4, <2>5
<1> QED BY <1>1, <1>2

\* The same, of a state that is typed.
LEMMA ListShape ==
    ASSUME Typed
    PROVE  /\ List \in Seq(Kinds) /\ Len(List) >= 1
           /\ \A i, j \in 1..Len(List) : List[i] = List[j] => i = j
           /\ \A i \in 2..Len(List) : List[i] \notin Composing
           /\ \A i \in 1..Len(List) : List[i] \in OverLibei => i <= 2
BY ChosenList DEF Typed

\* What a step that leaves the list alone leaves of it.
LEMMA ListKept ==
    ASSUME UNCHANGED <<env, forced, todo>>
    PROVE  List' = List /\ Taken' = Taken
BY DEF List, Taken, Priority

------------------------------------------------------------------------------
\* A kind is tried in vain: libei, or something else.
LEMMA FailKeeps ==
    ASSUME Inv, NEW L \in BOOLEAN, step \in Trying, L => step \in Opening,
           Fail(L), UNCHANGED <<env, forced, todo, at, tokens, asked>>,
           {token', lost'} \subseteq BOOLEAN, lost => lost', token => token' \/ lost',
           ~L => step # "asking"
    PROVE  Inv'
<1> USE DEF Inv
<1>1. List' = List /\ Taken' = Taken
  BY ListKept
<1>2. step' = "next" /\ at \in Kinds /\ outcome' = [outcome EXCEPT ![at] = "failed"]
  BY ListShape DEF Fail, InList, Typed, Trying, Opening, Taken
<1>3. waits' = (IF L THEN waits + 1 ELSE waits) /\ failed' = (failed \/ L)
  BY DEF Fail, IsLibeiFailure
<1>4. Typed'
  BY <1>2, <1>3 DEF Typed, Outcomes, Trying, Chosen
<1>5. InList'
  BY <1>1, <1>2 DEF InList, Trying, Opening
<1>6. Starts'
  BY <1>1, <1>2, <1>3 DEF Starts, Opening, Typed, InList
<1>7. Dialogs'
  BY <1>1, <1>2, <1>3 DEF Dialogs, Typed, Starts, Opening, Trying
<1>8. InVain'
  <2>1. ASSUME NEW j \in 1..Taken
        PROVE  Tried(List[j])'
    <3>1. Taken \in Nat /\ Taken <= Len(List) /\ List[j] \in Kinds /\ at = List[Taken]
      BY ListShape DEF InList, Taken, Typed
    <3>2. CASE j = Taken
      <4>1. outcome'[List[j]] = "failed" /\ List'[j] = List[j]
        BY <1>1, <1>2, <3>1, <3>2 DEF Typed
      <4> QED BY <4>1 DEF Tried
    <3>3. CASE j < Taken
      <4>1. Tried(List[j]) /\ List[j] # at
        BY <3>1, <3>3, ListShape DEF InVain
      <4>2. outcome'[List[j]] = outcome[List[j]] /\ waits' >= waits
        BY <1>2, <1>3, <3>1, <4>1 DEF Typed
      <4> QED BY <1>1, <1>4, <4>1, <4>2 DEF Tried, Typed
    <3> QED BY <3>1, <3>2, <3>3
  <2> QED BY <1>1, <1>2, <2>1 DEF InVain
<1> QED BY <1>4, <1>5, <1>6, <1>7, <1>8

\* The kind that is tried has started.
LEMMA SucceedKeeps ==
    ASSUME Inv, step \in Trying, Succeed,
           UNCHANGED <<env, forced, todo, at, tokens, token, lost, asked>>,
           step # "asking"
    PROVE  Inv'
<1> USE DEF Inv
<1>1. List' = List /\ Taken' = Taken
  BY ListKept
<1>2. /\ step' = "built" /\ at \in Kinds
      /\ outcome' = [outcome EXCEPT ![at] = "up"]
      /\ waits' = waits /\ failed' = failed
  BY ListShape DEF Succeed, InList, Typed, Trying, Opening, Taken
<1>3. Typed'
  BY <1>2 DEF Typed, Outcomes, Trying, Chosen
<1>4. InList'
  BY <1>1, <1>2 DEF InList, Trying, Opening
<1>5. Starts'
  BY <1>1, <1>2 DEF Starts, Opening
<1>6. Dialogs'
  BY <1>1, <1>2 DEF Dialogs
<1>7. InVain'
  <2>1. ASSUME NEW j \in 1..Taken, j < Taken
        PROVE  Tried(List[j])'
    <3>1. Taken \in Nat /\ Taken <= Len(List) /\ List[j] \in Kinds /\ at = List[Taken]
      BY ListShape DEF InList, Taken, Typed, Trying
    <3>2. Tried(List[j]) /\ List[j] # at
      BY <2>1, <3>1, ListShape DEF InVain
    <3>3. outcome'[List[j]] = outcome[List[j]]
      BY <1>2, <3>1, <3>2 DEF Typed
    <3> QED BY <1>1, <1>2, <3>2, <3>3 DEF Tried
  <2> QED BY <1>1, <1>2, <2>1 DEF InVain, Typed
<1> QED BY <1>3, <1>4, <1>5, <1>6, <1>7

\* The try goes on: nothing of the detector changes, and no new dialog opens.
LEMMA GoesOn ==
    ASSUME Inv, step \in Trying, step' \in Trying,
           UNCHANGED <<env, forced, todo, at, failed, outcome, waits, tokens, asked>>,
           {token', lost'} \subseteq BOOLEAN, lost => lost', token => token' \/ lost',
           step' \in Opening => step \in Opening, step' # "open",
           step = "asking" => token' \/ lost'
    PROVE  Inv'
<1> USE DEF Inv
<1>1. List' = List /\ Taken' = Taken
  BY ListKept
<1>2. Typed'
  BY DEF Typed, Chosen
<1>3. InList'
  BY <1>1 DEF InList, Trying, Opening
<1>4. Starts'
  BY <1>1 DEF Starts
<1>5. Dialogs'
  BY <1>1 DEF Dialogs, Typed
<1>6. InVain'
  <2>1. \A j \in 1..Taken : Tried(List[j])' <=> Tried(List[j])
    BY <1>1 DEF Tried
  <2> QED BY <1>1, <2>1 DEF InVain, Trying, Opening
<1> QED BY <1>2, <1>3, <1>4, <1>5, <1>6

\* The detector is not concerned.
LEMMA Aside ==
    ASSUME Inv, UNCHANGED <<env, forced, todo, at, step, failed, outcome, waits, dialog>>
    PROVE  Inv'
<1>1. List' = List /\ Taken' = Taken
  BY ListKept
<1>2. \A k : Tried(k)' <=> Tried(k)
  BY DEF Tried
<1>3. InVain'
  BY <1>1, <1>2 DEF Inv, InVain
<1> QED BY <1>1, <1>3 DEF Inv, Typed, Chosen, InList, Starts, Dialogs, dialog

------------------------------------------------------------------------------
(* The steps of the detector.                                              *)

\* The next kind of the list is tried, or is libei and is skipped.
LEMMA TryNextKeeps == ASSUME Inv, TryNext PROVE Inv'
<1> USE DEF Inv
<1>1. /\ step = "next" /\ todo # <<>> /\ todo' = Tail(todo)
      /\ UNCHANGED <<env, forced, failed, waits, token, tokens, lost, asked>>
  BY DEF TryNext, choice, dialog
<1>2. /\ Len(todo) >= 1 /\ Len(todo') = Len(todo) - 1 /\ todo' \in Seq(Kinds)
      /\ \A i \in 1..Len(todo') : todo'[i] = todo[i + 1]
  BY <1>1 DEF Typed
<1>3. List' = List /\ Taken' = Taken + 1 /\ Taken \in Nat /\ Taken + 1 <= Len(List)
  <2>1. List' = List
    BY <1>1 DEF List, Priority
  <2> QED BY <1>2, <2>1, ListShape DEF Taken, Typed, InList
<1>4. Head(todo) = List[Taken + 1] /\ Head(todo) \in Kinds
  BY <1>1, <1>2 DEF Typed, InList
<1>5. \A i \in 1..Len(todo') : todo'[i] = List[Taken' + i]
  BY <1>2, <1>3 DEF InList, Typed
<1>6. \A j \in 1..Taken : Tried(List[j]) /\ List[j] # Head(todo) /\ List[j] \in Kinds
  BY <1>1, <1>3, <1>4, ListShape DEF InVain
<1>7. Head(todo) \in Composing => waits = 0
  BY <1>3, <1>4, ListShape DEF Starts
<1>8. CASE Head(todo) = "Libei" /\ SkipsLibei
  <2>1. outcome' = [outcome EXCEPT ![Head(todo)] = "skipped"] /\ step' = "next"
    BY <1>1, <1>8 DEF TryNext
  <2>2. waits = 1
    BY <1>8 DEF SkipsLibei, Starts
  <2>3. Typed'
    BY <1>1, <1>2, <2>1 DEF Typed, Outcomes, Chosen
  <2>4. InList'
    BY <1>2, <1>3, <1>5, <2>1 DEF InList, Trying, Opening
  <2>5. Starts'
    BY <1>1, <1>3, <2>1 DEF Starts, Opening
  <2>6. Dialogs'
    BY <1>1, <1>3, <2>1 DEF Dialogs, Typed
  <2>7. InVain'
    <3>1. \A j \in 1..Taken : outcome'[List[j]] = outcome[List[j]]
      BY <1>6, <2>1 DEF Typed
    <3>2. \A j \in 1..Taken : Tried(List[j])'
      BY <1>1, <1>3, <1>6, <3>1 DEF Tried
    <3>3. ASSUME NEW j \in 1..Taken', j = Taken + 1 PROVE Tried(List[j])'
      <4>1. outcome'[List'[j]] = "skipped" /\ waits' > 0
        BY <1>1, <1>3, <1>4, <2>1, <2>2, <3>3 DEF Typed
      <4> QED BY <4>1 DEF Tried
    <3>4. \A j \in 1..Taken' : Tried(List[j])'
      BY <1>3, <3>2, <3>3
    <3>5. step' # "built"
      BY <2>1
    <3> QED BY <3>4, <3>5 DEF InVain
  <2> QED BY <2>3, <2>4, <2>5, <2>6, <2>7
<1>9. CASE ~(Head(todo) = "Libei" /\ SkipsLibei)
  <2>1. /\ at' = Head(todo) /\ outcome' = outcome
        /\ step' = IF Head(todo) \in OverLibei THEN "open" ELSE "start"
    BY <1>1, <1>9 DEF TryNext
  <2>2. step' = "open" => waits = 0
    <3>1. Head(todo) = "Libei" => waits = 0
      <4>1. Head(todo) = "Libei" => ~failed
        BY <1>9 DEF SkipsLibei
      <4>2. ~failed => waits = 0
        BY DEF Starts, Typed
      <4> QED BY <4>1, <4>2
    <3> QED BY <1>7, <2>1, <3>1 DEF OverLibei
  <2>3. Typed'
    BY <1>1, <1>2, <2>1 DEF Typed, Trying, Opening, Chosen
  <2>4. InList'
    <3>1. Taken' >= 1 /\ Len(todo') <= Len(List')
      BY <1>2, <1>3 DEF InList, Typed
    <3>2. at' = List'[Taken'] /\ step' # "error"
      BY <1>3, <1>4, <2>1
    <3>3. \A i \in 1..Len(todo') : todo'[i] = List'[Taken' + i]
      BY <1>3, <1>5
    <3> QED BY <3>1, <3>2, <3>3 DEF InList
  <2>5. Starts'
    BY <1>1, <1>3, <2>1, <2>2 DEF Starts, Opening
  <2>6. Dialogs'
    <3>1. step' = "open" => Taken' <= 2
      BY <1>3, <1>4, <2>1, ListShape
    <3> QED BY <1>1, <1>3, <2>1, <3>1 DEF Dialogs, Typed
  <2>7. InVain'
    <3>1. \A j \in 1..Taken : Tried(List[j])'
      BY <1>1, <1>3, <1>6, <2>1 DEF Tried
    <3> QED BY <1>3, <2>1, <3>1 DEF InVain
  <2> QED BY <2>3, <2>4, <2>5, <2>6, <2>7
<1> QED BY <1>8, <1>9

\* The list is empty.
LEMMA GiveUpKeeps == ASSUME Inv, GiveUp PROVE Inv'
<1> USE DEF Inv
<1>1. /\ step = "next" /\ todo = <<>> /\ step' = "error"
      /\ UNCHANGED <<env, forced, todo, at, failed, outcome, token, tokens, lost, asked, waits>>
  BY DEF GiveUp, choice, dialog
<1>2. List' = List /\ Taken' = Taken
  BY <1>1, ListKept
<1>3. Typed'
  BY <1>1 DEF Typed, Chosen
<1>4. InList'
  BY <1>1, <1>2 DEF InList, Trying, Opening
<1>5. Starts'
  BY <1>1, <1>2 DEF Starts, Opening
<1>6. Dialogs'
  BY <1>1, <1>2 DEF Dialogs
<1>7. InVain'
  <2>1. \A j \in 1..Taken : Tried(List[j])' <=> Tried(List[j])
    BY <1>1, <1>2 DEF Tried
  <2> QED BY <1>1, <1>2, <2>1 DEF InVain
<1> QED BY <1>3, <1>4, <1>5, <1>6, <1>7

------------------------------------------------------------------------------
(* The steps of the constructors.                                          *)

\* Constructors, and bridges on top of libei, that start or fail at once.
LEMMA StandAloneKeeps ==
    ASSUME Inv, WlrStarts \/ UinputStarts \/ KdeBridge \/ GnomeBridge
    PROVE  Inv'
<1>1. /\ step \in {"start", "bridge"}
      /\ Succeed \/ Fail(FALSE)
      /\ UNCHANGED <<env, forced, todo, at, token, tokens, lost, asked>>
  BY DEF WlrStarts, UinputStarts, KdeBridge, GnomeBridge, choice, dialog
<1>2. step \in Trying /\ step # "asking" /\ {token, lost} \subseteq BOOLEAN
  BY <1>1 DEF Trying, Inv, Typed
<1>3. CASE Succeed
  BY <1>1, <1>2, <1>3, SucceedKeeps
<1>4. CASE Fail(FALSE)
  BY <1>1, <1>2, <1>4, FailKeeps
<1> QED BY <1>1, <1>3, <1>4

\* A session is opened, the user having been asked or not.
LEMMA OpenKeeps == ASSUME Inv, OpenSilently \/ Consent \/ OpenFails PROVE Inv'
<1>0. token \in BOOLEAN /\ tokens \in BOOLEAN /\ lost \in BOOLEAN
  BY DEF Inv, Typed
<1>1. ASSUME OpenSilently \/ Consent PROVE Inv'
  <2>1. /\ step \in {"open", "asking"} /\ Save
        /\ Spawn \/ Fail(TRUE)
        /\ UNCHANGED <<env, forced, todo, at, tokens, asked>>
    BY <1>1 DEF OpenSilently, Consent, Opened, choice
  <2>2. {token', lost'} \subseteq BOOLEAN /\ (lost => lost') /\ (token' \/ lost')
    <3>1. CASE token' = TRUE /\ UNCHANGED lost
      BY <1>0, <3>1
    <3>2. CASE token' \in {FALSE, token} /\ lost' = TRUE
      BY <1>0, <3>2, Zenon
    <3> QED BY <2>1, <3>1, <3>2 DEF Save
  <2>3. CASE Spawn
    <3>1. step' = "connect" /\ UNCHANGED <<failed, outcome, waits>>
      BY <2>3 DEF Spawn
    <3> QED BY <2>1, <2>2, <3>1, GoesOn DEF Trying, Opening
  <2>4. CASE Fail(TRUE)
    BY <2>1, <2>2, <2>4, FailKeeps DEF Trying, Opening
  <2> QED BY <2>1, <2>3, <2>4
<1>2. ASSUME OpenFails PROVE Inv'
  <2>1. /\ step \in {"open", "asking"} /\ Fail(TRUE)
        /\ UNCHANGED <<env, forced, todo, at, token, tokens, lost, asked>>
    BY <1>2 DEF OpenFails, choice, dialog
  <2> QED BY <1>0, <2>1, FailKeeps DEF Trying, Opening
<1> QED BY <1>1, <1>2

\* The dialog: libei has not failed, and no dialog brought a token before.
LEMMA AskKeeps == ASSUME Inv, Ask PROVE Inv'
<1> USE DEF Inv
<1>1. /\ step = "open" /\ ~(token /\ tokens) /\ step' = "asking" /\ asked' = asked + 1
      /\ UNCHANGED <<env, forced, todo, at, failed, outcome, token, tokens, lost, waits>>
  BY DEF Ask, choice
<1>2. List' = List /\ Taken' = Taken
  BY <1>1, ListKept
<1>3. Typed'
  BY <1>1 DEF Typed, Trying, Opening, Chosen
<1>4. InList'
  BY <1>1, <1>2 DEF InList, Trying, Opening
<1>5. Starts'
  BY <1>1, <1>2 DEF Starts, Opening
<1>6. Dialogs'
  <2>1. tokens /\ ~lost => asked = 0
    <3>1. waits = 0
      BY <1>1 DEF Starts, Opening
    <3> QED BY <1>1, <3>1 DEF Dialogs, Typed
  <2>2. Taken \in Int /\ asked + 1 <= Taken /\ asked + 1 <= 2
    <3>1. Taken \in Int
      BY ListShape DEF Taken, Typed
    <3> QED BY <1>1, <3>1 DEF Dialogs, Typed
  <2> QED BY <1>1, <1>2, <2>1, <2>2 DEF Dialogs
<1>7. InVain'
  <2>1. \A j \in 1..Taken : Tried(List[j])' <=> Tried(List[j])
    BY <1>1, <1>2 DEF Tried
  <2> QED BY <1>1, <1>2, <2>1 DEF InVain
<1> QED BY <1>3, <1>4, <1>5, <1>6, <1>7

\* try_new waits for its thread, and then for a device.
LEMMA WaitKeeps ==
    ASSUME Inv, Connected \/ Ready \/ SignalLost \/ TimeOut
    PROVE  Inv'
<1>1. /\ step \in {"connect", "wait"}
      /\ UNCHANGED <<env, forced, todo, at, token, tokens, lost, asked>>
      /\ \/ Succeed
         \/ Fail(TRUE)
         \/ step' \in {"wait", "bridge"} /\ UNCHANGED <<failed, outcome, waits>>
  BY DEF Connected, Ready, SignalLost, TimeOut, choice, dialog
<1>2. step \in Trying /\ step \in Opening /\ step # "asking" /\ {token, lost} \subseteq BOOLEAN
  BY <1>1 DEF Trying, Opening, Inv, Typed
<1>3. CASE Succeed
  BY <1>1, <1>2, <1>3, SucceedKeeps
<1>4. CASE Fail(TRUE)
  BY <1>1, <1>2, <1>4, FailKeeps
<1>5. CASE step' \in {"wait", "bridge"} /\ UNCHANGED <<failed, outcome, waits>>
  BY <1>1, <1>2, <1>5, GoesOn DEF Trying, Opening
<1> QED BY <1>1, <1>3, <1>4, <1>5

\* The dispatcher threads.
LEMMA ThreadKeeps ==
    ASSUME Inv, NEW n \in Sessions, Handshake(n) \/ DeviceReady(n) \/ StreamEnds(n)
    PROVE  Inv'
<1>1. UNCHANGED <<env, forced, todo, at, step, failed, outcome, waits, dialog>>
  BY DEF Handshake, DeviceReady, StreamEnds, choice, dialog
<1> QED BY <1>1, Aside

\* Every step keeps the invariant.
LEMMA StepKeeps == Inv /\ [Next]_vars => Inv'
<1> SUFFICES ASSUME Inv, [Next]_vars PROVE Inv'
  OBVIOUS
<1>1. CASE Caller
  BY <1>1, TryNextKeeps, GiveUpKeeps, StandAloneKeeps, OpenKeeps, AskKeeps, WaitKeeps
     DEF Caller
<1>2. CASE World
  BY <1>2, OpenKeeps, ThreadKeeps DEF World
<1>3. CASE UNCHANGED vars
  BY <1>3, Aside DEF vars, choice, dialog
<1> QED BY <1>1, <1>2, <1>3 DEF Next

\* The invariant holds before the first try.
LEMMA InitHolds == Init => Inv
<1> SUFFICES ASSUME Init PROVE Inv
  OBVIOUS
<1>1. todo = List /\ step = "next" /\ waits = 0 /\ asked = 0 /\ failed = FALSE
  BY DEF Init, List
<1>2. Typed
  <2>1. env \in SUBSET {"wlr", "KDE", "GNOME"} /\ forced \in Kinds \cup {"no"}
    BY DEF Init
  <2>2. todo \in Seq(Kinds)
    BY <1>1, <2>1, ChosenList DEF Chosen
  <2>3. step = "next" /\ outcome \in [Kinds -> Outcomes]
    BY DEF Init, Outcomes
  <2>4. /\ asked \in Nat /\ waits \in Nat
        /\ failed \in BOOLEAN /\ token \in BOOLEAN /\ tokens \in BOOLEAN /\ lost \in BOOLEAN
    BY DEF Init
  <2> QED BY <2>1, <2>2, <2>3, <2>4 DEF Typed, Chosen
<1>3. Len(List) \in Nat /\ Taken = 0
  BY <1>1, <1>2, ListShape DEF Taken
<1>4. InList
  BY <1>1, <1>3 DEF InList, Trying, Opening
<1>5. Starts
  BY <1>1 DEF Starts, Opening
<1>6. Dialogs
  BY <1>1, <1>3 DEF Dialogs
<1>7. InVain
  BY <1>1, <1>3 DEF InVain
<1> QED BY <1>2, <1>4, <1>5, <1>6, <1>7 DEF Inv

\* So it holds throughout.
LEMMA Invariance == Spec => []Inv
<1> QED BY InitHolds, StepKeeps, PTL DEF Spec

------------------------------------------------------------------------------
\* Within one build libei fails to start at most once, alone or inside a KDE or
\* GNOME backend, and shows two dialogs at most: the second only if the portal
\* does not accept its own tokens or a token did not reach the cache, whatever
\* the environment and however the constructors end.
THEOREM LibeiFailsOnce == Spec => []OneFailedStart
<1>1. Inv => OneFailedStart
  BY DEF Inv, Starts, Dialogs, OneFailedStart
<1> QED BY <1>1, Invariance, PTL

\* The backend that build returns is the first of the list that starts, and an
\* error means that none does.
THEOREM BuildsFirstThatStarts == Spec => []FirstThatStarts
<1>1. Inv => FirstThatStarts
  <2> SUFFICES ASSUME Inv PROVE FirstThatStarts
    OBVIOUS
  <2>1. List \in Seq(Kinds) /\ Taken = Len(List) - Len(todo) /\ Len(todo) \in Nat
    BY ListShape DEF Inv, Typed, Taken
  <2>2. ASSUME step = "error", NEW k \in ToSet(List) PROVE Tried(k)
    <3>1. Taken = Len(List)
      BY <2>1, <2>2 DEF Inv, InList
    <3>2. PICK j \in 1..Len(List) : List[j] = k
      BY <2>1, <2>2 DEF ToSet
    <3> QED BY <2>2, <3>1, <3>2 DEF Inv, InVain
  <2>3. ASSUME step = "built"
        PROVE  \E i \in DOMAIN List : /\ outcome[List[i]] = "up"
                                       /\ \A j \in 1..(i - 1) : Tried(List[j])
    <3>1. Taken \in DOMAIN List /\ outcome[List[Taken]] = "up"
      BY <2>1, <2>3 DEF Inv, InList, InVain
    <3>2. \A j \in 1..(Taken - 1) : Tried(List[j])
      BY <2>1, <3>1 DEF Inv, InVain
    <3> QED BY <3>1, <3>2
  <2> QED BY <2>2, <2>3 DEF FirstThatStarts
<1> QED BY <1>1, Invariance, PTL
==============================================================================
