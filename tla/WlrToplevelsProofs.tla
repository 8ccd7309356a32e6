-------------------------- MODULE WlrToplevelsProofs --------------------------
(***************************************************************************)
(* Theorems about WlrToplevels for any calls, windows, handle numbers and  *)
(* changes: the worker's mirror, the events behind it and the compositor   *)
(* agree on what each handle number stands for, so a request reaches the   *)
(* window its caller learned the id of, or none.  What makes this delicate *)
(* is that a number passes from a window that closed to one that opens.    *)
(***************************************************************************)
EXTENDS WlrToplevels, FiniteSetTheorems, TLAPS

Numbers == Windows \cup {None}
Events == [ev : {"toplevel", "title", "state", "done", "closed", "callback"},
           h : Handles, win : Numbers, on : BOOLEAN]
Requests == [op : {"sync", "destroy"} \cup Targeted, h : Handles, by : Tasks \cup {None}]
Views == [open : SUBSET Windows, active : Numbers]

TypeOK ==
    /\ stack \in Seq(Windows) /\ active \in Numbers
    /\ handle \in [Handles -> Numbers] /\ unborn \subseteq Windows
    /\ changes \in Nat /\ mishaps \subseteq {"retitled", "lost", "renewed", "reused"}
    /\ requests \in Seq(Requests) /\ wire \in Seq(Events) /\ connected \in BOOLEAN
    /\ known \subseteq Handles /\ stands \in [Handles -> Numbers]
    /\ activated \subseteq Handles /\ pend \subseteq Handles /\ pendOn \subseteq Handles
    /\ queue \in Seq(Tasks \cup {"shutdown"})
    /\ worker \in Tasks \cup {None, "exited"}
    /\ synced \in BOOLEAN /\ backend \in {"up", "dropped"}
    /\ kind \in [Tasks -> {"list", "active", "activate", "close", None}]
    /\ pc \in [Tasks -> {"idle", "asked", "cancelled", "ok", "not_found"}]
    /\ given \in [Tasks -> Handles] /\ wanted \in [Tasks -> Numbers]
    /\ result \in [Tasks -> SUBSET Numbers] /\ hit \in [Tasks -> SUBSET Windows]
    /\ during \in [Tasks -> SUBSET Views]
    /\ learned \subseteq [id : Handles, win : Numbers]

\* The compositor: every open window has a handle of its own.
Numbering ==
    /\ IsInjective(stack)
    /\ \A w \in open : \E h \in Handles : handle[h] = w
    /\ \A g, h \in Handles : handle[g] = handle[h] /\ handle[g] # None => g = h
    /\ active \in open \cup {None}
    /\ \A w \in unborn : w \notin open /\ \A h \in Handles : handle[h] # w

\* The mirror has every handle right; so has an announcement on its way, which
\* is the only one of its number, and the end of a handle comes last: closed on
\* the wire, then the request to destroy it.
Mirrored ==
    \A h \in known : handle[h] # None /\ stands[h] = handle[h]
Opened(i) ==
    /\ wire[i].win # None /\ handle[wire[i].h] = wire[i].win
    /\ wire[i].h \notin known
    /\ \A j \in 1..Len(wire) : wire[j].ev = "toplevel" /\ wire[j].h = wire[i].h => j = i
Over(h) == handle[h] # None /\ handle[h] \notin open
Ended(i) ==
    /\ Over(wire[i].h)
    /\ \A j \in 1..Len(wire) :
          wire[j].ev \in {"toplevel", "closed"} /\ wire[j].h = wire[i].h => j <= i
Destroyed(k) ==
    /\ Over(requests[k].h) /\ requests[k].h \notin known
    /\ \A j \in 1..Len(wire) :
          wire[j].ev \in {"toplevel", "closed"} => wire[j].h # requests[k].h
    /\ \A j \in 1..Len(requests) :
          requests[j].op = "destroy" /\ requests[j].h = requests[k].h => j = k
Announcing ==
    /\ Mirrored
    /\ \A i \in 1..Len(wire) : /\ wire[i].ev = "toplevel" => Opened(i)
                               /\ wire[i].ev = "closed" => Ended(i)
    /\ \A k \in 1..Len(requests) : requests[k].op = "destroy" => Destroyed(k)

\* A request that reaches for a window is of a call that was made with an id
\* somebody had been told.
Callers ==
    /\ \A i \in 1..Len(queue) : queue[i] \in Tasks => pc[queue[i]] # "idle"
    /\ worker \in Tasks => pc[worker] # "idle"
    /\ \A t \in Tasks :
          /\ hit[t] # {} => pc[t] # "idle"
          /\ pc[t] # "idle" /\ kind[t] \in Targeted =>
                [id |-> given[t], win |-> wanted[t]] \in learned
    /\ \A k \in 1..Len(requests) : requests[k].op \in Targeted =>
          /\ requests[k].by \in Tasks /\ requests[k].h = given[requests[k].by]
          /\ kind[requests[k].by] \in Targeted /\ pc[requests[k].by] # "idle"

\* A number that was told stands for the window it was told for, or for none.
OneSession == mishaps \cap {"renewed", "reused"} = {}
Valid ==
    \A l \in learned : /\ l.win # None /\ l.win \notin unborn
                       /\ handle[l.id] \in {l.win, None}
Reached == \A t \in Tasks : hit[t] \subseteq {wanted[t]}

IInv == /\ TypeOK /\ Numbering /\ Announcing /\ Callers
        /\ OneSession => Valid /\ Reached
------------------------------------------------------------------------------
(* Sequences.                                                              *)

LEMMA JoinAt ==
  ASSUME NEW S, NEW s \in Seq(S), NEW u \in Seq(S)
  PROVE /\ s \o u \in Seq(S) /\ Len(s \o u) = Len(s) + Len(u)
        /\ \A i \in 1..Len(s \o u) :
              \/ i \in 1..Len(s) /\ (s \o u)[i] = s[i]
              \/ i > Len(s) /\ i - Len(s) \in 1..Len(u) /\ (s \o u)[i] = u[i - Len(s)]
  OBVIOUS

LEMMA AppendAt ==
  ASSUME NEW S, NEW s \in Seq(S), NEW x \in S
  PROVE /\ Append(s, x) \in Seq(S) /\ Len(Append(s, x)) = Len(s) + 1
        /\ \A i \in 1..Len(Append(s, x)) :
              \/ i \in 1..Len(s) /\ Append(s, x)[i] = s[i]
              \/ i = Len(s) + 1 /\ Append(s, x)[i] = x
  OBVIOUS

LEMMA TailAt ==
  ASSUME NEW S, NEW s \in Seq(S), s # <<>>
  PROVE /\ Tail(s) \in Seq(S) /\ Len(Tail(s)) + 1 = Len(s) /\ Head(s) \in S
        /\ Head(s) = s[1] /\ 1 \in 1..Len(s)
        /\ \A i \in 1..Len(Tail(s)) : Tail(s)[i] = s[i + 1] /\ i + 1 \in 1..Len(s)
  OBVIOUS

LEMMA CutAt ==
  ASSUME NEW S, NEW s \in Seq(S), NEW k \in 1..Len(s)
  PROVE /\ RemoveAt(s, k) \in Seq(S) /\ Len(RemoveAt(s, k)) = Len(s) - 1
        /\ \A i \in 1..(Len(s) - 1) :
              RemoveAt(s, k)[i] = IF i < k THEN s[i] ELSE s[i + 1]
  <1> DEFINE l == SubSeq(s, 1, k - 1)
             r == SubSeq(s, k + 1, Len(s))
  <1>1. k \in Nat /\ Len(s) \in Nat /\ 1 <= k /\ k <= Len(s)
    OBVIOUS
  <1>2. l \in Seq(S) /\ Len(l) = k - 1 /\ \A i \in 1..(k - 1) : l[i] = s[i]
    BY <1>1
  <1>3. r \in Seq(S) /\ Len(r) = Len(s) - k
        /\ \A i \in 1..(Len(s) - k) : r[i] = s[k + i]
    BY <1>1
  <1>4. RemoveAt(s, k) = l \o r
    BY DEF RemoveAt
  <1> HIDE DEF l, r
  <1>5. l \o r \in Seq(S) /\ Len(l \o r) = Len(s) - 1
    <2>1. l \o r \in Seq(S) /\ Len(l \o r) = Len(l) + Len(r)
      BY <1>2, <1>3, JoinAt
    <2> QED BY <1>1, <1>2, <1>3, <2>1
  <1>6. ASSUME NEW i \in 1..(Len(s) - 1)
        PROVE (l \o r)[i] = IF i < k THEN s[i] ELSE s[i + 1]
    <2>1. CASE i < k
      BY <1>1, <1>2, <1>3, <2>1
    <2>2. CASE ~(i < k)
      <3>1. (l \o r)[i] = r[i - Len(l)] /\ i - Len(l) \in 1..(Len(s) - k)
        BY <1>1, <1>2, <1>3, <2>2
      <3>2. r[i - Len(l)] = s[k + (i - Len(l))] /\ k + (i - Len(l)) = i + 1
        BY <1>1, <1>2, <1>3, <3>1
      <3> QED BY <2>2, <3>1, <3>2
    <2> QED BY <2>1, <2>2
  <1> QED BY <1>4, <1>5, <1>6

\* Without one of its elements an injective sequence has the others.
LEMMA CutSet ==
  ASSUME NEW S, NEW s \in Seq(S), IsInjective(s), NEW k \in 1..Len(s)
  PROVE /\ IsInjective(RemoveAt(s, k))
        /\ ToSet(RemoveAt(s, k)) = ToSet(s) \ {s[k]}
  <1> DEFINE c == RemoveAt(s, k)
  <1>1. c \in Seq(S) /\ Len(c) = Len(s) - 1
        /\ \A i \in 1..(Len(s) - 1) : c[i] = IF i < k THEN s[i] ELSE s[i + 1]
    BY CutAt
  <1> HIDE DEF c
  <1>2. \A i, j \in 1..Len(s) : s[i] = s[j] => i = j
    BY DEF IsInjective
  <1>3. Len(s) \in Nat
    OBVIOUS
  <1>4. ASSUME NEW i \in 1..Len(c), NEW j \in 1..Len(c), c[i] = c[j]  PROVE i = j
    <2> DEFINE At(n) == IF n < k THEN n ELSE n + 1
    <2>1. i \in 1..(Len(s) - 1) /\ j \in 1..(Len(s) - 1)
      BY <1>1
    <2>2. At(i) \in 1..Len(s) /\ At(j) \in 1..Len(s)
      BY <1>3, <2>1
    <2>3. c[i] = s[At(i)] /\ c[j] = s[At(j)]
      BY <1>1, <2>1
    <2>4. At(i) = At(j)
      BY <1>2, <1>4, <2>2, <2>3
    <2> QED BY <2>1, <2>4
  <1>5. ASSUME NEW i \in 1..Len(c)  PROVE \E j \in 1..Len(s) : c[i] = s[j] /\ s[j] # s[k]
    <2>1. CASE i < k
      <3>1. i \in 1..Len(s) /\ i # k /\ c[i] = s[i]  BY <1>1, <1>3, <2>1
      <3> QED BY <1>2, <3>1
    <2>2. CASE ~(i < k)
      <3>1. i + 1 \in 1..Len(s) /\ i + 1 # k /\ c[i] = s[i + 1]  BY <1>1, <1>3, <2>2
      <3> QED BY <1>2, <3>1
    <2> QED BY <2>1, <2>2
  <1>6. ASSUME NEW j \in 1..Len(s), s[j] # s[k]  PROVE \E i \in 1..Len(c) : c[i] = s[j]
    <2>1. CASE j < k
      <3>1. j \in 1..Len(c) /\ c[j] = s[j]  BY <1>1, <1>3, <2>1
      <3> QED BY <3>1
    <2>2. CASE j > k
      <3>1. j - 1 \in 1..Len(c) /\ c[j - 1] = s[j]  BY <1>1, <1>3, <2>2
      <3> QED BY <3>1
    <2> QED BY <1>6, <2>1, <2>2
  <1>7. DOMAIN c = 1..Len(c) /\ DOMAIN s = 1..Len(s)
    BY <1>1
  <1>8. IsInjective(c)
    BY <1>4, <1>7 DEF IsInjective
  <1>9. ToSet(c) = ToSet(s) \ {s[k]}
    <2>1. \A x : x \in ToSet(c) <=> \E i \in 1..Len(c) : x = c[i]
      BY <1>7 DEF ToSet
    <2>2. \A x : x \in ToSet(s) <=> \E j \in 1..Len(s) : x = s[j]
      BY <1>7 DEF ToSet
    <2>3. ASSUME NEW x \in ToSet(c)  PROVE x \in ToSet(s) \ {s[k]}
      BY <1>5, <2>1, <2>2, <2>3
    <2>4. ASSUME NEW x \in ToSet(s) \ {s[k]}  PROVE x \in ToSet(c)
      BY <1>6, <2>1, <2>2, <2>4
    <2> QED BY <2>3, <2>4
  <1> QED BY <1>8, <1>9 DEF c

------------------------------------------------------------------------------
(* The compositor's numbers.                                               *)

Quiet == {e \in Events : e.ev \in {"title", "state", "done"}}

LEMMA HandleHas ==
  ASSUME Numbering, NEW w \in open
  PROVE HandleOf(w) \in Handles /\ handle[HandleOf(w)] = w
  BY DEF Numbering, HandleOf

\* What is sent of a change of the focus.
LEMMA FocusIsQuiet ==
  ASSUME Numbering, NEW a \in open \cup {None}, NEW b \in open \cup {None}
  PROVE FocusEvents(a, b) \in Seq(Quiet)
  <1> DEFINE Part(w, on) == IF w = None THEN <<>>
                            ELSE <<Flags(HandleOf(w), on), DoneEvent(HandleOf(w))>>
  <1>1. ASSUME NEW w \in open \cup {None}, NEW on \in BOOLEAN
        PROVE Part(w, on) \in Seq(Quiet)
    <2>1. CASE w = None  BY <2>1
    <2>2. CASE w # None
      <3>1. HandleOf(w) \in Handles  BY <2>2, HandleHas
      <3>2. Flags(HandleOf(w), on) \in Quiet /\ DoneEvent(HandleOf(w)) \in Quiet
        BY <3>1 DEF Flags, DoneEvent, Quiet, Events, Numbers
      <3> HIDE DEF Quiet
      <3> QED BY <2>2, <3>2
    <2> QED BY <2>1, <2>2
  <1>2. FocusEvents(a, b) = Part(a, FALSE) \o Part(b, TRUE)
    BY DEF FocusEvents
  <1>3. Part(a, FALSE) \in Seq(Quiet) /\ Part(b, TRUE) \in Seq(Quiet)
    BY <1>1
  <1> HIDE DEF Part, Quiet
  <1> QED BY <1>2, <1>3, JoinAt

\* There are never more open windows than numbers.
LEMMA FewWindows ==
  ASSUME TypeOK, Numbering
  PROVE Len(stack) \in Nat /\ Len(stack) <= MaxHandles
  <1> USE WlrAssumption
  <1> DEFINE f == [i \in 1..Len(stack) |-> HandleOf(stack[i])]
  <1>1. Len(stack) \in Nat /\ DOMAIN stack = 1..Len(stack)
    BY DEF TypeOK
  <1>2. \A i \in 1..Len(stack) : f[i] \in Handles /\ handle[f[i]] = stack[i]
    <2> SUFFICES ASSUME NEW i \in 1..Len(stack)
                 PROVE f[i] \in Handles /\ handle[f[i]] = stack[i]
      OBVIOUS
    <2>1. stack[i] \in open
      BY <1>1 DEF open, ToSet
    <2>2. f[i] = HandleOf(stack[i])
      OBVIOUS
    <2> QED BY <2>1, <2>2, HandleHas
  <1>3. \A i, j \in 1..Len(stack) : stack[i] = stack[j] => i = j
    BY <1>1 DEF Numbering, IsInjective
  <1>4. f \in Injection(1..Len(stack), Handles)
    <2>1. f \in [1..Len(stack) -> Handles]
      BY <1>2
    <2>2. IsInjective(f)
      BY <1>2, <1>3 DEF IsInjective
    <2> QED BY <2>1, <2>2 DEF Injection
  <1>5. IsFiniteSet(Handles) /\ Cardinality(Handles) = MaxHandles
    BY FS_Interval DEF Handles
  <1>6. Cardinality(1..Len(stack)) = Len(stack)
    <2>1. ASSUME NEW n \in Nat  PROVE Cardinality(1..n) = n
      BY FS_Interval
    <2> QED BY <1>1, <2>1
  <1>7. Cardinality(1..Len(stack)) <= Cardinality(Handles)
    BY <1>4, <1>5, FS_Injection
  <1> QED BY <1>1, <1>5, <1>6, <1>7
------------------------------------------------------------------------------
(* Types.                                                                  *)

LEMMA ViewIn ==
  ASSUME NEW s \in Seq(Windows), NEW a \in Numbers  PROVE View(s, a) \in Views
  BY DEF View, Views, ToSet

LEMMA WitnessIn ==
  ASSUME TypeOK, NEW views \in SUBSET Views, Witness(views)
  PROVE during' \in [Tasks -> SUBSET Views]
  BY DEF TypeOK, Witness

LEMMA SendIn ==
  ASSUME TypeOK, NEW b \in Seq(Events), Send(b)  PROVE wire' \in Seq(Events)
  <1> HIDE DEF Events
  <1> QED BY JoinAt DEF TypeOK, Send

LEMMA RequestIn ==
  ASSUME TypeOK, NEW r \in Requests, requests' = requests \/ requests' = Append(requests, r)
  PROVE requests' \in Seq(Requests)
  <1>1. requests \in Seq(Requests)
    BY DEF TypeOK
  <1> HIDE DEF Requests
  <1>2. Append(requests, r) \in Seq(Requests)
    BY <1>1, AppendAt
  <1> QED BY <1>1, <1>2

LEMMA InitTypes == Init => TypeOK
  <1> SUFFICES ASSUME Init PROVE TypeOK
    OBVIOUS
  <1> USE WlrAssumption
  <1>1. Len(stack) \in Nat /\ \A n \in 1..Len(stack) : n \in Handles /\ stack[n] \in Windows
    BY DEF Init, Handles
  <1>2. active \in Numbers
    BY DEF Init, ToSet, Numbers
  <1>3. Numbered(stack) \in [Handles -> Numbers]
    BY <1>1 DEF Numbered, Numbers, Handles
  <1>4. FocusAt(stack, active) \subseteq Handles
    BY <1>1 DEF FocusAt
  <1>5. 1 \in Handles
    BY DEF Handles
  <1>6. /\ stack \in Seq(Windows) /\ handle \in [Handles -> Numbers] /\ unborn \subseteq Windows
        /\ known \subseteq Handles /\ stands \in [Handles -> Numbers]
        /\ activated \subseteq Handles
    BY <1>1, <1>3, <1>4 DEF Init
  <1>7. /\ given \in [Tasks -> Handles] /\ wanted \in [Tasks -> Numbers]
        /\ changes \in Nat /\ connected \in BOOLEAN /\ worker \in Tasks \cup {None, "exited"}
    BY <1>5 DEF Init, Numbers
  <1>8. /\ requests \in Seq(Requests) /\ wire \in Seq(Events)
        /\ queue \in Seq(Tasks \cup {"shutdown"})
    <2>1. \A S : <<>> \in Seq(S)
      OBVIOUS
    <2> QED BY <2>1 DEF Init
  <1>9. /\ kind \in [Tasks -> {"list", "active", "activate", "close", None}]
        /\ pc \in [Tasks -> {"idle", "asked", "cancelled", "ok", "not_found"}]
        /\ result \in [Tasks -> SUBSET Numbers] /\ hit \in [Tasks -> SUBSET Windows]
        /\ during \in [Tasks -> SUBSET Views]
        /\ learned \subseteq [id : Handles, win : Numbers]
        /\ mishaps \subseteq {"retitled", "lost", "renewed", "reused"}
        /\ pend \subseteq Handles /\ pendOn \subseteq Handles
        /\ synced \in BOOLEAN /\ backend \in {"up", "dropped"}
    BY DEF Init
  <1> QED BY <1>2, <1>6, <1>7, <1>8, <1>9 DEF TypeOK

\* Steps of the callers, and of the worker between two dispatches.
LEMMA CallerTypes ==
  ASSUME IInv, NEW t \in Tasks,
         Ask(t) \/ Cancel(t) \/ AnswerRead(t) \/ Act(t)
  PROVE TypeOK'
  <1> USE WlrAssumption DEF IInv
  <1>1. CASE Ask(t)
    <2>1. View(stack, active) \in Views
      BY ViewIn DEF TypeOK
    <2>2. /\ kind' \in [Tasks -> {"list", "active", "activate", "close", None}]
          /\ given' \in [Tasks -> Handles] /\ wanted' \in [Tasks -> Numbers]
      <3>1. PICK k \in KindsUsed :
              /\ kind' = [kind EXCEPT ![t] = k]
              /\ IF k \in Targeted
                 THEN \E l \in learned : /\ given' = [given EXCEPT ![t] = l.id]
                                         /\ wanted' = [wanted EXCEPT ![t] = l.win]
                 ELSE UNCHANGED <<given, wanted>>
        BY <1>1 DEF Ask
      <3>2. CASE k \in Targeted
        BY <3>1, <3>2 DEF TypeOK
      <3>3. CASE k \notin Targeted
        BY <3>1, <3>3 DEF TypeOK
      <3> QED BY <3>2, <3>3
    <2>3. queue' \in Seq(Tasks \cup {"shutdown"})
      BY <1>1 DEF Ask, TypeOK
    <2>4. pc' \in [Tasks -> {"idle", "asked", "cancelled", "ok", "not_found"}]
          /\ during' \in [Tasks -> SUBSET Views]
      BY <1>1, <2>1 DEF Ask, TypeOK
    <2> QED BY <1>1, <2>2, <2>3, <2>4 DEF Ask, TypeOK, desktop, link, mirror
  <1>2. CASE Cancel(t)
    BY <1>2 DEF Cancel, TypeOK, desktop, link, mirror, thread
  <1>3. CASE AnswerRead(t)
    <2>1. result' \in [Tasks -> SUBSET Numbers]
      <3>1. \A h \in Handles : stands[h] \in Numbers
        BY DEF TypeOK
      <3>2. \E R \in SUBSET Numbers : result' = [result EXCEPT ![t] = R]
        <4>1. CASE result' = [result EXCEPT ![t] = {stands[h] : h \in known}]
          <5>1. {stands[h] : h \in known} \in SUBSET Numbers  BY <3>1 DEF TypeOK
          <5> QED BY <4>1, <5>1
        <4>2. CASE result' = [result EXCEPT ![t] = {}]
          BY <4>2
        <4>3. ASSUME NEW h \in activated, result' = [result EXCEPT ![t] = {stands[h]}]
              PROVE \E R \in SUBSET Numbers : result' = [result EXCEPT ![t] = R]
          BY <3>1, <4>3 DEF TypeOK
        <4> QED BY <1>3, <4>1, <4>2, <4>3 DEF AnswerRead, Snapshot
      <3> QED BY <3>2 DEF TypeOK
    <2>2. learned' \subseteq [id : Handles, win : Numbers]
      BY <1>3 DEF AnswerRead, TypeOK
    <2>3. pc' \in [Tasks -> {"idle", "asked", "cancelled", "ok", "not_found"}]
      BY <1>3 DEF AnswerRead, Reply, TypeOK
    <2> QED BY <1>3, <2>1, <2>2, <2>3 DEF AnswerRead, Reply, TypeOK, desktop, link, mirror
  <1>4. CASE Act(t)
    <2>1. /\ pc' \in [Tasks -> {"idle", "asked", "cancelled", "ok", "not_found"}]
          /\ worker' = None
      <3>1. PICK verdict \in {"ok", "not_found"} : Reply(t, verdict)
        <4>1. CASE given[t] \in known
          BY <1>4, <4>1 DEF Act
        <4>2. CASE given[t] \notin known
          BY <1>4, <4>2 DEF Act
        <4> QED BY <4>1, <4>2
      <3>2. worker' = None
        BY <3>1 DEF Reply
      <3>3. pc' \in [Tasks -> {"idle", "asked", "cancelled", "ok", "not_found"}]
        BY <3>1 DEF Reply, TypeOK
      <3> QED BY <3>2, <3>3
    <2>2. requests' \in Seq(Requests)
      <3>1. Request(kind[t], given[t], t) \in Requests
        BY <1>4 DEF Act, Request, Requests, TypeOK
      <3>2. \/ requests' = requests
            \/ requests' = Append(requests, Request(kind[t], given[t], t))
        <4>1. CASE given[t] \in known  BY <1>4, <4>1 DEF Act
        <4>2. CASE given[t] \notin known  BY <1>4, <4>2 DEF Act
        <4> QED BY <4>1, <4>2
      <3> QED BY <3>1, <3>2, RequestIn
    <2> QED BY <1>4, <2>1, <2>2 DEF Act, TypeOK, desktop, mirror
  <1> QED BY <1>1, <1>2, <1>3, <1>4

LEMMA WorkerTypes ==
  ASSUME IInv, DropBackend \/ Recv \/ Dispatch  PROVE TypeOK'
  <1> USE WlrAssumption DEF IInv
  <1>1. CASE DropBackend
    BY <1>1 DEF DropBackend, TypeOK, desktop, link, mirror, calls
  <1>2. CASE Recv
    <2>1. /\ queue' \in Seq(Tasks \cup {"shutdown"}) /\ synced' = FALSE
          /\ Head(queue) \in Tasks \cup {"shutdown"}
      BY <1>2, TailAt DEF Recv, TypeOK
    <2>2. CASE Head(queue) = "shutdown"
      BY <1>2, <2>1, <2>2 DEF Recv, TypeOK, desktop, mirror, calls
    <2>3. CASE Head(queue) # "shutdown"
      <3>1. /\ worker' = Head(queue) /\ Head(queue) \in Tasks
            /\ \/ requests' = requests
               \/ requests' = Append(requests, Request("sync", 1, Head(queue)))
        BY <1>2, <2>1, <2>3 DEF Recv
      <3>2. Request("sync", 1, Head(queue)) \in Requests
        BY <3>1 DEF Request, Requests, Handles
      <3>3. requests' \in Seq(Requests)
        BY <3>1, <3>2, RequestIn
      <3> QED BY <1>2, <2>1, <3>1, <3>3 DEF Recv, TypeOK, desktop, mirror, calls
    <2> QED BY <2>2, <2>3
  <1>3. CASE Dispatch
    <2> DEFINE e == Head(wire)
    <2>1. e \in Events /\ wire' \in Seq(Events)
      <3> HIDE DEF Events
      <3> QED BY <1>3, TailAt DEF Dispatch, TypeOK
    <2>2. e.h \in Handles /\ e.win \in Numbers
      BY <2>1 DEF Events
    <2>3. Request("destroy", e.h, None) \in Requests
      BY <2>2 DEF Request, Requests
    <2> HIDE DEF e
    <2>4. /\ known' \subseteq Handles /\ stands' \in [Handles -> Numbers]
          /\ activated' \subseteq Handles /\ pend' \subseteq Handles /\ pendOn' \subseteq Handles
          /\ synced' \in BOOLEAN
          /\ \/ requests' = requests
             \/ requests' = Append(requests, Request("destroy", e.h, None))
      <3>1. CASE OnToplevel(e) /\ UNCHANGED synced
        BY <2>2, <3>1 DEF OnToplevel, TypeOK
      <3>2. CASE OnTitle(e) /\ UNCHANGED synced
        BY <2>2, <3>2 DEF OnTitle, TypeOK
      <3>3. CASE OnState(e) /\ UNCHANGED synced
        BY <2>2, <3>3 DEF OnState, TypeOK
      <3>4. CASE OnDone(e) /\ UNCHANGED synced
        BY <2>2, <3>4 DEF OnDone, TypeOK
      <3>5. CASE OnClosed(e) /\ UNCHANGED synced
        BY <2>2, <3>5 DEF OnClosed, TypeOK
      <3>6. CASE synced' = TRUE /\ UNCHANGED <<mirror, requests>>
        BY <3>6 DEF mirror, TypeOK
      <3> QED BY <1>3, <3>1, <3>2, <3>3, <3>4, <3>5, <3>6 DEF Dispatch, e
    <2>5. requests' \in Seq(Requests)
      BY <2>3, <2>4, RequestIn
    <2> QED BY <1>3, <2>1, <2>4, <2>5 DEF Dispatch, TypeOK, desktop, calls
  <1> QED BY <1>1, <1>2, <1>3

LEMMA ServeTypes ==
  ASSUME IInv, Serve  PROVE TypeOK'
  <1> USE WlrAssumption DEF IInv
  <1> DEFINE r == Head(requests)
             w == handle[r.h]
  <1>1. r \in Requests /\ requests' \in Seq(Requests)
    <2> HIDE DEF Requests
    <2> QED BY TailAt DEF Serve, TypeOK
  <1>2. r.h \in Handles /\ r.op \in {"sync", "destroy"} \cup Targeted /\ w \in Numbers
    BY <1>1 DEF Requests, TypeOK
  <1>3. /\ active' \in Numbers /\ wire' \in Seq(Events)
        /\ handle' \in [Handles -> Numbers] /\ hit' \in [Tasks -> SUBSET Windows]
        /\ during' \in [Tasks -> SUBSET Views]
    <2>1. CASE Send(<<Callback>>) /\ UNCHANGED <<active, handle, hit, during>>
      <3>1. Callback \in Events
        BY DEF Callback, Events, Numbers, Handles
      <3>2. <<Callback>> \in Seq(Events)
        <4> HIDE DEF Events
        <4> QED BY <3>1
      <3> QED BY <2>1, <3>2, SendIn DEF TypeOK
    <2>2. CASE handle' = [handle EXCEPT ![r.h] = None] /\ UNCHANGED <<active, wire, hit, during>>
      BY <1>2, <2>2 DEF TypeOK, Numbers
    <2>3. CASE /\ hit' = [hit EXCEPT ![r.by] = {w} \cap open]
               /\ r.op = "activate" /\ w \in open /\ w # active
               /\ active' = w
               /\ Send(FocusEvents(active, w))
               /\ Witness({View(stack, None), View(stack, w)})
               /\ UNCHANGED handle
      <3>1. active \in open \cup {None}
        BY DEF Numbering
      <3>2. FocusEvents(active, w) \in Seq(Events)
        <4>1. FocusEvents(active, w) \in Seq(Quiet)
          BY <2>3, <3>1, FocusIsQuiet
        <4>2. Quiet \subseteq Events
          BY DEF Quiet
        <4> HIDE DEF Events, Quiet
        <4> QED BY <4>1, <4>2
      <3>3. View(stack, None) \in Views /\ View(stack, w) \in Views
        BY <1>2, ViewIn DEF TypeOK, Numbers
      <3>4. wire' \in Seq(Events)
        BY <2>3, <3>2, SendIn
      <3>5. during' \in [Tasks -> SUBSET Views]
        BY <2>3, <3>3, WitnessIn
      <3>6. open \subseteq Windows
        BY DEF open, ToSet, TypeOK
      <3> QED BY <1>2, <2>3, <3>4, <3>5, <3>6 DEF TypeOK
    <2>4. CASE hit' = [hit EXCEPT ![r.by] = {w} \cap open]
               /\ UNCHANGED <<active, wire, during, handle>>
      <3>1. open \subseteq Windows
        BY DEF open, ToSet, TypeOK
      <3> QED BY <2>4, <3>1 DEF TypeOK
    <2> QED BY <2>1, <2>2, <2>3, <2>4 DEF Serve
  <1> QED BY <1>1, <1>3 DEF Serve, TypeOK, mirror, thread

LEMMA DesktopTypes ==
  ASSUME IInv, NEW w \in Windows, OpenWindow(w) \/ CloseWindow(w) \/ Retitle(w)
  PROVE TypeOK'
  <1> USE WlrAssumption DEF IInv
  <1>1. CASE OpenWindow(w)
    <2>1. PICK h \in Handles :
            /\ handle' = [handle EXCEPT ![h] = w]
            /\ Send(<<Toplevel(h, w), Title(h), DoneEvent(h)>>)
            /\ mishaps' = mishaps \cup {m \in {"reused"} : \E l \in learned : l.id = h}
      BY <1>1 DEF OpenWindow
    <2>2. <<Toplevel(h, w), Title(h), DoneEvent(h)>> \in Seq(Events)
      <3>1. Toplevel(h, w) \in Events /\ Title(h) \in Events /\ DoneEvent(h) \in Events
        BY DEF Toplevel, Title, DoneEvent, Events, Numbers
      <3> HIDE DEF Events
      <3> QED BY <3>1
    <2>3. stack' \in Seq(Windows)
      BY <1>1, AppendAt DEF OpenWindow, TypeOK
    <2>4. during' \in [Tasks -> SUBSET Views]
      <3>1. View(stack', active) \in Views
        BY <2>3, ViewIn DEF TypeOK
      <3> QED BY <1>1, <3>1, WitnessIn DEF OpenWindow
    <2>5. wire' \in Seq(Events)
      BY <2>1, <2>2, SendIn
    <2>6. /\ handle' \in [Handles -> Numbers] /\ unborn' \subseteq Windows
          /\ mishaps' \subseteq {"retitled", "lost", "renewed", "reused"}
          /\ changes' \in Nat /\ active' = active
      <3>1. changes \in Nat /\ changes' = changes + 1 /\ unborn' = unborn \ {w}
            /\ active' = active
        BY <1>1 DEF OpenWindow, Change, TypeOK
      <3>2. mishaps \subseteq {"retitled", "lost", "renewed", "reused"}
            /\ handle \in [Handles -> Numbers] /\ unborn \subseteq Windows
        BY DEF TypeOK
      <3>3. mishaps' \subseteq {"retitled", "lost", "renewed", "reused"}
        BY <2>1, <3>2
      <3> QED BY <2>1, <3>1, <3>2, <3>3 DEF Numbers
    <2>7. UNCHANGED <<requests, connected, mirror, thread, calls>>
      BY <1>1 DEF OpenWindow, Change
    <2> QED BY <2>3, <2>4, <2>5, <2>6, <2>7 DEF TypeOK, mirror, thread, calls
  <1>2. CASE CloseWindow(w)
    <2>1. PICK i \in 1..Len(stack) : stack[i] = w /\ stack' = RemoveAt(stack, i)
      BY <1>2 DEF CloseWindow
    <2>2. stack' \in Seq(Windows) /\ active' \in Numbers
      BY <1>2, <2>1, CutAt DEF CloseWindow, TypeOK, Numbers
    <2>3. during' \in [Tasks -> SUBSET Views]
      <3>1. View(stack', active') \in Views
        BY <2>2, ViewIn
      <3> QED BY <1>2, <3>1, WitnessIn DEF CloseWindow
    <2>4. wire' \in Seq(Events)
      <3>1. w \in open
        BY <2>1 DEF open, ToSet, TypeOK
      <3>2. Closed(HandleOf(w)) \in Events
        BY <3>1, HandleHas DEF Closed, Events, Numbers
      <3>3. <<Closed(HandleOf(w))>> \in Seq(Events)
        <4> HIDE DEF Events
        <4> QED BY <3>2
      <3> QED BY <1>2, <3>3, SendIn DEF CloseWindow
    <2> QED BY <1>2, <2>2, <2>3, <2>4 DEF CloseWindow, Change, TypeOK, mirror, thread, calls
  <1>3. CASE Retitle(w)
    <2>1. HandleOf(w) \in Handles
      BY <1>3, HandleHas DEF Retitle
    <2>2. Title(HandleOf(w)) \in Events /\ DoneEvent(HandleOf(w)) \in Events
      BY <2>1 DEF Title, DoneEvent, Events, Numbers
    <2>3. <<Title(HandleOf(w)), DoneEvent(HandleOf(w))>> \in Seq(Events)
      <3> HIDE DEF Events
      <3> QED BY <2>2
    <2>4. wire' \in Seq(Events)
      BY <1>3, <2>3, SendIn DEF Retitle
    <2> QED BY <1>3, <2>4 DEF Retitle, Change, TypeOK, mirror, thread, calls
  <1> QED BY <1>1, <1>2, <1>3

LEMMA FocusTypes ==
  ASSUME IInv, NEW w \in Windows \cup {None}, Focus(w)  PROVE TypeOK'
  <1> USE WlrAssumption DEF IInv
  <1>1. active \in open \cup {None} /\ w \in open \cup {None}
    BY DEF Numbering, Focus
  <1>2. FocusEvents(active, w) \in Seq(Events)
    <2>1. FocusEvents(active, w) \in Seq(Quiet)
      BY <1>1, FocusIsQuiet
    <2>2. Quiet \subseteq Events
      BY DEF Quiet
    <2> HIDE DEF Events, Quiet
    <2> QED BY <2>1, <2>2
  <1>3. View(stack, None) \in Views /\ View(stack, w) \in Views
    BY ViewIn DEF TypeOK, Numbers
  <1>4. wire' \in Seq(Events) /\ during' \in [Tasks -> SUBSET Views]
    BY <1>2, <1>3, SendIn, WitnessIn DEF Focus
  <1> QED BY <1>4 DEF Focus, Change, TypeOK, mirror, thread, calls, Numbers

LEMMA LinkTypes ==
  ASSUME IInv, Lose \/ Renew  PROVE TypeOK'
  <1> USE WlrAssumption DEF IInv
  <1>0. \A S : <<>> \in Seq(S)
    OBVIOUS
  <1>1. CASE Lose
    <2>1. wire' \in Seq(Events) /\ requests' \in Seq(Requests)
      BY <1>0, <1>1 DEF Lose
    <2>2. changes' \in Nat
      <3>1. changes \in Nat /\ changes' = changes + 1
        BY <1>1 DEF Lose, TypeOK
      <3> QED BY <3>1
    <2>3. mishaps' \subseteq {"retitled", "lost", "renewed", "reused"}
          /\ connected' \in BOOLEAN
      BY <1>1 DEF Lose, TypeOK
    <2> QED BY <1>1, <2>1, <2>2, <2>3 DEF Lose, TypeOK, mirror, thread, calls
  <1>2. CASE Renew
    <2>1. \A n \in 1..Len(stack) : n \in Handles /\ stack[n] \in Windows
      BY FewWindows DEF TypeOK, Handles
    <2>2. Numbered(stack) \in [Handles -> Numbers] /\ FocusAt(stack, active) \subseteq Handles
      <3>1. \A h \in Handles : h <= Len(stack) => h \in 1..Len(stack)
        BY FewWindows DEF Handles
      <3> QED BY <2>1, <3>1 DEF Numbered, FocusAt, Numbers
    <2>3. handle' \in [Handles -> Numbers] /\ stands' \in [Handles -> Numbers]
          /\ known' \subseteq Handles /\ activated' \subseteq Handles
      BY <1>2, <2>1, <2>2 DEF Renew
    <2>4. wire' \in Seq(Events) /\ queue' \in Seq(Tasks \cup {"shutdown"})
      BY <1>0, <1>2 DEF Renew
    <2>5. /\ mishaps' \subseteq {"retitled", "lost", "renewed", "reused"}
          /\ connected' \in BOOLEAN /\ pend' \subseteq Handles /\ pendOn' \subseteq Handles
          /\ worker' \in Tasks \cup {None, "exited"}
          /\ synced' \in BOOLEAN /\ backend' \in {"up", "dropped"}
      BY <1>2 DEF Renew, TypeOK
    <2> QED BY <1>2, <2>3, <2>4, <2>5 DEF Renew, TypeOK, calls
  <1> QED BY <1>1, <1>2

LEMMA TypeStep ==
  ASSUME IInv, [Next]_vars  PROVE TypeOK'
  <1>1. CASE UNCHANGED vars
    BY <1>1 DEF IInv, TypeOK, vars, desktop, link, mirror, thread, calls
  <1>2. CASE Next
    BY <1>2, CallerTypes, WorkerTypes, ServeTypes, DesktopTypes, FocusTypes, LinkTypes DEF Next
  <1> QED BY <1>1, <1>2

------------------------------------------------------------------------------
(* Numbering.                                                              *)

LEMMA OpenIs == TypeOK => open \subseteq Windows /\ None \notin open
  BY WlrAssumption DEF TypeOK, open, ToSet

LEMMA InitNumbering == Init => Numbering
  <1> SUFFICES ASSUME Init PROVE Numbering
    OBVIOUS
  <1> USE WlrAssumption
  <1>1. stack = Existing /\ handle = Numbered(stack) /\ unborn = Windows \ ToSet(Existing)
        /\ active \in ToSet(Existing)
    BY DEF Init
  <1>2. DOMAIN stack = 1..Len(stack) /\ Len(stack) \in Nat /\ Len(stack) <= MaxHandles
        /\ \A n \in 1..Len(stack) : stack[n] \in Windows
    BY <1>1
  <1>3. \A n \in 1..Len(stack) : n \in Handles /\ handle[n] = stack[n]
    BY <1>1, <1>2 DEF Numbered, Handles
  <1>4. \A h \in Handles : h \in 1..Len(stack) \/ handle[h] = None
    BY <1>1, <1>2 DEF Numbered, Handles
  <1>5. \A w : w \in open <=> \E n \in 1..Len(stack) : stack[n] = w
    BY <1>2 DEF open, ToSet
  <1>6. \A m, n \in 1..Len(stack) : stack[m] = stack[n] => m = n
    BY <1>1, <1>2 DEF IsInjective
  <1>7. \A w \in open : \E h \in Handles : handle[h] = w
    BY <1>3, <1>5
  <1>8. \A g, h \in Handles : handle[g] = handle[h] /\ handle[g] # None => g = h
    BY <1>3, <1>4, <1>6
  <1>9. active \in open /\ \A w \in unborn : w \notin open
    BY <1>1 DEF open
  <1>10. \A w \in unborn : \A h \in Handles : handle[h] # w
    BY <1>1, <1>2, <1>3, <1>4, <1>5 DEF open
  <1> QED BY <1>1, <1>7, <1>8, <1>9, <1>10 DEF Numbering

LEMMA ServeNumbering ==
  ASSUME IInv, Serve  PROVE Numbering'
  <1> USE DEF IInv
  <1> DEFINE r == Head(requests)
             w == handle[r.h]
  <1>1. r = requests[1] /\ 1 \in 1..Len(requests) /\ r \in Requests
    <2> HIDE DEF Requests
    <2> QED BY TailAt DEF Serve, TypeOK
  <1>2. r.h \in Handles
    BY <1>1 DEF Requests
  <1>3. UNCHANGED <<stack, unborn>>
    BY DEF Serve
  <1>4. CASE UNCHANGED <<active, handle>>
    BY <1>3, <1>4 DEF Numbering, open
  <1>5. CASE r.op = "destroy" /\ handle' = [handle EXCEPT ![r.h] = None] /\ active' = active
    <2>1. Over(r.h)
      BY <1>1, <1>5 DEF Announcing, Destroyed
    <2>2. \A g \in Handles : handle'[g] = IF g = r.h THEN None ELSE handle[g]
      BY <1>2, <1>5 DEF TypeOK
    <2>3. \A v \in open : \E h \in Handles : handle'[h] = v
      BY <2>1, <2>2 DEF Numbering, Over
    <2>4. \A v \in unborn : \A h \in Handles : handle'[h] # v
      BY <2>2, WlrAssumption DEF Numbering, TypeOK
    <2>5. \A g, h \in Handles : handle'[g] = handle'[h] /\ handle'[g] # None => g = h
      BY <2>2 DEF Numbering
    <2> QED BY <1>3, <1>5, <2>3, <2>4, <2>5 DEF Numbering, open
  <1>6. CASE handle' = handle /\ active' = w /\ w \in open
    BY <1>3, <1>6 DEF Numbering, open
  <1> QED BY <1>4, <1>5, <1>6 DEF Serve

LEMMA OpenGains ==
  ASSUME TypeOK, NEW w \in Windows, OpenWindow(w)  PROVE open' = open \cup {w}
  <1>1. stack' = Append(stack, w) /\ stack \in Seq(Windows)
    BY DEF OpenWindow, TypeOK
  <1>2. /\ Len(stack) \in Nat /\ Len(stack') = Len(stack) + 1
        /\ DOMAIN stack = 1..Len(stack) /\ DOMAIN stack' = 1..Len(stack')
        /\ \A n \in 1..Len(stack') : \/ n \in 1..Len(stack) /\ stack'[n] = stack[n]
                                     \/ n = Len(stack) + 1 /\ stack'[n] = w
        /\ \A n \in 1..Len(stack) : stack'[n] = stack[n]
        /\ stack'[Len(stack) + 1] = w
    BY <1>1
  <1>3. \A v : v \in open <=> \E n \in 1..Len(stack) : v = stack[n]
    BY <1>2 DEF open, ToSet
  <1>4. \A v : v \in open' <=> \E n \in 1..Len(stack') : v = stack'[n]
    BY <1>2 DEF open, ToSet
  <1>5. \A v : v \in open' => v \in open \cup {w}
    BY <1>2, <1>3, <1>4
  <1>6. ASSUME NEW v \in open  PROVE v \in open'
    BY <1>2, <1>3, <1>4
  <1>7. w \in open'
    BY <1>2, <1>4
  <1> QED BY <1>5, <1>6, <1>7

LEMMA OpenNumbering ==
  ASSUME IInv, NEW w \in Windows, OpenWindow(w)  PROVE Numbering'
  <1> USE DEF IInv
  <1>1. PICK h \in Handles : handle[h] = None /\ handle' = [handle EXCEPT ![h] = w]
    BY DEF OpenWindow
  <1>2. stack' = Append(stack, w) /\ w \in unborn /\ unborn' = unborn \ {w} /\ active' = active
    BY DEF OpenWindow
  <1>3. w \notin open /\ w # None /\ \A g \in Handles : handle[g] # w
    BY <1>2, WlrAssumption DEF Numbering
  <1>4. \A g \in Handles : handle'[g] = IF g = h THEN w ELSE handle[g]
    BY <1>1 DEF TypeOK
  <1>5. Len(stack) \in Nat /\ DOMAIN stack = 1..Len(stack)
        /\ stack' \in Seq(Windows) /\ Len(stack') = Len(stack) + 1
        /\ DOMAIN stack' = 1..Len(stack')
        /\ \A n \in 1..Len(stack') : \/ n \in 1..Len(stack) /\ stack'[n] = stack[n]
                                     \/ n = Len(stack) + 1 /\ stack'[n] = w
    BY <1>2, AppendAt DEF TypeOK
  <1>6. open' = open \cup {w}
    BY OpenGains
  <1>7. IsInjective(stack')
    <2>1. \A n \in 1..Len(stack) : stack[n] # w
      BY <1>3, <1>5 DEF open, ToSet
    <2>2. \A m, n \in 1..Len(stack) : stack[m] = stack[n] => m = n
      BY <1>5 DEF Numbering, IsInjective
    <2>3. \A m, n \in 1..Len(stack') : stack'[m] = stack'[n] => m = n
      BY <1>5, <2>1, <2>2
    <2> QED BY <1>5, <2>3 DEF IsInjective
  <1>8. \A v \in open' : \E g \in Handles : handle'[g] = v
    <2>1. ASSUME NEW v \in open  PROVE \E g \in Handles : handle'[g] = v
      <3>1. PICK g \in Handles : handle[g] = v
        BY DEF Numbering
      <3>2. v # None
        BY OpenIs
      <3> QED BY <1>1, <1>4, <3>1, <3>2
    <2> QED BY <1>4, <1>6, <2>1
  <1>9. \A f, g \in Handles : handle'[f] = handle'[g] /\ handle'[f] # None => f = g
    BY <1>3, <1>4 DEF Numbering
  <1>10. \A v \in unborn' : v \notin open' /\ \A g \in Handles : handle'[g] # v
    BY <1>2, <1>4, <1>6 DEF Numbering
  <1> QED BY <1>2, <1>6, <1>7, <1>8, <1>9, <1>10 DEF Numbering

LEMMA CloseOpen ==
  ASSUME IInv, NEW w \in Windows, CloseWindow(w)
  PROVE /\ open' = open \ {w} /\ w \in open /\ IsInjective(stack')
  <1> USE DEF IInv
  <1>1. PICK i \in 1..Len(stack) : stack[i] = w /\ stack' = RemoveAt(stack, i)
    BY DEF CloseWindow
  <1>2. stack \in Seq(Windows) /\ IsInjective(stack)
    BY DEF TypeOK, Numbering
  <1>3. w \in open
    BY <1>1, <1>2 DEF open, ToSet
  <1> QED BY <1>1, <1>2, <1>3, CutSet DEF open

LEMMA CloseNumbering ==
  ASSUME IInv, NEW w \in Windows, CloseWindow(w)  PROVE Numbering'
  <1>1. active' \in {active, None} \ {w} /\ UNCHANGED <<handle, unborn>>
    BY WlrAssumption DEF CloseWindow
  <1> QED BY <1>1, CloseOpen DEF IInv, Numbering

LEMMA RenewNumbering ==
  ASSUME IInv, Renew  PROVE Numbering'
  <1> USE DEF IInv
  <1>1. UNCHANGED <<stack, active, unborn>> /\ handle' = Numbered(stack)
    BY DEF Renew
  <1>2. DOMAIN stack = 1..Len(stack) /\ Len(stack) \in Nat /\ Len(stack) <= MaxHandles
    BY FewWindows DEF TypeOK
  <1>3. \A n \in 1..Len(stack) : n \in Handles /\ handle'[n] = stack[n]
    BY <1>1, <1>2, WlrAssumption DEF Numbered, Handles
  <1>4. \A h \in Handles : h \in 1..Len(stack) \/ handle'[h] = None
    BY <1>1, <1>2, WlrAssumption DEF Numbered, Handles
  <1>5. \A w : w \in open <=> \E n \in 1..Len(stack) : stack[n] = w
    BY <1>2 DEF open, ToSet
  <1>6. \A m, n \in 1..Len(stack) : stack[m] = stack[n] => m = n
    BY <1>2 DEF Numbering, IsInjective
  <1>7. \A w \in open : \E h \in Handles : handle'[h] = w
    BY <1>3, <1>5
  <1>8. \A g, h \in Handles : handle'[g] = handle'[h] /\ handle'[g] # None => g = h
    BY <1>3, <1>4, <1>6
  <1>9. \A w \in unborn : \A h \in Handles : handle'[h] # w
    <2>1. \A w \in unborn : w \notin open /\ w # None
      BY WlrAssumption DEF Numbering, TypeOK
    <2>2. \A h \in Handles : handle'[h] \in open \/ handle'[h] = None
      BY <1>3, <1>4, <1>5
    <2> QED BY <2>1, <2>2
  <1> QED BY <1>1, <1>7, <1>8, <1>9 DEF Numbering, open

LEMMA NumberingStep ==
  ASSUME IInv, [Next]_vars  PROVE Numbering'
  <1>1. CASE UNCHANGED <<stack, active, handle, unborn>>
    BY <1>1 DEF IInv, Numbering, open
  <1>2. ASSUME NEW t \in Tasks, Ask(t) \/ Cancel(t) \/ AnswerRead(t) \/ Act(t)
        PROVE Numbering'
    BY <1>1, <1>2 DEF Ask, Cancel, AnswerRead, Act, desktop
  <1>3. CASE DropBackend \/ Recv \/ Dispatch \/ Lose \/ UNCHANGED vars
    BY <1>1, <1>3 DEF DropBackend, Recv, Dispatch, Lose, desktop, vars
  <1>4. ASSUME NEW w \in Windows \cup {None}, Focus(w)  PROVE Numbering'
    BY <1>4 DEF IInv, Numbering, Focus, open
  <1>5. ASSUME NEW w \in Windows, Retitle(w)  PROVE Numbering'
    BY <1>1, <1>5 DEF Retitle
  <1> QED BY <1>2, <1>3, <1>4, <1>5, ServeNumbering, OpenNumbering, CloseNumbering,
          RenewNumbering DEF Next

------------------------------------------------------------------------------
(* Announcing.  Telling events are those that make or end a handle.        *)

Telling(e) == e.ev \in {"toplevel", "closed"}

LEMMA InitAnnouncing == Init => Announcing
  <1> SUFFICES ASSUME Init PROVE Announcing
    OBVIOUS
  <1>1. wire = <<>> /\ requests = <<>> /\ known = 1..Len(stack)
        /\ handle = Numbered(stack) /\ stands = handle /\ stack = Existing
    BY DEF Init
  <1>2. DOMAIN stack = 1..Len(stack) /\ Len(stack) \in Nat /\ Len(stack) <= MaxHandles
        /\ \A n \in 1..Len(stack) : stack[n] \in Windows
    BY <1>1, WlrAssumption
  <1>3. \A n \in 1..Len(stack) : handle[n] = stack[n] /\ handle[n] # None
    BY <1>1, <1>2, WlrAssumption DEF Numbered, Handles
  <1> QED BY <1>1, <1>3 DEF Announcing, Mirrored

LEMMA Typed ==
  ASSUME TypeOK
  PROVE /\ \A i \in 1..Len(wire) : wire[i].h \in Handles /\ wire[i].win \in Numbers
        /\ \A k \in 1..Len(requests) : requests[k].h \in Handles
  <1>1. \A i \in 1..Len(wire) : wire[i] \in Events
    <2>1. wire \in Seq(Events)  BY DEF TypeOK
    <2> HIDE DEF Events
    <2> QED BY <2>1
  <1>2. \A k \in 1..Len(requests) : requests[k] \in Requests
    <2>1. requests \in Seq(Requests)  BY DEF TypeOK
    <2> HIDE DEF Requests
    <2> QED BY <2>1
  <1> QED BY <1>1, <1>2 DEF Events, Requests

\* What Send adds.
LEMMA SendAt ==
  ASSUME TypeOK, NEW b \in Seq(Events), Send(b)
  PROVE \A i \in 1..Len(wire') :
           \/ i \in 1..Len(wire) /\ wire'[i] = wire[i]
           \/ /\ connected /\ i > Len(wire) /\ i - Len(wire) \in 1..Len(b)
              /\ wire'[i] = b[i - Len(wire)]
  <1>1. wire \in Seq(Events)
    BY DEF TypeOK
  <1> HIDE DEF Events
  <1>2. CASE connected
    BY <1>1, <1>2, JoinAt DEF Send
  <1>3. CASE ~connected
    BY <1>1, <1>3 DEF Send
  <1> QED BY <1>2, <1>3

\* What is sent lengthens the wire and disturbs nothing on it.
LEMMA SendKeeps ==
  ASSUME TypeOK, NEW b \in Seq(Events), Send(b)
  PROVE \A i \in 1..Len(wire) : i \in 1..Len(wire') /\ wire'[i] = wire[i]
  <1>1. wire \in Seq(Events)
    BY DEF TypeOK
  <1> HIDE DEF Events
  <1>2. CASE connected
    <2>1. wire' = wire \o b
      BY <1>2 DEF Send
    <2> QED BY <1>1, <2>1
  <1>3. CASE ~connected
    BY <1>1, <1>3 DEF Send
  <1> QED BY <1>2, <1>3

LEMMA SendLast ==
  ASSUME TypeOK, NEW e \in Events, Send(<<e>>), connected
  PROVE Len(wire) + 1 \in 1..Len(wire') /\ wire'[Len(wire) + 1] = e
  <1>1. wire \in Seq(Events)
    BY DEF TypeOK
  <1> HIDE DEF Events
  <1>2. wire' = wire \o <<e>>
    BY DEF Send
  <1>3. Len(wire) \in Nat /\ Len(wire') = Len(wire) + 1 /\ wire'[Len(wire) + 1] = e
    BY <1>1, <1>2
  <1> QED BY <1>3

LEMMA QuietTells ==
  ASSUME NEW b \in Seq(Quiet)
  PROVE b \in Seq(Events) /\ \A i \in 1..Len(b) : ~Telling(b[i])
  <1>1. Quiet \subseteq Events /\ \A e \in Quiet : ~Telling(e)
    BY DEF Quiet, Telling
  <1> HIDE DEF Quiet, Events
  <1> QED BY <1>1

\* Steps that leave the handles and the map alone, take up to one event and one
\* request off, and add only events that tell nothing and requests that do not
\* destroy.
LEMMA AnnouncingKept ==
  ASSUME IInv, TypeOK', UNCHANGED <<stack, handle, known, stands>>,
         NEW c \in {0, 1}, NEW d \in {0, 1},
         \A i \in 1..Len(wire') : \/ i + c \in 1..Len(wire) /\ wire'[i] = wire[i + c]
                                  \/ ~Telling(wire'[i]),
         \A k \in 1..Len(requests') :
            \/ k + d \in 1..Len(requests) /\ requests'[k] = requests[k + d]
            \/ requests'[k].op # "destroy"
  PROVE Announcing'
  <1> USE DEF IInv, Announcing
  <1>0. open' = open /\ Len(wire') \in Nat /\ Len(requests') \in Nat
    BY DEF open, TypeOK
  <1>1. Mirrored'
    BY DEF Mirrored
  <1>2. ASSUME NEW i \in 1..Len(wire'), wire'[i].ev = "toplevel"  PROVE Opened(i)'
    <2>1. i + c \in 1..Len(wire) /\ wire'[i] = wire[i + c] /\ Opened(i + c)
      BY <1>2 DEF Telling
    <2>2. ASSUME NEW j \in 1..Len(wire'), wire'[j].ev = "toplevel", wire'[j].h = wire'[i].h
          PROVE j = i
      <3>1. j + c \in 1..Len(wire) /\ wire'[j] = wire[j + c]
        BY <2>2 DEF Telling
      <3>2. j + c = i + c
        BY <2>1, <2>2, <3>1 DEF Opened
      <3> QED BY <1>0, <3>2
    <2> QED BY <2>1, <2>2 DEF Opened
  <1>3. ASSUME NEW i \in 1..Len(wire'), wire'[i].ev = "closed"  PROVE Ended(i)'
    <2>1. i + c \in 1..Len(wire) /\ wire'[i] = wire[i + c] /\ Ended(i + c)
      BY <1>3 DEF Telling
    <2>2. ASSUME NEW j \in 1..Len(wire'), wire'[j].ev \in {"toplevel", "closed"},
                 wire'[j].h = wire'[i].h
          PROVE j <= i
      <3>1. j + c \in 1..Len(wire) /\ wire'[j] = wire[j + c]
        BY <2>2 DEF Telling
      <3>2. j + c <= i + c
        BY <2>1, <2>2, <3>1 DEF Ended
      <3> QED BY <1>0, <3>2
    <2> QED BY <1>0, <2>1, <2>2 DEF Ended, Over
  <1>4. ASSUME NEW k \in 1..Len(requests'), requests'[k].op = "destroy"  PROVE Destroyed(k)'
    <2>1. k + d \in 1..Len(requests) /\ requests'[k] = requests[k + d] /\ Destroyed(k + d)
      BY <1>4
    <2>2. ASSUME NEW j \in 1..Len(requests'), requests'[j].op = "destroy",
                 requests'[j].h = requests'[k].h
          PROVE j = k
      <3>1. j + d \in 1..Len(requests) /\ requests'[j] = requests[j + d]
        BY <2>2
      <3>2. j + d = k + d
        BY <2>1, <2>2, <3>1 DEF Destroyed
      <3> QED BY <1>0, <3>2
    <2>3. ASSUME NEW j \in 1..Len(wire'), wire'[j].ev \in {"toplevel", "closed"}
          PROVE wire'[j].h # requests'[k].h
      BY <2>1, <2>3 DEF Destroyed, Telling
    <2> QED BY <1>0, <2>1, <2>2, <2>3 DEF Destroyed, Over
  <1> QED BY <1>1, <1>2, <1>3, <1>4

\* An event that is dispatched without changing the map, or ignored.
LEMMA QuietDispatch ==
  ASSUME IInv, TypeOK', wire # <<>>, wire' = Tail(wire),
         UNCHANGED <<stack, handle, known, stands, requests>>
  PROVE Announcing'
  <1>1. \A i \in 1..Len(wire') : i + 1 \in 1..Len(wire) /\ wire'[i] = wire[i + 1]
    <2> HIDE DEF Events
    <2> QED BY TailAt DEF IInv, TypeOK
  <1>2. \A k \in 1..Len(requests') : k + 0 \in 1..Len(requests) /\ requests'[k] = requests[k + 0]
    BY DEF IInv, TypeOK
  <1> QED BY <1>1, <1>2, AnnouncingKept

LEMMA OpenedDispatch ==
  ASSUME IInv, TypeOK', wire # <<>>, wire' = Tail(wire), Head(wire).ev = "toplevel",
         OnToplevel(Head(wire)), UNCHANGED <<stack, handle>>
  PROVE Announcing'
  <1> USE DEF IInv, Announcing
  <1>1. /\ Len(wire') + 1 = Len(wire) /\ Len(wire') \in Nat
        /\ 1 \in 1..Len(wire) /\ Head(wire) = wire[1]
        /\ \A i \in 1..Len(wire') : i + 1 \in 1..Len(wire) /\ wire'[i] = wire[i + 1]
    <2> HIDE DEF Events
    <2> QED BY TailAt DEF TypeOK
  <1> DEFINE g == wire[1].h
  <1>2. known' = known \cup {g} /\ stands' = [stands EXCEPT ![g] = wire[1].win]
        /\ UNCHANGED requests /\ open' = open /\ g \in Handles /\ Opened(1)
    BY <1>1 DEF OnToplevel, open, TypeOK, Events
  <1>3. \A i \in 1..Len(wire') : wire'[i].ev = "toplevel" => wire'[i].h # g
    <2> SUFFICES ASSUME NEW i \in 1..Len(wire'), wire'[i].ev = "toplevel", wire'[i].h = g
                 PROVE FALSE
      OBVIOUS
    <2>1. i + 1 = 1
      BY <1>1, <1>2 DEF Opened
    <2> QED BY <1>1, <2>1
  <1>4. Mirrored'
    BY <1>2 DEF Mirrored, Opened, TypeOK
  <1>5. ASSUME NEW i \in 1..Len(wire'), wire'[i].ev = "toplevel"  PROVE Opened(i)'
    <2>1. i + 1 \in 1..Len(wire) /\ wire'[i] = wire[i + 1] /\ Opened(i + 1)
      BY <1>1, <1>5
    <2>2. ASSUME NEW j \in 1..Len(wire'), wire'[j].ev = "toplevel", wire'[j].h = wire'[i].h
          PROVE j = i
      <3>1. j + 1 = i + 1
        BY <1>1, <2>1, <2>2 DEF Opened
      <3> QED BY <3>1
    <2>3. wire'[i].h \notin known'
      BY <1>2, <1>3, <1>5, <2>1 DEF Opened
    <2> QED BY <2>1, <2>2, <2>3 DEF Opened
  <1>6. ASSUME NEW i \in 1..Len(wire'), wire'[i].ev = "closed"  PROVE Ended(i)'
    <2>1. i + 1 \in 1..Len(wire) /\ wire'[i] = wire[i + 1] /\ Ended(i + 1)
      BY <1>1, <1>6
    <2>2. ASSUME NEW j \in 1..Len(wire'), wire'[j].ev \in {"toplevel", "closed"},
                 wire'[j].h = wire'[i].h
          PROVE j <= i
      <3>1. j + 1 <= i + 1
        BY <1>1, <2>1, <2>2 DEF Ended
      <3> QED BY <3>1
    <2> QED BY <1>2, <2>1, <2>2 DEF Ended, Over
  <1>7. ASSUME NEW k \in 1..Len(requests'), requests'[k].op = "destroy"  PROVE Destroyed(k)'
    <2>1. requests'[k] = requests[k] /\ Destroyed(k) /\ requests[k].h # g
      BY <1>1, <1>2, <1>7 DEF Destroyed, OnToplevel
    <2>2. ASSUME NEW j \in 1..Len(wire'), wire'[j].ev \in {"toplevel", "closed"}
          PROVE wire'[j].h # requests'[k].h
      BY <1>1, <2>1, <2>2 DEF Destroyed
    <2> QED BY <1>2, <2>1, <2>2 DEF Destroyed, Over
  <1> QED BY <1>4, <1>5, <1>6, <1>7

\* The end of a handle passes from the wire to the requests.
LEMMA ClosedDispatch ==
  ASSUME IInv, TypeOK', wire # <<>>, wire' = Tail(wire), Head(wire).ev = "closed",
         OnClosed(Head(wire)), UNCHANGED <<stack, handle>>
  PROVE Announcing'
  <1> USE DEF IInv, Announcing
  <1>1. /\ Len(wire') + 1 = Len(wire) /\ Len(wire') \in Nat
        /\ 1 \in 1..Len(wire) /\ Head(wire) = wire[1]
        /\ \A i \in 1..Len(wire') : i + 1 \in 1..Len(wire) /\ wire'[i] = wire[i + 1]
    <2> HIDE DEF Events
    <2> QED BY TailAt DEF TypeOK
  <1> DEFINE g == wire[1].h
  <1>2. known' = known \ {g} /\ stands' = stands
        /\ open' = open /\ g \in Handles /\ Ended(1)
    <2>1. g \in Handles
      BY <1>1, Typed
    <2>2. open' = open
      BY DEF open
    <2>3. known' = known \ {g} /\ stands' = stands
      BY <1>1 DEF OnClosed
    <2> QED BY <1>1, <2>1, <2>2, <2>3
  <1>3. \A i \in 1..Len(wire') : wire'[i].ev \in {"toplevel", "closed"} => wire'[i].h # g
    <2> SUFFICES ASSUME NEW i \in 1..Len(wire'), wire'[i].ev \in {"toplevel", "closed"},
                        wire'[i].h = g
                 PROVE FALSE
      OBVIOUS
    <2>1. i + 1 <= 1
      BY <1>1, <1>2 DEF Ended
    <2> QED BY <1>1, <2>1
  <1>4. Mirrored'
    BY <1>2 DEF Mirrored
  <1>5. ASSUME NEW i \in 1..Len(wire'), wire'[i].ev = "toplevel"  PROVE Opened(i)'
    <2>1. i + 1 \in 1..Len(wire) /\ wire'[i] = wire[i + 1] /\ Opened(i + 1)
      BY <1>1, <1>5
    <2>2. ASSUME NEW j \in 1..Len(wire'), wire'[j].ev = "toplevel", wire'[j].h = wire'[i].h
          PROVE j = i
      <3>1. j + 1 = i + 1
        BY <1>1, <2>1, <2>2 DEF Opened
      <3> QED BY <3>1
    <2> QED BY <1>2, <2>1, <2>2 DEF Opened
  <1>6. ASSUME NEW i \in 1..Len(wire'), wire'[i].ev = "closed"  PROVE Ended(i)'
    <2>1. i + 1 \in 1..Len(wire) /\ wire'[i] = wire[i + 1] /\ Ended(i + 1)
      BY <1>1, <1>6
    <2>2. ASSUME NEW j \in 1..Len(wire'), wire'[j].ev \in {"toplevel", "closed"},
                 wire'[j].h = wire'[i].h
          PROVE j <= i
      <3>1. j + 1 <= i + 1
        BY <1>1, <2>1, <2>2 DEF Ended
      <3> QED BY <3>1
    <2> QED BY <1>2, <2>1, <2>2 DEF Ended, Over
  <1>7. \A k \in 1..Len(requests) : requests[k].op = "destroy" => requests[k].h # g
    BY <1>1 DEF Destroyed, OnClosed
  <1>8. \A k \in 1..Len(requests') :
           \/ k \in 1..Len(requests) /\ requests'[k] = requests[k]
           \/ k = Len(requests) + 1 /\ requests'[k].h = g
    <2>1. CASE requests' = requests
      BY <2>1
    <2>2. CASE requests' = Append(requests, Request("destroy", g, None))
      <3>1. Request("destroy", g, None) \in Requests
        BY <1>2 DEF Request, Requests
      <3>2. requests \in Seq(Requests)
        BY DEF TypeOK
      <3>3. Len(requests') = Len(requests) + 1 /\ Len(requests) \in Nat
            /\ \A k \in 1..Len(requests') :
                  \/ k \in 1..Len(requests) /\ requests'[k] = requests[k]
                  \/ k = Len(requests) + 1 /\ requests'[k] = Request("destroy", g, None)
        <4> HIDE DEF Requests
        <4> QED BY <2>2, <3>1, <3>2, AppendAt
      <3>4. Request("destroy", g, None).h = g
        BY DEF Request
      <3> QED BY <3>3, <3>4
    <2> QED BY <1>1, <2>1, <2>2 DEF OnClosed
  <1>9. ASSUME NEW k \in 1..Len(requests'), requests'[k].op = "destroy"  PROVE Destroyed(k)'
    <2>1. CASE k \in 1..Len(requests) /\ requests'[k] = requests[k]
      <3>1. Destroyed(k) /\ requests[k].h # g
        BY <1>7, <1>9, <2>1
      <3>2. ASSUME NEW j \in 1..Len(wire'), wire'[j].ev \in {"toplevel", "closed"}
            PROVE wire'[j].h # requests'[k].h
        BY <1>1, <2>1, <3>1, <3>2 DEF Destroyed
      <3>3. ASSUME NEW j \in 1..Len(requests'), requests'[j].op = "destroy",
                   requests'[j].h = requests'[k].h
            PROVE j = k
        <4>1. j \in 1..Len(requests) /\ requests'[j] = requests[j]
          BY <1>8, <2>1, <3>1, <3>3
        <4> QED BY <2>1, <3>1, <3>3, <4>1 DEF Destroyed
      <3> QED BY <1>2, <2>1, <3>1, <3>2, <3>3 DEF Destroyed, Over
    <2>2. CASE k = Len(requests) + 1 /\ requests'[k].h = g
      <3>1. ASSUME NEW j \in 1..Len(requests'), requests'[j].op = "destroy",
                   requests'[j].h = g
            PROVE j = k
        BY <1>7, <1>8, <2>2, <3>1
      <3> QED BY <1>2, <1>3, <2>2, <3>1 DEF Destroyed, Over, Ended
    <2> QED BY <1>8, <2>1, <2>2
  <1> QED BY <1>4, <1>5, <1>6, <1>9

LEMMA DestroyAnnouncing ==
  ASSUME IInv, TypeOK', requests # <<>>, requests' = Tail(requests),
         Head(requests).op = "destroy",
         handle' = [handle EXCEPT ![Head(requests).h] = None],
         UNCHANGED <<stack, known, stands, wire>>
  PROVE Announcing'
  <1> USE DEF IInv, Announcing
  <1>1. /\ Len(requests') + 1 = Len(requests) /\ Len(requests') \in Nat
        /\ 1 \in 1..Len(requests) /\ Head(requests) = requests[1]
        /\ \A i \in 1..Len(requests') : i + 1 \in 1..Len(requests)
                                        /\ requests'[i] = requests[i + 1]
    <2> HIDE DEF Requests
    <2> QED BY TailAt DEF TypeOK
  <1> DEFINE g == requests[1].h
  <1>2. Destroyed(1) /\ open' = open
        /\ \A h \in Handles : h # g => handle'[h] = handle[h]
    BY <1>1 DEF open, TypeOK
  <1>3. Mirrored'
    BY <1>2 DEF Mirrored, Destroyed, TypeOK
  <1>4. ASSUME NEW i \in 1..Len(wire), Telling(wire[i])
        PROVE wire[i].h # g /\ handle'[wire[i].h] = handle[wire[i].h]
    <2>1. wire[i].h # g
      BY <1>2, <1>4 DEF Destroyed, Telling
    <2>2. wire[i].h \in Handles
      BY Typed
    <2> QED BY <1>2, <2>1, <2>2
  <1>5. ASSUME NEW i \in 1..Len(wire'), wire'[i].ev = "toplevel"  PROVE Opened(i)'
    BY <1>4, <1>5 DEF Opened, Telling
  <1>6. ASSUME NEW i \in 1..Len(wire'), wire'[i].ev = "closed"  PROVE Ended(i)'
    BY <1>2, <1>4, <1>6 DEF Ended, Over, Telling
  <1>7. ASSUME NEW k \in 1..Len(requests'), requests'[k].op = "destroy"  PROVE Destroyed(k)'
    <2>1. requests'[k] = requests[k + 1] /\ Destroyed(k + 1) /\ k + 1 \in 1..Len(requests)
      BY <1>1, <1>7
    <2>2. requests[k + 1].h # g
      <3> SUFFICES ASSUME requests[k + 1].h = g PROVE FALSE
        OBVIOUS
      <3>1. k + 1 = 1
        BY <1>1, <1>2, <1>7, <2>1 DEF Destroyed
      <3> QED BY <3>1
    <2>3. handle'[requests'[k].h] = handle[requests'[k].h]
      <3>1. requests[k + 1].h \in Handles
        BY <2>1, Typed
      <3> QED BY <1>2, <2>1, <2>2, <3>1
    <2>4. ASSUME NEW j \in 1..Len(requests'), requests'[j].op = "destroy",
                 requests'[j].h = requests'[k].h
          PROVE j = k
      <3>1. j + 1 = k + 1
        BY <1>1, <2>1, <2>4 DEF Destroyed
      <3> QED BY <3>1
    <2> QED BY <1>2, <2>1, <2>3, <2>4 DEF Destroyed, Over
  <1> QED BY <1>3, <1>5, <1>6, <1>7

\* The events of a window that opens or closes.
LEMMA OpenWire ==
  ASSUME IInv, NEW w \in Windows, OpenWindow(w)
  PROVE \E h \in Handles :
           /\ handle[h] = None /\ handle' = [handle EXCEPT ![h] = w]
           /\ mishaps' = mishaps \cup {m \in {"reused"} : \E l \in learned : l.id = h}
           /\ \A i \in 1..Len(wire) : i \in 1..Len(wire') /\ wire'[i] = wire[i]
           /\ \A i \in 1..Len(wire') :
                 \/ i \in 1..Len(wire) /\ wire'[i] = wire[i]
                 \/ i = Len(wire) + 1 /\ wire'[i] = Toplevel(h, w)
                 \/ i = Len(wire) + 2 /\ wire'[i] = Title(h)
                 \/ i = Len(wire) + 3 /\ wire'[i] = DoneEvent(h)
           /\ connected => Len(wire') = Len(wire) + 3
  <1>0. TypeOK
    BY DEF IInv
  <1>1. PICK h \in Handles :
          /\ handle[h] = None /\ handle' = [handle EXCEPT ![h] = w]
          /\ mishaps' = mishaps \cup {m \in {"reused"} : \E l \in learned : l.id = h}
          /\ Send(<<Toplevel(h, w), Title(h), DoneEvent(h)>>)
    BY DEF OpenWindow
  <1>2. Toplevel(h, w) \in Events /\ Title(h) \in Events /\ DoneEvent(h) \in Events
    BY DEF Toplevel, Title, DoneEvent, Events, Numbers
  <1>3. <<Toplevel(h, w), Title(h), DoneEvent(h)>> \in Seq(Events)
    <2> HIDE DEF Events
    <2> QED BY <1>2
  <1>4. Len(wire) \in Nat
    BY <1>0 DEF TypeOK
  <1>5. \A i \in 1..Len(wire') :
           \/ i \in 1..Len(wire) /\ wire'[i] = wire[i]
           \/ /\ i > Len(wire) /\ i - Len(wire) \in 1..3
              /\ wire'[i] = <<Toplevel(h, w), Title(h), DoneEvent(h)>>[i - Len(wire)]
    BY <1>0, <1>1, <1>3, SendAt
  <1>6. ASSUME NEW i \in 1..Len(wire'), ~(i \in 1..Len(wire) /\ wire'[i] = wire[i])
        PROVE \/ i = Len(wire) + 1 /\ wire'[i] = Toplevel(h, w)
              \/ i = Len(wire) + 2 /\ wire'[i] = Title(h)
              \/ i = Len(wire) + 3 /\ wire'[i] = DoneEvent(h)
    <2>1. i > Len(wire) /\ i - Len(wire) \in {1, 2, 3}
          /\ wire'[i] = <<Toplevel(h, w), Title(h), DoneEvent(h)>>[i - Len(wire)]
      BY <1>4, <1>5, <1>6
    <2>2. CASE i - Len(wire) = 1  BY <1>4, <2>1, <2>2
    <2>3. CASE i - Len(wire) = 2  BY <1>4, <2>1, <2>3
    <2>4. CASE i - Len(wire) = 3  BY <1>4, <2>1, <2>4
    <2> QED BY <2>1, <2>2, <2>3, <2>4
  <1>7. \A i \in 1..Len(wire) : i \in 1..Len(wire') /\ wire'[i] = wire[i]
    BY <1>0, <1>1, <1>3, SendKeeps
  <1>8. connected => Len(wire') = Len(wire) + 3
    <2> SUFFICES ASSUME connected  PROVE Len(wire') = Len(wire) + 3
      OBVIOUS
    <2> DEFINE b == <<Toplevel(h, w), Title(h), DoneEvent(h)>>
    <2>1. wire' = wire \o b /\ wire \in Seq(Events) /\ b \in Seq(Events) /\ Len(b) = 3
      BY <1>0, <1>1, <1>3 DEF Send, TypeOK
    <2> HIDE DEF Events, b
    <2>2. Len(wire \o b) = Len(wire) + Len(b)
      BY <2>1, JoinAt
    <2> QED BY <2>1, <2>2
  <1> QED BY <1>1, <1>6, <1>7, <1>8

LEMMA CloseWire ==
  ASSUME IInv, NEW w \in Windows, CloseWindow(w)
  PROVE /\ HandleOf(w) \in Handles /\ handle[HandleOf(w)] = w
        /\ \A i \in 1..Len(wire) : i \in 1..Len(wire') /\ wire'[i] = wire[i]
        /\ \A i \in 1..Len(wire') :
              \/ i \in 1..Len(wire) /\ wire'[i] = wire[i]
              \/ i = Len(wire) + 1 /\ wire'[i] = Closed(HandleOf(w))
        /\ connected => /\ Len(wire) + 1 \in 1..Len(wire')
                        /\ wire'[Len(wire) + 1] = Closed(HandleOf(w))
  <1> DEFINE h == HandleOf(w)
  <1>0. TypeOK /\ Numbering
    BY DEF IInv
  <1>1. h \in Handles /\ handle[h] = w
    BY <1>0, CloseOpen, HandleHas, WlrAssumption
  <1>2. Closed(h) \in Events
    BY <1>1 DEF Closed, Events, Numbers
  <1>3. <<Closed(h)>> \in Seq(Events)
    <2> HIDE DEF Events
    <2> QED BY <1>2
  <1>4. Send(<<Closed(h)>>) /\ Len(wire) \in Nat
    BY <1>0 DEF CloseWindow, TypeOK
  <1>5. \A i \in 1..Len(wire') :
           \/ i \in 1..Len(wire) /\ wire'[i] = wire[i]
           \/ /\ i > Len(wire) /\ i - Len(wire) \in 1..1
              /\ wire'[i] = <<Closed(h)>>[i - Len(wire)]
    BY <1>0, <1>3, <1>4, SendAt
  <1>6. ASSUME NEW i \in 1..Len(wire'), ~(i \in 1..Len(wire) /\ wire'[i] = wire[i])
        PROVE i = Len(wire) + 1 /\ wire'[i] = Closed(h)
    <2>1. i - Len(wire) = 1 /\ i > Len(wire) /\ wire'[i] = <<Closed(h)>>[i - Len(wire)]
      BY <1>4, <1>5, <1>6
    <2> QED BY <1>4, <2>1
  <1>7. \A i \in 1..Len(wire) : i \in 1..Len(wire') /\ wire'[i] = wire[i]
    BY <1>0, <1>3, <1>4, SendKeeps
  <1>8. connected => Len(wire) + 1 \in 1..Len(wire') /\ wire'[Len(wire) + 1] = Closed(h)
    BY <1>0, <1>2, <1>4, SendLast
  <1> QED BY <1>1, <1>6, <1>7, <1>8

LEMMA OpenAnnouncing ==
  ASSUME IInv, NEW w \in Windows, OpenWindow(w)  PROVE Announcing'
  <1> USE DEF IInv, Announcing
  <1>1. PICK h \in Handles :
          /\ handle[h] = None /\ handle' = [handle EXCEPT ![h] = w]
          /\ \A i \in 1..Len(wire') :
                \/ i \in 1..Len(wire) /\ wire'[i] = wire[i]
                \/ i = Len(wire) + 1 /\ wire'[i] = Toplevel(h, w)
                \/ i = Len(wire) + 2 /\ wire'[i] = Title(h)
                \/ i = Len(wire) + 3 /\ wire'[i] = DoneEvent(h)
    BY OpenWire
  <1>2. UNCHANGED <<requests, known, stands>> /\ w \in unborn
    BY DEF OpenWindow, Change, mirror
  <1>3. open' = open \cup {w}
    BY OpenGains
  <1>4. \A g \in Handles : g # h => handle'[g] = handle[g]
    BY <1>1 DEF TypeOK
  <1>5. handle'[h] = w /\ w # None /\ \A g \in Handles : handle[g] # w
    BY <1>1, <1>2, WlrAssumption DEF TypeOK, Numbering
  <1>6. h \notin known
        /\ (\A i \in 1..Len(wire) : Telling(wire[i]) => wire[i].h # h)
        /\ (\A k \in 1..Len(requests) : requests[k].op = "destroy" => requests[k].h # h)
    BY <1>1, WlrAssumption DEF Mirrored, Opened, Ended, Destroyed, Over, Telling
  <1>7. \A i \in 1..Len(wire') :
           \/ i \in 1..Len(wire) /\ wire'[i] = wire[i]
           \/ i = Len(wire) + 1 /\ wire'[i] = Toplevel(h, w)
           \/ i > Len(wire) /\ ~Telling(wire'[i])
    <2>1. ~Telling(Title(h)) /\ ~Telling(DoneEvent(h)) /\ Len(wire) \in Nat
      BY DEF Telling, Title, DoneEvent, TypeOK
    <2> QED BY <1>1, <2>1
  <1>8. Toplevel(h, w).ev = "toplevel" /\ Toplevel(h, w).h = h /\ Toplevel(h, w).win = w
    BY DEF Toplevel
  <1>9. Mirrored'
    BY <1>2, <1>4, <1>6 DEF Mirrored, TypeOK
  <1>10. ASSUME NEW i \in 1..Len(wire'), wire'[i].ev = "toplevel"  PROVE Opened(i)'
    <2>1. CASE i \in 1..Len(wire) /\ wire'[i] = wire[i]
      <3>1. Opened(i) /\ wire[i].h # h /\ wire[i].h \in Handles
        BY <1>6, <1>10, <2>1, Typed DEF Telling
      <3>2. ASSUME NEW j \in 1..Len(wire'), wire'[j].ev = "toplevel", wire'[j].h = wire'[i].h
            PROVE j = i
        <4>1. j \in 1..Len(wire) /\ wire'[j] = wire[j]
          BY <1>7, <1>8, <2>1, <3>1, <3>2 DEF Telling
        <4> QED BY <2>1, <3>1, <3>2, <4>1 DEF Opened
      <3> QED BY <1>2, <1>4, <2>1, <3>1, <3>2 DEF Opened
    <2>2. CASE i = Len(wire) + 1 /\ wire'[i] = Toplevel(h, w)
      <3>1. ASSUME NEW j \in 1..Len(wire'), wire'[j].ev = "toplevel", wire'[j].h = h
            PROVE j = i
        BY <1>6, <1>7, <2>2, <3>1 DEF Telling
      <3> QED BY <1>2, <1>5, <1>6, <1>8, <2>2, <3>1 DEF Opened
    <2> QED BY <1>7, <1>10, <2>1, <2>2 DEF Telling
  <1>11. ASSUME NEW i \in 1..Len(wire'), wire'[i].ev = "closed"  PROVE Ended(i)'
    <2>1. i \in 1..Len(wire) /\ wire'[i] = wire[i]
      BY <1>7, <1>8, <1>11 DEF Telling
    <2>2. Ended(i) /\ wire[i].h # h /\ wire[i].h \in Handles
      BY <1>6, <1>11, <2>1, Typed DEF Telling
    <2>3. ASSUME NEW j \in 1..Len(wire'), wire'[j].ev \in {"toplevel", "closed"},
                 wire'[j].h = wire'[i].h
          PROVE j <= i
      <3>1. j \in 1..Len(wire) /\ wire'[j] = wire[j]
        BY <1>7, <1>8, <2>1, <2>2, <2>3 DEF Telling
      <3> QED BY <2>1, <2>2, <2>3, <3>1 DEF Ended
    <2>4. handle'[wire'[i].h] = handle[wire[i].h]
      BY <1>4, <2>1, <2>2
    <2> QED BY <1>3, <1>5, <2>1, <2>2, <2>3, <2>4 DEF Ended, Over
  <1>12. ASSUME NEW k \in 1..Len(requests'), requests'[k].op = "destroy"  PROVE Destroyed(k)'
    <2>1. Destroyed(k) /\ requests'[k] = requests[k] /\ requests[k].h # h
          /\ requests[k].h \in Handles
      BY <1>2, <1>6, <1>12, Typed
    <2>2. handle'[requests'[k].h] = handle[requests[k].h]
      BY <1>4, <2>1
    <2>3. ASSUME NEW j \in 1..Len(wire'), wire'[j].ev \in {"toplevel", "closed"}
          PROVE wire'[j].h # requests'[k].h
      BY <1>7, <1>8, <2>1, <2>3 DEF Destroyed, Telling
    <2> QED BY <1>2, <1>3, <1>5, <2>1, <2>2, <2>3 DEF Destroyed, Over
  <1> QED BY <1>9, <1>10, <1>11, <1>12

LEMMA CloseAnnouncing ==
  ASSUME IInv, NEW w \in Windows, CloseWindow(w)  PROVE Announcing'
  <1> USE DEF IInv, Announcing
  <1> DEFINE h == HandleOf(w)
  <1>1. open' = open \ {w} /\ w \in open /\ UNCHANGED <<handle, known, stands, requests>>
    BY CloseOpen DEF CloseWindow, Change, mirror
  <1>2. h \in Handles /\ handle[h] = w /\ w # None
    BY <1>1, HandleHas, WlrAssumption
  <1>3. \A i \in 1..Len(wire') :
           \/ i \in 1..Len(wire) /\ wire'[i] = wire[i]
           \/ i = Len(wire) + 1 /\ wire'[i] = Closed(h)
    BY CloseWire
  <1>4. Closed(h).ev = "closed" /\ Closed(h).h = h
    BY DEF Closed
  <1>5. Len(wire) \in Nat
    BY DEF TypeOK
  <1>6. \A g : Over(g) => Over(g)'
    BY <1>1 DEF Over
  <1> HIDE DEF h
  <1>7. Mirrored'
    BY <1>1 DEF Mirrored
  <1>8. ASSUME NEW i \in 1..Len(wire'), wire'[i].ev = "toplevel"  PROVE Opened(i)'
    <2>1. i \in 1..Len(wire) /\ wire'[i] = wire[i] /\ Opened(i)
      BY <1>3, <1>4, <1>8
    <2>2. ASSUME NEW j \in 1..Len(wire'), wire'[j].ev = "toplevel", wire'[j].h = wire'[i].h
          PROVE j = i
      <3>1. j \in 1..Len(wire) /\ wire'[j] = wire[j]
        BY <1>3, <1>4, <2>2
      <3> QED BY <2>1, <2>2, <3>1 DEF Opened
    <2> QED BY <1>1, <2>1, <2>2 DEF Opened
  <1>9. ASSUME NEW i \in 1..Len(wire'), wire'[i].ev = "closed"  PROVE Ended(i)'
    <2>1. CASE i \in 1..Len(wire) /\ wire'[i] = wire[i]
      <3>1. Ended(i) /\ wire[i].h # h
        BY <1>1, <1>2, <1>9, <2>1 DEF Ended, Over
      <3>2. ASSUME NEW j \in 1..Len(wire'), wire'[j].ev \in {"toplevel", "closed"},
                   wire'[j].h = wire'[i].h
            PROVE j <= i
        <4>1. j \in 1..Len(wire) /\ wire'[j] = wire[j]
          BY <1>3, <1>4, <2>1, <3>1, <3>2
        <4> QED BY <2>1, <3>1, <3>2, <4>1 DEF Ended
      <3>3. handle[wire[i].h] \notin open'
        BY <1>1, <3>1 DEF Ended, Over
      <3> QED BY <1>1, <2>1, <3>1, <3>2, <3>3 DEF Ended, Over
    <2>2. CASE i = Len(wire) + 1 /\ wire'[i] = Closed(h)
      <3>1. \A j \in 1..Len(wire') : j <= i
        BY <1>3, <1>5, <2>2
      <3> QED BY <1>1, <1>2, <1>4, <2>2, <3>1 DEF Ended, Over
    <2> QED BY <1>3, <2>1, <2>2
  <1>10. ASSUME NEW k \in 1..Len(requests'), requests'[k].op = "destroy"  PROVE Destroyed(k)'
    <2>1. Destroyed(k) /\ requests'[k] = requests[k] /\ requests[k].h # h
      BY <1>1, <1>2, <1>10 DEF Destroyed, Over
    <2>2. ASSUME NEW j \in 1..Len(wire'), wire'[j].ev \in {"toplevel", "closed"}
          PROVE wire'[j].h # requests'[k].h
      BY <1>3, <1>4, <2>1, <2>2 DEF Destroyed
    <2>3. handle[requests[k].h] \notin open'
      BY <1>1, <2>1 DEF Destroyed, Over
    <2> QED BY <1>1, <2>1, <2>2, <2>3 DEF Destroyed, Over
  <1> QED BY <1>7, <1>8, <1>9, <1>10

LEMMA RenewAnnouncing ==
  ASSUME IInv, Renew  PROVE Announcing'
  <1>1. wire' = <<>> /\ requests' = <<>> /\ known' = 1..Len(stack)
        /\ handle' = Numbered(stack) /\ stands' = handle'
    BY DEF Renew
  <1>2. Len(stack) \in Nat /\ Len(stack) <= MaxHandles
        /\ \A n \in 1..Len(stack) : stack[n] \in Windows
    BY FewWindows DEF IInv, TypeOK
  <1>3. \A n \in 1..Len(stack) : handle'[n] = stack[n] /\ handle'[n] # None
    BY <1>1, <1>2, WlrAssumption DEF Numbered, Handles
  <1> QED BY <1>1, <1>3 DEF Announcing, Mirrored

LEMMA ServeAnnouncing ==
  ASSUME IInv, TypeOK', Serve  PROVE Announcing'
  <1> DEFINE r == Head(requests)
             w == handle[r.h]
  <1>1. /\ UNCHANGED <<stack, known, stands>> /\ requests # <<>> /\ requests' = Tail(requests)
        /\ wire \in Seq(Events) /\ requests \in Seq(Requests) /\ TypeOK /\ Numbering
    BY DEF Serve, mirror, IInv, TypeOK
  <1>2. \A k \in 1..Len(requests') : k + 1 \in 1..Len(requests) /\ requests'[k] = requests[k + 1]
    <2> HIDE DEF Requests
    <2> QED BY <1>1, TailAt
  <1>3. CASE r.op = "destroy" /\ handle' = [handle EXCEPT ![r.h] = None] /\ wire' = wire
    BY <1>1, <1>3, DestroyAnnouncing
  <1>4. ASSUME NEW b \in Seq(Events), Send(b), \A i \in 1..Len(b) : ~Telling(b[i]),
               UNCHANGED handle
        PROVE Announcing'
    <2>1. \A i \in 1..Len(wire') : \/ i + 0 \in 1..Len(wire) /\ wire'[i] = wire[i + 0]
                                   \/ ~Telling(wire'[i])
      <3> SUFFICES ASSUME NEW i \in 1..Len(wire')
                   PROVE \/ i + 0 \in 1..Len(wire) /\ wire'[i] = wire[i + 0]
                         \/ ~Telling(wire'[i])
        OBVIOUS
      <3>1. \/ i \in 1..Len(wire) /\ wire'[i] = wire[i]
            \/ i - Len(wire) \in 1..Len(b) /\ wire'[i] = b[i - Len(wire)]
        BY <1>1, <1>4, SendAt
      <3>2. i + 0 = i
        OBVIOUS
      <3> QED BY <1>4, <3>1, <3>2
    <2> QED BY <1>1, <1>2, <1>4, <2>1, AnnouncingKept
  <1>5. CASE Send(<<Callback>>) /\ UNCHANGED handle
    <2>1. Callback \in Events /\ ~Telling(Callback)
      BY WlrAssumption DEF Callback, Events, Numbers, Handles, Telling
    <2>2. <<Callback>> \in Seq(Events)
      <3> HIDE DEF Events
      <3> QED BY <2>1
    <2>3. \A i \in 1..Len(<<Callback>>) : ~Telling(<<Callback>>[i])
      BY <2>1
    <2> QED BY <1>4, <1>5, <2>2, <2>3
  <1>6. CASE w \in open /\ Send(FocusEvents(active, w)) /\ UNCHANGED handle
    <2>1. FocusEvents(active, w) \in Seq(Quiet)
      BY <1>1, <1>6, FocusIsQuiet DEF Numbering
    <2> QED BY <1>4, <1>6, <2>1, QuietTells
  <1>7. CASE UNCHANGED <<wire, handle>>
    <2>1. \A i \in 1..Len(wire') : i + 0 \in 1..Len(wire) /\ wire'[i] = wire[i + 0]
      BY <1>1, <1>7
    <2> QED BY <1>1, <1>2, <1>7, <2>1, AnnouncingKept
  <1> QED BY <1>3, <1>5, <1>6, <1>7 DEF Serve

\* Steps that send a quiet batch and touch no request.
LEMMA BatchAnnouncing ==
  ASSUME IInv, TypeOK', NEW b \in Seq(Quiet), Send(b),
         UNCHANGED <<stack, handle, known, stands, requests>>
  PROVE Announcing'
  <1>1. b \in Seq(Events) /\ \A i \in 1..Len(b) : ~Telling(b[i])
    BY QuietTells
  <1>2. TypeOK
    BY DEF IInv
  <1>3. ASSUME NEW i \in 1..Len(wire')
        PROVE \/ i + 0 \in 1..Len(wire) /\ wire'[i] = wire[i + 0]
              \/ ~Telling(wire'[i])
    <2>1. \/ i \in 1..Len(wire) /\ wire'[i] = wire[i]
          \/ i - Len(wire) \in 1..Len(b) /\ wire'[i] = b[i - Len(wire)]
      BY <1>1, <1>2, SendAt
    <2>2. i + 0 = i
      OBVIOUS
    <2> QED BY <1>1, <2>1, <2>2
  <1>4. \A k \in 1..Len(requests') : k + 0 \in 1..Len(requests) /\ requests'[k] = requests[k + 0]
    BY <1>2 DEF TypeOK
  <1> QED BY <1>3, <1>4, AnnouncingKept

\* Steps that send no event and append a request that destroys nothing.
LEMMA RequestAnnouncing ==
  ASSUME IInv, TypeOK', NEW r \in Requests, r.op # "destroy",
         requests' = requests \/ requests' = Append(requests, r),
         UNCHANGED <<stack, handle, known, stands, wire>>
  PROVE Announcing'
  <1>1. wire \in Seq(Events) /\ requests \in Seq(Requests)
    BY DEF IInv, TypeOK
  <1>2. \A i \in 1..Len(wire') : i + 0 \in 1..Len(wire) /\ wire'[i] = wire[i + 0]
    BY <1>1
  <1>3. \A k \in 1..Len(requests') : \/ k \in 1..Len(requests) /\ requests'[k] = requests[k]
                                     \/ requests'[k].op # "destroy"
    <2>1. CASE requests' = requests
      BY <2>1
    <2>2. CASE requests' = Append(requests, r)
      <3>1. \A k \in 1..Len(requests') :
               \/ k \in 1..Len(requests) /\ requests'[k] = requests[k]
               \/ requests'[k] = r
        <4> HIDE DEF Requests
        <4> QED BY <1>1, <2>2, AppendAt
      <3> QED BY <3>1
    <2> QED BY <2>1, <2>2
  <1>4. \A k \in 1..Len(requests') :
           \/ k + 0 \in 1..Len(requests) /\ requests'[k] = requests[k + 0]
           \/ requests'[k].op # "destroy"
    BY <1>3
  <1> QED BY <1>2, <1>4, AnnouncingKept

LEMMA AnnouncingStep ==
  ASSUME IInv, [Next]_vars  PROVE Announcing'
  <1>0. TypeOK' /\ Numbering /\ TypeOK
    BY TypeStep DEF IInv
  <1>1. CASE UNCHANGED <<stack, handle, known, stands, wire, requests>>
    BY <1>1 DEF IInv, Announcing, Mirrored, Opened, Ended, Destroyed, Over, open
  <1>2. ASSUME NEW t \in Tasks, Ask(t) \/ Cancel(t) \/ AnswerRead(t)  PROVE Announcing'
    BY <1>1, <1>2 DEF Ask, Cancel, AnswerRead, desktop, link, mirror
  <1>3. ASSUME NEW t \in Tasks, Act(t)  PROVE Announcing'
    <2>1. Request(kind[t], given[t], t) \in Requests /\ kind[t] # "destroy"
          /\ Request(kind[t], given[t], t).op = kind[t]
      BY <1>0, <1>3 DEF Act, TypeOK, Requests, Request, Targeted
    <2> QED BY <1>0, <1>3, <2>1, RequestAnnouncing DEF Act, desktop, mirror
  <1>4. CASE Recv
    <2>1. CASE requests' = requests
      BY <1>1, <1>4, <2>1 DEF Recv, desktop, mirror
    <2>2. CASE requests' = Append(requests, Request("sync", 1, Head(queue)))
               /\ Head(queue) # "shutdown" /\ queue # <<>>
      <3>1. Head(queue) \in Tasks \cup {"shutdown"}
        BY <1>0, <2>2 DEF TypeOK
      <3>2. Request("sync", 1, Head(queue)) \in Requests
            /\ Request("sync", 1, Head(queue)).op = "sync"
        BY <2>2, <3>1, WlrAssumption DEF Requests, Request, Targeted, Handles
      <3> QED BY <1>0, <1>4, <2>2, <3>2, RequestAnnouncing DEF Recv, desktop, mirror
    <2> QED BY <1>4, <2>1, <2>2 DEF Recv
  <1>5. CASE Dispatch
    <2>1. wire # <<>> /\ wire' = Tail(wire) /\ UNCHANGED <<stack, handle>>
      BY <1>5 DEF Dispatch, desktop
    <2>2. CASE Head(wire).ev = "toplevel" /\ OnToplevel(Head(wire))
      BY <1>0, <2>1, <2>2, OpenedDispatch
    <2>3. CASE Head(wire).ev = "closed" /\ OnClosed(Head(wire))
      BY <1>0, <2>1, <2>3, ClosedDispatch
    <2>4. CASE UNCHANGED <<known, stands, requests>>
      BY <1>0, <2>1, <2>4, QuietDispatch
    <2>5. \/ Head(wire).ev = "toplevel" /\ OnToplevel(Head(wire))
          \/ Head(wire).ev = "closed" /\ OnClosed(Head(wire))
          \/ UNCHANGED <<known, stands, requests>>
      BY <1>5 DEF Dispatch, OnTitle, OnState, OnDone, mirror
    <2> QED BY <2>2, <2>3, <2>4, <2>5
  <1>6. ASSUME NEW w \in Windows \cup {None}, Focus(w)  PROVE Announcing'
    <2>1. FocusEvents(active, w) \in Seq(Quiet)
      BY <1>0, <1>6, FocusIsQuiet DEF Numbering, Focus
    <2> QED BY <1>0, <1>6, <2>1, BatchAnnouncing DEF Focus, Change, mirror
  <1>7. ASSUME NEW w \in Windows, Retitle(w)  PROVE Announcing'
    <2>1. HandleOf(w) \in Handles
      BY <1>0, <1>7, HandleHas, OpenIs DEF Retitle
    <2>2. Title(HandleOf(w)) \in Quiet /\ DoneEvent(HandleOf(w)) \in Quiet
      BY <2>1 DEF Title, DoneEvent, Quiet, Events, Numbers
    <2>3. <<Title(HandleOf(w)), DoneEvent(HandleOf(w))>> \in Seq(Quiet)
      <3> HIDE DEF Quiet
      <3> QED BY <2>2
    <2> QED BY <1>0, <1>7, <2>3, BatchAnnouncing DEF Retitle, Change, mirror
  <1>8. CASE Lose
    <2>1. wire' = <<>> /\ requests' = <<>> /\ UNCHANGED <<handle, known, stands>>
      BY <1>8 DEF Lose, mirror
    <2> QED BY <2>1 DEF IInv, Announcing, Mirrored
  <1>9. CASE DropBackend \/ UNCHANGED vars
    BY <1>1, <1>9 DEF DropBackend, vars, desktop, link, mirror
  <1> QED BY <1>0, <1>2, <1>3, <1>4, <1>5, <1>6, <1>7, <1>8, <1>9, ServeAnnouncing,
          OpenAnnouncing, CloseAnnouncing, RenewAnnouncing DEF Next

------------------------------------------------------------------------------
(* Callers.                                                                *)

\* What a call asks stays as it is once it is made, and nothing told is untold.
LEMMA Lasting ==
  ASSUME IInv, [Next]_vars
  PROVE /\ learned \subseteq learned'
        /\ \A t \in Tasks : pc[t] # "idle" =>
              /\ pc'[t] # "idle" /\ kind'[t] = kind[t]
              /\ given'[t] = given[t] /\ wanted'[t] = wanted[t]
  <1>0. pc \in [Tasks -> {"idle", "asked", "cancelled", "ok", "not_found"}]
        /\ kind \in [Tasks -> {"list", "active", "activate", "close", None}]
        /\ given \in [Tasks -> Handles] /\ wanted \in [Tasks -> Numbers]
    BY DEF IInv, TypeOK
  <1>1. CASE UNCHANGED <<pc, kind, given, wanted, learned>>
    BY <1>1
  <1>2. ASSUME NEW t \in Tasks, Ask(t)
        PROVE UNCHANGED learned
              /\ \A u \in Tasks : pc[u] # "idle" =>
                    /\ pc'[u] # "idle" /\ kind'[u] = kind[u]
                    /\ given'[u] = given[u] /\ wanted'[u] = wanted[u]
    BY <1>0, <1>2 DEF Ask
  <1>3. ASSUME NEW t \in Tasks, Cancel(t) \/ AnswerRead(t) \/ Act(t)
        PROVE /\ learned \subseteq learned' /\ UNCHANGED <<kind, given, wanted>>
              /\ \A u \in Tasks : pc[u] # "idle" => pc'[u] # "idle"
    <2>1. learned \subseteq learned' /\ UNCHANGED <<kind, given, wanted>>
      BY <1>3 DEF Cancel, AnswerRead, Act
    <2>2. CASE pc' = [pc EXCEPT ![t] = "cancelled"]
      BY <1>0, <2>1, <2>2
    <2>3. ASSUME NEW v \in {"ok", "not_found"}, Reply(t, v)
          PROVE \A u \in Tasks : pc[u] # "idle" => pc'[u] # "idle"
      BY <1>0, <2>3 DEF Reply
    <2> QED BY <1>3, <2>1, <2>2, <2>3 DEF Cancel, AnswerRead, Act
  <1>4. CASE DropBackend \/ Recv \/ Dispatch \/ Serve \/ Lose \/ Renew \/ UNCHANGED vars
    BY <1>1, <1>4 DEF DropBackend, Recv, Dispatch, Serve, Lose, Renew, calls, vars
  <1>5. ASSUME NEW w \in Windows, OpenWindow(w) \/ CloseWindow(w) \/ Retitle(w)
        PROVE UNCHANGED <<pc, kind, given, wanted, learned>>
    BY <1>5 DEF OpenWindow, CloseWindow, Retitle, Change, calls
  <1>6. ASSUME NEW w \in Windows \cup {None}, Focus(w)
        PROVE UNCHANGED <<pc, kind, given, wanted, learned>>
    BY <1>6 DEF Focus, Change, calls
  <1> QED BY <1>1, <1>2, <1>3, <1>4, <1>5, <1>6 DEF Next

LEMMA QueueCallers ==
  ASSUME IInv, [Next]_vars
  PROVE \A i \in 1..Len(queue') : queue'[i] \in Tasks => pc'[queue'[i]] # "idle"
  <1> DEFINE Q(q) == \A i \in 1..Len(q) : q[i] \in Tasks => pc'[q[i]] # "idle"
  <1>0. queue \in Seq(Tasks \cup {"shutdown"}) /\ Q(queue)
    BY Lasting DEF IInv, TypeOK, Callers
  <1>1. CASE queue' = queue
    BY <1>0, <1>1
  <1>2. ASSUME NEW t \in Tasks \cup {"shutdown"}, queue' = Append(queue, t),
               t \in Tasks => pc'[t] # "idle"
        PROVE Q(queue')
    <2>1. \A i \in 1..Len(queue') :
             \/ i \in 1..Len(queue) /\ queue'[i] = queue[i]
             \/ queue'[i] = t
      BY <1>0, <1>2, AppendAt
    <2> QED BY <1>0, <1>2, <2>1
  <1>3. ASSUME queue # <<>>, queue' = Tail(queue)  PROVE Q(queue')
    <2>1. \A i \in 1..Len(queue') : i + 1 \in 1..Len(queue) /\ queue'[i] = queue[i + 1]
      BY <1>0, <1>3, TailAt
    <2> QED BY <1>0, <2>1
  <1>4. CASE queue' = <<>>
    BY <1>4
  <1>5. ASSUME NEW t \in Tasks, Ask(t)  PROVE Q(queue')
    <2>1. queue' = Append(queue, t) /\ pc'[t] # "idle" /\ t \in Tasks \cup {"shutdown"}
      BY <1>5 DEF Ask, IInv, TypeOK
    <2> QED BY <1>2, <2>1
  <1>6. ASSUME NEW t \in Tasks, Cancel(t) \/ AnswerRead(t) \/ Act(t)  PROVE queue' = queue
    BY <1>6 DEF Cancel, AnswerRead, Act, thread
  <1>7. CASE Dispatch \/ Serve \/ Lose \/ UNCHANGED vars
    BY <1>1, <1>7 DEF Dispatch, Serve, Lose, thread, vars
  <1>8. ASSUME NEW w \in Windows, OpenWindow(w) \/ CloseWindow(w) \/ Retitle(w)
        PROVE queue' = queue
    BY <1>8 DEF OpenWindow, CloseWindow, Retitle, Change, thread
  <1>9. ASSUME NEW w \in Windows \cup {None}, Focus(w)  PROVE queue' = queue
    BY <1>9 DEF Focus, Change, thread
  <1>10. CASE DropBackend
    <2>1. queue' = Append(queue, "shutdown") /\ "shutdown" \notin Tasks
      BY <1>10, WlrAssumption DEF DropBackend
    <2>2. "shutdown" \in Tasks => pc'["shutdown"] # "idle"
      BY <2>1
    <2>3. "shutdown" \in Tasks \cup {"shutdown"}
      OBVIOUS
    <2> QED BY <1>2, <2>1, <2>2, <2>3
  <1>11. CASE Recv \/ Renew
    BY <1>3, <1>4, <1>11 DEF Recv, Renew
  <1> QED BY <1>1, <1>5, <1>6, <1>7, <1>8, <1>9, <1>10, <1>11 DEF Next

LEMMA WorkerCalls ==
  ASSUME IInv, [Next]_vars  PROVE worker' \in Tasks => pc'[worker'] # "idle"
  <1> USE WlrAssumption
  <1>0. queue \in Seq(Tasks \cup {"shutdown"})
        /\ (worker \in Tasks => pc'[worker] # "idle")
        /\ \A i \in 1..Len(queue) : queue[i] \in Tasks => pc'[queue[i]] # "idle"
    BY Lasting DEF IInv, TypeOK, Callers
  <1>1. CASE UNCHANGED worker
    BY <1>0, <1>1
  <1>2. CASE worker' = None
    BY <1>2
  <1>3. ASSUME NEW t \in Tasks, Ask(t) \/ Cancel(t)  PROVE worker' = worker
    BY <1>3 DEF Ask, Cancel, thread
  <1>4. ASSUME NEW t \in Tasks, AnswerRead(t) \/ Act(t)  PROVE worker' = None
    BY <1>4 DEF AnswerRead, Act, Reply
  <1>5. CASE DropBackend \/ Dispatch \/ Serve \/ Lose \/ UNCHANGED vars
    BY <1>1, <1>5 DEF DropBackend, Dispatch, Serve, Lose, thread, vars
  <1>6. ASSUME NEW w \in Windows, OpenWindow(w) \/ CloseWindow(w) \/ Retitle(w)
        PROVE worker' = worker
    BY <1>6 DEF OpenWindow, CloseWindow, Retitle, Change, thread
  <1>7. ASSUME NEW w \in Windows \cup {None}, Focus(w)  PROVE worker' = worker
    BY <1>7 DEF Focus, Change, thread
  <1>8. CASE Renew
    BY <1>2, <1>8 DEF Renew
  <1>9. CASE Recv
    <2>1. Head(queue) = queue[1] /\ 1 \in 1..Len(queue)
      BY <1>0, <1>9, TailAt DEF Recv
    <2>2. worker' = "exited" \/ worker' = queue[1]
      BY <1>9, <2>1 DEF Recv
    <2> QED BY <1>0, <2>1, <2>2
  <1> QED BY <1>1, <1>2, <1>3, <1>4, <1>5, <1>6, <1>7, <1>8, <1>9 DEF Next

LEMMA AskedLearned ==
  ASSUME IInv, [Next]_vars, NEW t \in Tasks, pc'[t] # "idle", kind'[t] \in Targeted
  PROVE [id |-> given'[t], win |-> wanted'[t]] \in learned'
  <1>1. CASE pc[t] # "idle"
    BY <1>1, Lasting DEF IInv, Callers
  <1>2. CASE pc[t] = "idle"
    <2>0. pc \in [Tasks -> {"idle", "asked", "cancelled", "ok", "not_found"}]
          /\ kind \in [Tasks -> {"list", "active", "activate", "close", None}]
          /\ given \in [Tasks -> Handles] /\ wanted \in [Tasks -> Numbers]
          /\ learned \subseteq [id : Handles, win : Numbers]
      BY DEF IInv, TypeOK
    <2>1. ~UNCHANGED pc
      BY <1>2
    <2>2. \E u \in Tasks : Ask(u) \/ Cancel(u) \/ AnswerRead(u) \/ Act(u)
      BY <2>1 DEF Next, DropBackend, Recv, Dispatch, Serve, OpenWindow, CloseWindow, Retitle,
                  Focus, Change, Lose, Renew, vars, calls
    <2>3. PICK u \in Tasks : Ask(u) \/ Cancel(u) \/ AnswerRead(u) \/ Act(u)
      BY <2>2
    <2>4. CASE Ask(u)
      <3>1. u = t
        BY <1>2, <2>0, <2>4 DEF Ask
      <3>2. PICK k \in KindsUsed :
              /\ kind' = [kind EXCEPT ![t] = k]
              /\ IF k \in Targeted
                 THEN \E l \in learned : /\ given' = [given EXCEPT ![t] = l.id]
                                         /\ wanted' = [wanted EXCEPT ![t] = l.win]
                 ELSE UNCHANGED <<given, wanted>>
        BY <2>4, <3>1 DEF Ask
      <3>3. k \in Targeted
        BY <2>0, <3>2
      <3>4. PICK l \in learned : /\ given' = [given EXCEPT ![t] = l.id]
                                 /\ wanted' = [wanted EXCEPT ![t] = l.win]
        BY <3>2, <3>3
      <3>5. given'[t] = l.id /\ wanted'[t] = l.win /\ l = [id |-> l.id, win |-> l.win]
        BY <2>0, <3>4
      <3> QED BY <2>4, <3>5 DEF Ask
    <2>5. CASE Cancel(u) \/ AnswerRead(u) \/ Act(u)
      <3>1. pc'[t] = "idle" \/ pc' = [pc EXCEPT ![u] = "cancelled"]
        BY <1>2, <2>0, <2>5 DEF Cancel, AnswerRead, Act, Reply
      <3> QED BY <1>2, <2>0, <2>5, <3>1 DEF Cancel, AnswerRead, Act, Reply
    <2> QED BY <2>3, <2>4, <2>5
  <1> QED BY <1>1, <1>2

LEMMA HitCallers ==
  ASSUME IInv, [Next]_vars, NEW t \in Tasks, hit'[t] # {}  PROVE pc'[t] # "idle"
  <1>0. hit \in [Tasks -> SUBSET Windows] /\ requests \in Seq(Requests)
        /\ (hit[t] # {} => pc[t] # "idle")
    BY DEF IInv, TypeOK, Callers
  <1>1. CASE hit[t] # {}
    BY <1>0, <1>1, Lasting
  <1>2. CASE ~UNCHANGED hit
    <2>1. Serve
      BY <1>2 DEF Next, Ask, Cancel, AnswerRead, Act, DropBackend, Recv, Dispatch, OpenWindow,
                  CloseWindow, Retitle, Focus, Change, Lose, Renew, vars, calls
    <2>2. Head(requests) = requests[1] /\ 1 \in 1..Len(requests)
      <3> HIDE DEF Requests
      <3> QED BY <1>0, <2>1, TailAt DEF Serve
    <2>3. PICK x : hit' = [hit EXCEPT ![requests[1].by] = x] /\ requests[1].op \in Targeted
      BY <1>2, <2>1, <2>2 DEF Serve
    <2>4. pc[requests[1].by] # "idle" /\ requests[1].by \in Tasks
      BY <2>2, <2>3 DEF IInv, Callers
    <2>5. t = requests[1].by \/ hit'[t] = hit[t]
      BY <1>0, <2>3
    <2> QED BY <1>1, <2>4, <2>5, Lasting
  <1> QED BY <1>1, <1>2

\* What a step does to the requests.
LEMMA RecvRequests ==
  ASSUME IInv, Recv
  PROVE \/ requests' = requests
        \/ /\ worker' \in Tasks /\ requests' = Append(requests, Request("sync", 1, worker'))
           /\ Request("sync", 1, worker') \in Requests
  <1>1. CASE requests' = Append(requests, Request("sync", 1, Head(queue)))
             /\ Head(queue) # "shutdown" /\ queue # <<>> /\ worker' = Head(queue)
    <2>1. Head(queue) \in Tasks \cup {"shutdown"}
      BY <1>1 DEF IInv, TypeOK
    <2>2. Request("sync", 1, Head(queue)) \in Requests
      BY <1>1, <2>1, WlrAssumption DEF Requests, Request, Targeted, Handles
    <2> QED BY <1>1, <2>1, <2>2
  <1> QED BY <1>1 DEF Recv

LEMMA DispatchRequests ==
  ASSUME IInv, Dispatch
  PROVE \/ requests' = requests
        \/ /\ requests' = Append(requests, Request("destroy", Head(wire).h, None))
           /\ Request("destroy", Head(wire).h, None) \in Requests
  <1>1. CASE requests' = Append(requests, Request("destroy", Head(wire).h, None)) /\ wire # <<>>
    <2>1. Head(wire) = wire[1] /\ 1 \in 1..Len(wire)
      <3>1. wire \in Seq(Events)
        BY DEF IInv, TypeOK
      <3> HIDE DEF Events
      <3> QED BY <1>1, <3>1, TailAt
    <2>2. Request("destroy", Head(wire).h, None) \in Requests
      BY <2>1, Typed DEF IInv, Requests, Request
    <2> QED BY <1>1, <2>2
  <1> QED BY <1>1 DEF Dispatch, OnToplevel, OnTitle, OnState, OnDone, OnClosed

LEMMA ActRequests ==
  ASSUME IInv, NEW t \in Tasks, Act(t)
  PROVE \/ requests' = requests
        \/ /\ requests' = Append(requests, Request(kind[t], given[t], t))
           /\ Request(kind[t], given[t], t) \in Requests
  <1>1. Request(kind[t], given[t], t) \in Requests
    BY DEF Act, IInv, TypeOK, Requests, Request, Targeted
  <1> QED BY <1>1 DEF Act

LEMMA RequestStep ==
  ASSUME [Next]_vars
  PROVE \/ requests' = requests
        \/ requests' = <<>> /\ (Lose \/ Renew)
        \/ Recv \/ Dispatch \/ Serve
        \/ \E t \in Tasks : Act(t)
  <1>1. ASSUME NEW t \in Tasks, Ask(t) \/ Cancel(t) \/ AnswerRead(t)  PROVE requests' = requests
    BY <1>1 DEF Ask, Cancel, AnswerRead, link
  <1>2. CASE DropBackend \/ Lose \/ Renew \/ UNCHANGED vars
    BY <1>2 DEF DropBackend, Lose, Renew, link, vars
  <1>3. ASSUME NEW w \in Windows, OpenWindow(w) \/ CloseWindow(w) \/ Retitle(w)
        PROVE requests' = requests
    BY <1>3 DEF OpenWindow, CloseWindow, Retitle, Change
  <1>4. ASSUME NEW w \in Windows \cup {None}, Focus(w)  PROVE requests' = requests
    BY <1>4 DEF Focus, Change
  <1> QED BY <1>1, <1>2, <1>3, <1>4 DEF Next

LEMMA TailRequests ==
  ASSUME TypeOK, requests # <<>>, requests' = Tail(requests)
  PROVE /\ Head(requests) = requests[1] /\ 1 \in 1..Len(requests)
        /\ \A k \in 1..Len(requests') : k + 1 \in 1..Len(requests) /\ requests'[k] = requests[k + 1]
  <1>1. requests \in Seq(Requests)
    BY DEF TypeOK
  <1> HIDE DEF Requests
  <1> QED BY <1>1, TailAt

LEMMA AppendRequest ==
  ASSUME TypeOK, NEW r \in Requests, requests' = Append(requests, r)
  PROVE \A k \in 1..Len(requests') :
           \/ k \in 1..Len(requests) /\ requests'[k] = requests[k]
           \/ k = Len(requests) + 1 /\ requests'[k] = r
  <1>1. requests \in Seq(Requests)
    BY DEF TypeOK
  <1> HIDE DEF Requests
  <1> QED BY <1>1, AppendAt

LEMMA RequestCallers ==
  ASSUME IInv, [Next]_vars
  PROVE \A k \in 1..Len(requests') : requests'[k].op \in Targeted =>
           /\ requests'[k].by \in Tasks /\ requests'[k].h = given'[requests'[k].by]
           /\ kind'[requests'[k].by] \in Targeted /\ pc'[requests'[k].by] # "idle"
  <1> DEFINE Rightful(r) == r.op \in Targeted =>
                /\ r.by \in Tasks /\ r.h = given'[r.by]
                /\ kind'[r.by] \in Targeted /\ pc'[r.by] # "idle"
  <1>0. requests \in Seq(Requests) /\ \A k \in 1..Len(requests) : Rightful(requests[k])
    <2>1. requests \in Seq(Requests)
      BY DEF IInv, TypeOK
    <2>2. ASSUME NEW k \in 1..Len(requests)  PROVE Rightful(requests[k])
      BY Lasting DEF IInv, Callers
    <2> QED BY <2>1, <2>2
  <1>1. CASE requests' = requests
    BY <1>0, <1>1
  <1>2. CASE requests' = <<>>
    BY <1>2
  <1>3. ASSUME NEW r \in Requests, Rightful(r), requests' = requests \/ requests' = Append(requests, r)
        PROVE \A k \in 1..Len(requests') : Rightful(requests'[k])
    <2>1. CASE requests' = Append(requests, r)
      <3>1. \A k \in 1..Len(requests') :
               \/ k \in 1..Len(requests) /\ requests'[k] = requests[k]
               \/ requests'[k] = r
        <4> HIDE DEF Requests
        <4> QED BY <1>0, <2>1, AppendAt
      <3> HIDE DEF Rightful
      <3> QED BY <1>0, <1>3, <3>1
    <2> QED BY <1>1, <1>3, <2>1
  <1>4. CASE Serve
    <2>1. \A k \in 1..Len(requests') : k + 1 \in 1..Len(requests) /\ requests'[k] = requests[k + 1]
      BY <1>4, TailRequests DEF Serve, IInv
    <2> QED BY <1>0, <2>1
  <1>5. ASSUME NEW t \in Tasks, Act(t)
        PROVE \A k \in 1..Len(requests') : Rightful(requests'[k])
    <2>1. kind[t] \in Targeted /\ pc[t] # "idle" /\ worker = t
      BY <1>5 DEF Act, IInv, Callers
    <2>2. Rightful(Request(kind[t], given[t], t))
      BY <1>5, <2>1, Lasting DEF Request, Act
    <2> QED BY <1>1, <1>3, <1>5, <2>2, ActRequests
  <1>6. CASE Recv
    <2>1. Rightful(Request("sync", 1, worker'))
      BY DEF Request, Targeted
    <2> QED BY <1>1, <1>3, <1>6, <2>1, RecvRequests
  <1>7. CASE Dispatch
    <2>1. Rightful(Request("destroy", Head(wire).h, None))
      BY DEF Request, Targeted
    <2> QED BY <1>1, <1>3, <1>7, <2>1, DispatchRequests
  <1> QED BY <1>1, <1>2, <1>4, <1>5, <1>6, <1>7, RequestStep

LEMMA CallersStep ==
  ASSUME IInv, [Next]_vars  PROVE Callers'
  BY QueueCallers, WorkerCalls, HitCallers, AskedLearned, RequestCallers DEF Callers

------------------------------------------------------------------------------
(* What was told.                                                          *)

LEMMA MishapsGrow ==
  ASSUME [Next]_vars  PROVE mishaps \subseteq mishaps' /\ unborn' \subseteq unborn
  <1>1. CASE UNCHANGED <<mishaps, unborn>>
    BY <1>1
  <1>2. ASSUME NEW t \in Tasks, Ask(t) \/ Cancel(t) \/ AnswerRead(t) \/ Act(t)
        PROVE UNCHANGED <<mishaps, unborn>>
    BY <1>2 DEF Ask, Cancel, AnswerRead, Act, desktop
  <1>3. CASE DropBackend \/ Recv \/ Dispatch \/ Serve \/ UNCHANGED vars
    BY <1>1, <1>3 DEF DropBackend, Recv, Dispatch, Serve, desktop, vars
  <1>4. CASE Lose \/ Renew
    BY <1>4 DEF Lose, Renew
  <1>5. ASSUME NEW w \in Windows, OpenWindow(w) \/ CloseWindow(w) \/ Retitle(w)
        PROVE mishaps \subseteq mishaps' /\ unborn' \subseteq unborn
    BY <1>5 DEF OpenWindow, CloseWindow, Retitle
  <1>6. ASSUME NEW w \in Windows \cup {None}, Focus(w)  PROVE UNCHANGED <<mishaps, unborn>>
    BY <1>6 DEF Focus
  <1> QED BY <1>1, <1>2, <1>3, <1>4, <1>5, <1>6 DEF Next

LEMMA HandleStep ==
  ASSUME IInv, [Next]_vars, OneSession', NEW l \in learned
  PROVE handle'[l.id] \in {handle[l.id], None}
  <1>0. handle \in [Handles -> Numbers] /\ l.id \in Handles
    BY DEF IInv, TypeOK
  <1>1. CASE handle' = handle
    BY <1>1
  <1>2. ASSUME NEW t \in Tasks, Ask(t) \/ Cancel(t) \/ AnswerRead(t) \/ Act(t)
        PROVE handle' = handle
    BY <1>2 DEF Ask, Cancel, AnswerRead, Act, desktop
  <1>3. CASE DropBackend \/ Recv \/ Dispatch \/ Lose \/ UNCHANGED vars
    BY <1>1, <1>3 DEF DropBackend, Recv, Dispatch, Lose, desktop, vars
  <1>4. CASE Serve
    BY <1>0, <1>4 DEF Serve
  <1>5. ASSUME NEW w \in Windows, OpenWindow(w)  PROVE handle'[l.id] = handle[l.id]
    <2>1. PICK h \in Handles :
            /\ handle' = [handle EXCEPT ![h] = w]
            /\ mishaps' = mishaps \cup {m \in {"reused"} : \E k \in learned : k.id = h}
      BY <1>5 DEF OpenWindow
    <2>2. l.id # h
      BY <2>1 DEF OneSession
    <2> QED BY <1>0, <2>1, <2>2
  <1>6. ASSUME NEW w \in Windows, CloseWindow(w) \/ Retitle(w)  PROVE handle' = handle
    BY <1>6 DEF CloseWindow, Retitle
  <1>7. ASSUME NEW w \in Windows \cup {None}, Focus(w)  PROVE handle' = handle
    BY <1>7 DEF Focus
  <1>8. CASE Renew
    BY <1>8 DEF Renew, OneSession
  <1> QED BY <1>1, <1>2, <1>3, <1>4, <1>5, <1>6, <1>7, <1>8 DEF Next

\* What a list reply tells is what the mirror has.
LEMMA Learns ==
  ASSUME [Next]_vars, NEW l \in learned', l \notin learned
  PROVE /\ \E h \in known : l = [id |-> h, win |-> stands[h]]
        /\ UNCHANGED <<stack, active, handle, unborn, known, wire, requests, connected>>
  <1>1. ~UNCHANGED learned
    OBVIOUS
  <1>2. PICK t \in Tasks : AnswerRead(t)
    BY <1>1 DEF Next, Ask, Cancel, Act, DropBackend, Recv, Dispatch, Serve, OpenWindow, CloseWindow,
                Retitle, Focus, Change, Lose, Renew, vars, calls
  <1> QED BY <1>2 DEF AnswerRead, desktop, mirror, link

LEMMA ValidStep ==
  ASSUME IInv, [Next]_vars, OneSession'  PROVE Valid'
  <1>0. OneSession /\ Valid
    BY MishapsGrow DEF OneSession, IInv
  <1>1. ASSUME NEW l \in learned
        PROVE l.win # None /\ l.win \notin unborn' /\ handle'[l.id] \in {l.win, None}
    BY <1>0, HandleStep, MishapsGrow DEF Valid
  <1>2. ASSUME NEW l \in learned', l \notin learned
        PROVE l.win # None /\ l.win \notin unborn' /\ handle'[l.id] \in {l.win, None}
    <2>1. PICK h \in known : l = [id |-> h, win |-> stands[h]]
      BY <1>2, Learns
    <2>2. handle[h] # None /\ stands[h] = handle[h] /\ h \in Handles
      BY DEF IInv, TypeOK, Announcing, Mirrored
    <2>3. handle[h] \notin unborn
      BY <2>2 DEF IInv, Numbering
    <2>4. handle' = handle /\ unborn' = unborn
      BY <1>2, Learns
    <2> QED BY <2>1, <2>2, <2>3, <2>4
  <1> QED BY <1>1, <1>2 DEF Valid

LEMMA ReachedStep ==
  ASSUME IInv, [Next]_vars, OneSession'  PROVE Reached'
  <1> SUFFICES ASSUME NEW t \in Tasks, hit'[t] # {}  PROVE hit'[t] \subseteq {wanted'[t]}
    BY DEF Reached
  <1>0. OneSession /\ Valid /\ Reached
    BY MishapsGrow DEF OneSession, IInv
  <1>1. hit \in [Tasks -> SUBSET Windows] /\ requests \in Seq(Requests)
    BY DEF IInv, TypeOK
  <1>2. CASE hit'[t] = hit[t]
    <2>1. pc[t] # "idle"
      BY <1>2 DEF IInv, Callers
    <2>2. wanted'[t] = wanted[t]
      BY <2>1, Lasting
    <2> QED BY <1>0, <1>2, <2>2 DEF Reached
  <1>3. CASE hit'[t] # hit[t]
    <2>1. Serve
      BY <1>3 DEF Next, Ask, Cancel, AnswerRead, Act, DropBackend, Recv, Dispatch, OpenWindow,
                  CloseWindow, Retitle, Focus, Change, Lose, Renew, vars, calls
    <2>2. Head(requests) = requests[1] /\ 1 \in 1..Len(requests)
      <3> HIDE DEF Requests
      <3> QED BY <1>1, <2>1, TailAt DEF Serve
    <2>3. /\ hit' = [hit EXCEPT ![requests[1].by] = {handle[requests[1].h]} \cap open]
          /\ requests[1].op \in Targeted
      BY <1>3, <2>1, <2>2 DEF Serve
    <2>4. t = requests[1].by
      BY <1>1, <1>3, <2>3
    <2>5. requests[1].h = given[t] /\ kind[t] \in Targeted /\ pc[t] # "idle"
      BY <2>2, <2>3, <2>4 DEF IInv, Callers
    <2>6. [id |-> given[t], win |-> wanted[t]] \in learned
      BY <2>5 DEF IInv, Callers
    <2>7. handle[given[t]] \in {wanted[t], None}
      BY <1>0, <2>6 DEF Valid
    <2>8. None \notin open
      BY OpenIs DEF IInv
    <2>9. hit'[t] = {handle[given[t]]} \cap open
      BY <1>1, <2>3, <2>4, <2>5
    <2>10. wanted'[t] = wanted[t]
      BY <2>5, Lasting
    <2> QED BY <2>7, <2>8, <2>9, <2>10
  <1> QED BY <1>2, <1>3

LEMMA InitIInv == Init => IInv
  <1> SUFFICES ASSUME Init  PROVE IInv
    OBVIOUS
  <1>1. TypeOK /\ Numbering /\ Announcing
    BY InitTypes, InitNumbering, InitAnnouncing
  <1>2. Callers /\ Valid /\ Reached
    BY WlrAssumption DEF Init, Callers, Valid, Reached, Targeted
  <1> QED BY <1>1, <1>2 DEF IInv

LEMMA IInvStep == IInv /\ [Next]_vars => IInv'
  BY TypeStep, NumberingStep, AnnouncingStep, CallersStep, ValidStep, ReachedStep DEF IInv

\* The inductive invariant holds throughout: every window has one number, the
\* mirror and every announcement have it right, and the end of a number comes
\* last (the Closed and Handle::destroy of the toplevel handler).
THEOREM NumbersAgree == Spec => []IInv
  <1>1. Init => IInv
    BY InitIInv
  <1>2. IInv /\ [Next]_vars => IInv'
    BY IInvStep
  <1> QED BY <1>1, <1>2, PTL DEF Spec

\* activate_window and close_window act on no other window than the one that
\* the caller was told the id of.
THEOREM OnlyTheWindowMeant == Spec => []ActsOnWanted
  <1>1. IInv => ActsOnWanted
    BY DEF IInv, ActsOnWanted, OneSession, Reached
  <1> QED BY <1>1, NumbersAgree, PTL

------------------------------------------------------------------------------
(* Verdicts.  Whoever waits has seen the desktop as it is; a closed window *)
(* that the mirror still has, or will have, is yet to be reported closed;  *)
(* and there is one roundtrip at a time, whose answer is sent after all    *)
(* that happened before it.                                                *)

Watching == \A t \in Asked : View(stack, active) \in during[t]
Coming(h) == \E i \in 1..Len(wire) : wire[i].ev = "closed" /\ wire[i].h = h
Living(h) == handle[h] \in open \/ Coming(h)
Ending == connected =>
    /\ \A h \in known : Living(h)
    /\ \A i \in 1..Len(wire) : wire[i].ev = "toplevel" => Living(wire[i].h)
Roundtrip == connected =>
    /\ \A i \in 1..Len(wire) : wire[i].ev = "callback" =>
          /\ worker \in Tasks /\ ~synced
          /\ \A j \in 1..Len(wire) : wire[j].ev = "callback" => j = i
          /\ \A k \in 1..Len(requests) : requests[k].op # "sync"
    /\ \A k \in 1..Len(requests) : requests[k].op = "sync" =>
          /\ worker \in Tasks /\ ~synced
          /\ \A j \in 1..Len(requests) : requests[j].op = "sync" => j = k
Linked == "lost" \in mishaps \/ connected

\* An id that was told is in the mirror while its window is open, and is never
\* announced again.  A call that has only seen its window gone finds the id
\* gone too when its roundtrip returns.
Plain == mishaps \cap {"lost", "renewed", "reused"} = {}
Kept == \A l \in learned : l.win \in open => l.id \in known
Untold ==
    \A l \in learned : \A i \in 1..Len(wire) : wire[i].ev = "toplevel" => wire[i].h # l.id
Gone(t) == \A v \in during[t] : wanted[t] \notin v.open
Misled(t) == worker = t /\ pc[t] = "asked" /\ kind[t] \in Targeted /\ given[t] \in known /\ Gone(t)
Settled ==
    \A t \in Tasks : Misled(t) =>
        /\ ~synced
        /\ \A i \in 1..Len(wire) : wire[i].ev = "callback" =>
              \E j \in 1..i : wire[j].ev = "closed" /\ wire[j].h = given[t]
Honest ==
    \A t \in Tasks : kind[t] \in Targeted =>
        /\ pc[t] = "ok" => \E v \in during[t] : wanted[t] \in v.open
        /\ pc[t] = "not_found" => \E v \in during[t] : wanted[t] \notin v.open

VInv == /\ IInv /\ Watching /\ Ending /\ Roundtrip /\ Linked
        /\ OneSession => Untold
        /\ Plain => Kept /\ Settled /\ Honest

\* The desktops a call has seen remain seen, and those since are seen too.
LEMMA Seeing ==
  ASSUME IInv, [Next]_vars, NEW t \in Tasks, pc[t] # "idle"
  PROVE /\ during[t] \subseteq during'[t]
        /\ t \in Asked => UNCHANGED <<stack, active>> \/ View(stack', active') \in during'[t]
  <1>0. during \in [Tasks -> SUBSET Views]
    BY DEF IInv, TypeOK
  <1>1. CASE during' = during /\ UNCHANGED <<stack, active>>
    BY <1>1
  <1>2. ASSUME NEW V, Witness(V)
        PROVE during[t] \subseteq during'[t] /\ (t \in Asked => V \subseteq during'[t])
    BY <1>0, <1>2 DEF Witness, Asked
  <1>3. ASSUME NEW u \in Tasks, Ask(u)
        PROVE during[t] \subseteq during'[t] /\ UNCHANGED <<stack, active>>
    <2>1. u # t
      BY <1>3 DEF Ask
    <2> QED BY <1>0, <1>3, <2>1 DEF Ask, desktop
  <1>4. ASSUME NEW u \in Tasks, Cancel(u) \/ AnswerRead(u) \/ Act(u)
        PROVE during' = during /\ UNCHANGED <<stack, active>>
    BY <1>4 DEF Cancel, AnswerRead, Act, desktop
  <1>5. CASE DropBackend \/ Recv \/ Dispatch \/ Lose \/ Renew \/ UNCHANGED vars
    BY <1>1, <1>5 DEF DropBackend, Recv, Dispatch, Lose, Renew, desktop, vars
  <1>6. CASE Serve
    <2> DEFINE w == handle[Head(requests).h]
    <2>1. stack' = stack
      BY <1>6 DEF Serve
    <2>2. \/ during' = during /\ active' = active
          \/ active' = w /\ Witness({View(stack, None), View(stack, w)})
      BY <1>6 DEF Serve
    <2> QED BY <1>1, <1>2, <2>1, <2>2
  <1>7. ASSUME NEW w \in Windows, Retitle(w)
        PROVE during' = during /\ UNCHANGED <<stack, active>>
    BY <1>7 DEF Retitle
  <1>8. ASSUME NEW w \in Windows \cup {None}, Focus(w)
        PROVE /\ during[t] \subseteq during'[t]
              /\ t \in Asked => View(stack', active') \in during'[t]
    BY <1>2, <1>8 DEF Focus
  <1>9. ASSUME NEW w \in Windows, OpenWindow(w) \/ CloseWindow(w)
        PROVE /\ during[t] \subseteq during'[t]
              /\ t \in Asked => View(stack', active') \in during'[t]
    <2>1. Witness({View(stack', active')})
      BY <1>9 DEF OpenWindow, CloseWindow
    <2> QED BY <1>2, <2>1
  <1> QED BY <1>1, <1>3, <1>4, <1>5, <1>6, <1>7, <1>8, <1>9 DEF Next

LEMMA WatchingStep ==
  ASSUME VInv, [Next]_vars  PROVE Watching'
  <1> SUFFICES ASSUME NEW t \in Tasks, pc'[t] = "asked"
               PROVE View(stack', active') \in during'[t]
    BY DEF Watching, Asked
  <1>0. during \in [Tasks -> SUBSET Views] /\ IInv
        /\ pc \in [Tasks -> {"idle", "asked", "cancelled", "ok", "not_found"}]
    BY DEF VInv, IInv, TypeOK
  <1>1. CASE pc[t] = "asked"
    <2>1. t \in Asked /\ View(stack, active) \in during[t]
      BY <1>1 DEF VInv, Watching, Asked
    <2> QED BY <1>0, <1>1, <2>1, Seeing
  <1>2. CASE pc[t] # "asked"
    <2>1. \E u \in Tasks : Ask(u) \/ Cancel(u) \/ AnswerRead(u) \/ Act(u)
      BY <1>2 DEF Next, DropBackend, Recv, Dispatch, Serve, OpenWindow, CloseWindow, Retitle,
                  Focus, Change, Lose, Renew, vars, calls
    <2>2. PICK u \in Tasks : Ask(u) \/ Cancel(u) \/ AnswerRead(u) \/ Act(u)
      BY <2>1
    <2>3. CASE Ask(u)
      <3>1. u = t
        BY <1>0, <1>2, <2>3 DEF Ask
      <3> QED BY <1>0, <2>3, <3>1 DEF Ask, desktop
    <2>4. CASE Cancel(u) \/ AnswerRead(u) \/ Act(u)
      BY <1>0, <1>2, <2>4 DEF Cancel, AnswerRead, Act, Reply
    <2> QED BY <2>2, <2>3, <2>4
  <1> QED BY <1>1, <1>2

LEMMA LinkedStep ==
  ASSUME VInv, [Next]_vars  PROVE Linked'
  <1>1. CASE UNCHANGED connected
    BY <1>1, MishapsGrow DEF VInv, Linked
  <1>2. CASE ~UNCHANGED connected
    <2>1. Lose \/ Renew
      BY <1>2 DEF Next, Ask, Cancel, AnswerRead, Act, DropBackend, Recv, Dispatch, Serve,
                  OpenWindow, CloseWindow, Retitle, Focus, Change, vars, link
    <2> QED BY <2>1 DEF Lose, Renew, Linked
  <1> QED BY <1>1, <1>2

\* What the compositor and the desktop send: events that neither make nor end a
\* handle nor answer a roundtrip, unless the step opens or closes a window or
\* answers one.
LEMMA WireStep ==
  ASSUME IInv, [Next]_vars
  PROVE \/ wire' = wire
        \/ wire' = <<>> /\ (Lose \/ Renew)
        \/ wire # <<>> /\ wire' = Tail(wire) /\ Dispatch
        \/ \E b \in Seq(Quiet) : Send(b)
        \/ Send(<<Callback>>) /\ Serve /\ Head(requests).op = "sync"
        \/ \E w \in Windows : OpenWindow(w) \/ CloseWindow(w)
  <1>0. TypeOK /\ Numbering
    BY DEF IInv
  <1>1. ASSUME NEW t \in Tasks, Ask(t) \/ Cancel(t) \/ AnswerRead(t) \/ Act(t)
        PROVE wire' = wire
    BY <1>1 DEF Ask, Cancel, AnswerRead, Act, link
  <1>2. CASE DropBackend \/ Recv \/ UNCHANGED vars
    BY <1>2 DEF DropBackend, Recv, link, vars
  <1>3. CASE Serve
    <2>1. CASE Send(FocusEvents(active, handle[Head(requests).h]))
               /\ handle[Head(requests).h] \in open
      BY <1>0, <2>1, FocusIsQuiet DEF Numbering
    <2> QED BY <1>3, <2>1 DEF Serve
  <1>4. ASSUME NEW w \in Windows \cup {None}, Focus(w)  PROVE \E b \in Seq(Quiet) : Send(b)
    BY <1>0, <1>4, FocusIsQuiet DEF Focus, Numbering
  <1>5. ASSUME NEW w \in Windows, Retitle(w)  PROVE \E b \in Seq(Quiet) : Send(b)
    <2>1. HandleOf(w) \in Handles
      BY <1>0, <1>5, HandleHas, OpenIs DEF Retitle
    <2>2. Title(HandleOf(w)) \in Quiet /\ DoneEvent(HandleOf(w)) \in Quiet
      BY <2>1 DEF Title, DoneEvent, Quiet, Events, Numbers
    <2>3. <<Title(HandleOf(w)), DoneEvent(HandleOf(w))>> \in Seq(Quiet)
      <3> HIDE DEF Quiet
      <3> QED BY <2>2
    <2> QED BY <1>5, <2>3 DEF Retitle
  <1>6. CASE Dispatch
    BY <1>6 DEF Dispatch
  <1>7. CASE Lose \/ Renew
    BY <1>7 DEF Lose, Renew
  <1> QED BY <1>1, <1>2, <1>3, <1>4, <1>5, <1>6, <1>7 DEF Next

\* Whatever else is sent.
LEMMA CalmWire ==
  ASSUME IInv, NEW b \in Seq(Quiet), Send(b)
  PROVE /\ \A i \in 1..Len(wire) : i \in 1..Len(wire') /\ wire'[i] = wire[i]
        /\ \A i \in 1..Len(wire') :
              \/ i \in 1..Len(wire) /\ wire'[i] = wire[i]
              \/ wire'[i].ev \in {"title", "state", "done"}
  <1>1. Quiet \subseteq Events /\ \A e \in Quiet : e.ev \in {"title", "state", "done"}
    BY DEF Quiet
  <1> HIDE DEF Quiet, Events
  <1>2. b \in Seq(Events) /\ \A i \in 1..Len(b) : b[i].ev \in {"title", "state", "done"}
    BY <1>1
  <1> QED BY <1>2, SendAt, SendKeeps DEF IInv

LEMMA CallbackWire ==
  ASSUME IInv, Send(<<Callback>>)
  PROVE /\ \A i \in 1..Len(wire) : i \in 1..Len(wire') /\ wire'[i] = wire[i]
        /\ \A i \in 1..Len(wire') :
              \/ i \in 1..Len(wire) /\ wire'[i] = wire[i]
              \/ i = Len(wire) + 1 /\ wire'[i].ev = "callback" /\ connected
  <1>0. TypeOK
    BY DEF IInv
  <1>1. Callback \in Events /\ Callback.ev = "callback"
    BY WlrAssumption DEF Callback, Events, Numbers, Handles
  <1>2. <<Callback>> \in Seq(Events)
    <2> HIDE DEF Events
    <2> QED BY <1>1
  <1>3. Len(wire) \in Nat
    BY <1>0 DEF TypeOK
  <1>4. \A i \in 1..Len(wire') :
           \/ i \in 1..Len(wire) /\ wire'[i] = wire[i]
           \/ /\ connected /\ i > Len(wire) /\ i - Len(wire) \in 1..1
              /\ wire'[i] = <<Callback>>[i - Len(wire)]
    BY <1>0, <1>2, SendAt
  <1>5. ASSUME NEW i \in 1..Len(wire'), ~(i \in 1..Len(wire) /\ wire'[i] = wire[i])
        PROVE i = Len(wire) + 1 /\ wire'[i].ev = "callback" /\ connected
    <2>1. connected /\ i - Len(wire) = 1 /\ i > Len(wire) /\ wire'[i] = <<Callback>>[i - Len(wire)]
      BY <1>3, <1>4, <1>5
    <2>2. i = Len(wire) + 1
      BY <1>3, <2>1
    <2>3. <<Callback>>[i - Len(wire)] = Callback
      BY <2>1
    <2> QED BY <1>1, <2>1, <2>2, <2>3
  <1> QED BY <1>0, <1>2, <1>5, SendKeeps

LEMMA TailWire ==
  ASSUME TypeOK, wire # <<>>, wire' = Tail(wire)
  PROVE /\ Len(wire') + 1 = Len(wire) /\ Len(wire') \in Nat
        /\ 1 \in 1..Len(wire) /\ Head(wire) = wire[1]
        /\ \A i \in 1..Len(wire') : i + 1 \in 1..Len(wire) /\ wire'[i] = wire[i + 1]
        /\ \A i \in 1..Len(wire) : i # 1 => i - 1 \in 1..Len(wire') /\ wire'[i - 1] = wire[i]
  <1>1. wire \in Seq(Events)
    BY DEF TypeOK
  <1> HIDE DEF Events
  <1>2. Len(wire') + 1 = Len(wire) /\ Len(wire') \in Nat
        /\ 1 \in 1..Len(wire) /\ Head(wire) = wire[1]
        /\ \A i \in 1..Len(wire') : i + 1 \in 1..Len(wire) /\ wire'[i] = wire[i + 1]
    BY <1>1, TailAt
  <1>3. ASSUME NEW i \in 1..Len(wire), i # 1
        PROVE i - 1 \in 1..Len(wire') /\ wire'[i - 1] = wire[i]
    <2>1. i - 1 \in 1..Len(wire') /\ (i - 1) + 1 = i
      BY <1>2, <1>3
    <2> QED BY <1>2, <2>1
  <1> QED BY <1>2, <1>3

\* Together: what is on the wire stays, and what joins it.
LEMMA WireGrows ==
  ASSUME IInv, [Next]_vars, ~Dispatch, ~Lose, ~Renew
  PROVE /\ \A i \in 1..Len(wire) : i \in 1..Len(wire') /\ wire'[i] = wire[i]
        /\ \A i \in 1..Len(wire') :
              \/ i \in 1..Len(wire) /\ wire'[i] = wire[i]
              \/ wire'[i].ev \in {"title", "state", "done", "closed"}
              \/ /\ wire'[i].ev = "toplevel"
                 /\ (\E l \in learned : l.id = wire'[i].h) => "reused" \in mishaps'
              \/ /\ wire'[i].ev = "callback" /\ i = Len(wire) + 1
                 /\ Serve /\ Head(requests).op = "sync" /\ connected
        /\ \A i \in 1..Len(wire') :
              i > Len(wire) + 1 => wire'[i].ev \in {"title", "state", "done"}
  <1>0. Len(wire) \in Nat
    BY DEF IInv, TypeOK
  <1>1. CASE wire' = wire
    BY <1>0, <1>1
  <1>2. ASSUME NEW b \in Seq(Quiet), Send(b)
        PROVE /\ \A i \in 1..Len(wire) : i \in 1..Len(wire') /\ wire'[i] = wire[i]
              /\ \A i \in 1..Len(wire') : \/ i \in 1..Len(wire) /\ wire'[i] = wire[i]
                                          \/ wire'[i].ev \in {"title", "state", "done"}
    BY <1>2, CalmWire
  <1>3. ASSUME NEW w \in Windows, OpenWindow(w)
        PROVE /\ \A i \in 1..Len(wire) : i \in 1..Len(wire') /\ wire'[i] = wire[i]
              /\ \A i \in 1..Len(wire') :
                    \/ i \in 1..Len(wire) /\ wire'[i] = wire[i]
                    \/ wire'[i].ev \in {"title", "state", "done"}
                    \/ /\ wire'[i].ev = "toplevel"
                       /\ (\E l \in learned : l.id = wire'[i].h) => "reused" \in mishaps'
              /\ \A i \in 1..Len(wire') :
                    i > Len(wire) + 1 => wire'[i].ev \in {"title", "state", "done"}
    <2>1. PICK h \in Handles :
            /\ mishaps' = mishaps \cup {m \in {"reused"} : \E l \in learned : l.id = h}
            /\ \A i \in 1..Len(wire) : i \in 1..Len(wire') /\ wire'[i] = wire[i]
            /\ \A i \in 1..Len(wire') : \/ i \in 1..Len(wire) /\ wire'[i] = wire[i]
                                        \/ i = Len(wire) + 1 /\ wire'[i] = Toplevel(h, w)
                                        \/ wire'[i] = Title(h)
                                        \/ wire'[i] = DoneEvent(h)
      BY <1>3, OpenWire
    <2>2. (\E l \in learned : l.id = h) => "reused" \in mishaps'
      BY <2>1
    <2>3. /\ Toplevel(h, w).ev = "toplevel" /\ Toplevel(h, w).h = h
          /\ Title(h).ev = "title" /\ DoneEvent(h).ev = "done"
      BY DEF Toplevel, Title, DoneEvent
    <2>4. \A i \in 1..Len(wire') :
             \/ i \in 1..Len(wire) /\ wire'[i] = wire[i]
             \/ wire'[i].ev \in {"title", "state", "done"}
             \/ i = Len(wire) + 1 /\ wire'[i].ev = "toplevel" /\ wire'[i].h = h
      BY <2>1, <2>3
    <2>5. \A i \in 1..Len(wire') :
             i > Len(wire) + 1 => wire'[i].ev \in {"title", "state", "done"}
      BY <1>0, <2>4
    <2> QED BY <2>1, <2>2, <2>4, <2>5
  <1>4. ASSUME NEW w \in Windows, CloseWindow(w)
        PROVE /\ \A i \in 1..Len(wire) : i \in 1..Len(wire') /\ wire'[i] = wire[i]
              /\ \A i \in 1..Len(wire') : \/ i \in 1..Len(wire) /\ wire'[i] = wire[i]
                                          \/ i = Len(wire) + 1 /\ wire'[i].ev = "closed"
    <2>1. Closed(HandleOf(w)).ev = "closed"
      BY DEF Closed
    <2> QED BY <1>4, <2>1, CloseWire
  <1>5. CASE Send(<<Callback>>) /\ Serve /\ Head(requests).op = "sync"
    BY <1>5, CallbackWire
  <1> QED BY <1>0, <1>1, <1>2, <1>3, <1>4, <1>5, WireStep

\* Who changes the windows, their numbers or the mirror.
LEMMA DeskStep ==
  ASSUME [Next]_vars
  PROVE \/ UNCHANGED <<stack, handle, known>>
        \/ Dispatch /\ UNCHANGED <<stack, handle>>
        \/ Serve /\ UNCHANGED <<stack, known>>
        \/ Renew
        \/ \E w \in Windows : OpenWindow(w) \/ CloseWindow(w)
  <1>1. ASSUME NEW t \in Tasks, Ask(t) \/ Cancel(t) \/ AnswerRead(t) \/ Act(t)
        PROVE UNCHANGED <<stack, handle, known>>
    BY <1>1 DEF Ask, Cancel, AnswerRead, Act, desktop, mirror
  <1>2. CASE DropBackend \/ Recv \/ Lose \/ UNCHANGED vars
    BY <1>2 DEF DropBackend, Recv, Lose, desktop, mirror, vars
  <1>3. CASE Dispatch \/ Serve
    BY <1>3 DEF Dispatch, Serve, desktop, mirror
  <1>4. ASSUME NEW w \in Windows \cup {None}, Focus(w)  PROVE UNCHANGED <<stack, handle, known>>
    BY <1>4 DEF Focus, Change, mirror
  <1>5. ASSUME NEW w \in Windows, Retitle(w)  PROVE UNCHANGED <<stack, handle, known>>
    BY <1>5 DEF Retitle, Change, mirror
  <1> QED BY <1>1, <1>2, <1>3, <1>4, <1>5 DEF Next

LEMMA EndingStep ==
  ASSUME VInv, [Next]_vars  PROVE Ending'
  <1> SUFFICES ASSUME connected'  PROVE Ending'
    BY DEF Ending
  <1> USE DEF VInv
  <1>0. TypeOK /\ TypeOK' /\ Numbering /\ Announcing /\ Announcing'
    BY IInvStep DEF IInv
  <1>1. CASE Renew
    <2>1. wire' = <<>> /\ known' = 1..Len(stack) /\ handle' = Numbered(stack) /\ open' = open
      BY <1>1 DEF Renew, open
    <2>2. Len(stack) \in Nat /\ Len(stack) <= MaxHandles /\ DOMAIN stack = 1..Len(stack)
      BY <1>0, FewWindows DEF TypeOK
    <2>3. \A n \in 1..Len(stack) : handle'[n] = stack[n] /\ stack[n] \in open
      BY <2>1, <2>2, WlrAssumption DEF Numbered, Handles, open, ToSet
    <2> QED BY <2>1, <2>3 DEF Ending, Living
  <1> SUFFICES ASSUME ~Renew  PROVE Ending'
    BY <1>1
  <1>2. connected /\ Ending
    <2>1. CASE connected' = connected
      BY <2>1
    <2>2. CASE connected' # connected
      <3>1. Lose
        BY <2>2 DEF Next, Ask, Cancel, AnswerRead, Act, DropBackend, Recv, Dispatch, Serve,
                    OpenWindow, CloseWindow, Retitle, Focus, Change, vars, link
      <3> QED BY <3>1 DEF Lose
    <2> QED BY <2>1, <2>2
  <1>3. ASSUME known' = known, open' = open,
               \A i \in 1..Len(wire) : i \in 1..Len(wire') /\ wire'[i] = wire[i],
               \A i \in 1..Len(wire') : \/ i \in 1..Len(wire) /\ wire'[i] = wire[i]
                                        \/ wire'[i].ev # "toplevel",
               \A h \in Handles : \/ handle'[h] = handle[h]
                                  \/ /\ h \notin known
                                     /\ \A i \in 1..Len(wire) : wire[i].ev = "toplevel" => wire[i].h # h
        PROVE Ending'
    <2>1. ASSUME NEW h \in known'  PROVE Living(h)'
      <3>1. Living(h) /\ handle'[h] = handle[h]
        BY <1>0, <1>2, <1>3 DEF Ending, TypeOK
      <3>2. Coming(h) => Coming(h)'
        BY <1>3 DEF Coming
      <3> QED BY <1>3, <3>1, <3>2 DEF Living
    <2>2. ASSUME NEW i \in 1..Len(wire'), wire'[i].ev = "toplevel"  PROVE Living(wire[i].h)'
      <3>1. i \in 1..Len(wire) /\ wire'[i] = wire[i]
        BY <1>3, <2>2
      <3> DEFINE h == wire[i].h
      <3>2. h \in Handles
        BY <1>0, <3>1, Typed
      <3>3. Living(h) /\ handle'[h] = handle[h]
        BY <1>2, <1>3, <2>2, <3>1, <3>2 DEF Ending
      <3>4. Coming(h) => \E j \in 1..Len(wire') : wire'[j].ev = "closed" /\ wire'[j].h = h
        BY <1>3 DEF Coming
      <3> QED BY <1>3, <3>1, <3>3, <3>4 DEF Living, Coming
    <2> QED BY <2>1, <2>2 DEF Ending
  <1>4. CASE Dispatch
    <2>1. wire # <<>> /\ wire' = Tail(wire) /\ handle' = handle /\ open' = open
      BY <1>4 DEF Dispatch, desktop, open
    <2>2. /\ Len(wire') \in Nat /\ 1 \in 1..Len(wire) /\ Head(wire) = wire[1]
          /\ \A i \in 1..Len(wire') : i + 1 \in 1..Len(wire) /\ wire'[i] = wire[i + 1]
          /\ \A i \in 1..Len(wire) : i # 1 => i - 1 \in 1..Len(wire') /\ wire'[i - 1] = wire[i]
      BY <1>0, <2>1, TailWire
    <2> DEFINE Dies(h) == wire[1].ev = "closed" /\ wire[1].h = h
    <2>3. ASSUME NEW h, Living(h)  PROVE Living(h)' \/ Dies(h)
      <3>1. ASSUME NEW i \in 1..Len(wire), wire[i].ev = "closed", wire[i].h = h, i # 1
            PROVE Coming(h)'
        BY <2>2, <3>1 DEF Coming
      <3> QED BY <2>1, <2>3, <3>1 DEF Living, Coming
    <2>4. \A h \in known' : h \in known \/ (wire[1].ev = "toplevel" /\ wire[1].h = h)
      BY <1>4, <2>2 DEF Dispatch, OnToplevel, OnTitle, OnState, OnDone, OnClosed, mirror
    <2>5. wire[1].ev = "closed" => wire[1].h \notin known'
      BY <1>4, <2>2 DEF Dispatch, OnClosed
    <2>6. ASSUME NEW h \in known'  PROVE Living(h)'
      <3>1. Living(h)
        BY <1>2, <2>2, <2>4 DEF Ending
      <3> QED BY <2>3, <2>5, <3>1
    <2>7. ASSUME NEW i \in 1..Len(wire'), wire'[i].ev = "toplevel"
          PROVE handle'[wire'[i].h] \in open' \/ Coming(wire[i].h)'
      <3> DEFINE h == wire'[i].h
      <3>1. i + 1 \in 1..Len(wire) /\ wire'[i] = wire[i + 1] /\ i + 1 # 1
        BY <2>2, <2>7
      <3>2. Living(wire[i + 1].h)
        BY <1>2, <2>7, <3>1 DEF Ending
      <3>3. ~Dies(h)
        <4> SUFFICES ASSUME Dies(h)  PROVE FALSE
          OBVIOUS
        <4>1. Ended(1)
          BY <1>0, <2>2 DEF Announcing
        <4>2. i + 1 <= 1
          BY <2>7, <3>1, <4>1 DEF Ended
        <4> QED BY <2>2, <4>2
      <3>4. handle[h] \in open \/ \E j \in 1..Len(wire) : wire[j].ev = "closed" /\ wire[j].h = h
        BY <3>1, <3>2 DEF Living, Coming
      <3>5. ASSUME NEW j \in 1..Len(wire), wire[j].ev = "closed", wire[j].h = h
            PROVE \E k \in 1..Len(wire') : wire'[k].ev = "closed" /\ wire'[k].h = h
        <4>1. j # 1
          BY <3>3, <3>5
        <4>2. j - 1 \in 1..Len(wire') /\ wire'[j - 1] = wire[j]
          BY <2>2, <4>1
        <4> QED BY <3>5, <4>2
      <3> QED BY <2>1, <3>4, <3>5 DEF Coming
    <2> QED BY <2>6, <2>7 DEF Ending, Living
  <1>5. ASSUME NEW w \in Windows, OpenWindow(w)  PROVE Ending'
    <2>1. PICK h \in Handles :
            /\ handle[h] = None /\ handle' = [handle EXCEPT ![h] = w]
            /\ \A i \in 1..Len(wire) : i \in 1..Len(wire') /\ wire'[i] = wire[i]
            /\ \A i \in 1..Len(wire') :
                  \/ i \in 1..Len(wire) /\ wire'[i] = wire[i]
                  \/ i = Len(wire) + 1 /\ wire'[i] = Toplevel(h, w)
                  \/ i = Len(wire) + 2 /\ wire'[i] = Title(h)
                  \/ i = Len(wire) + 3 /\ wire'[i] = DoneEvent(h)
      BY <1>5, OpenWire
    <2>2. open' = open \cup {w} /\ known' = known
      BY <1>0, <1>5, OpenGains DEF OpenWindow, Change, mirror
    <2>3. handle'[h] = w /\ \A g \in Handles : g # h => handle'[g] = handle[g]
      BY <1>0, <2>1 DEF TypeOK
    <2>4. \A g : Coming(g) => \E j \in 1..Len(wire') : wire'[j].ev = "closed" /\ wire'[j].h = g
      BY <2>1 DEF Coming
    <2>5. \A g \in Handles : Living(g) => \/ handle'[g] \in open'
                                          \/ \E j \in 1..Len(wire') :
                                                wire'[j].ev = "closed" /\ wire'[j].h = g
      BY <2>2, <2>3, <2>4 DEF Living
    <2>6. ASSUME NEW g \in known'
          PROVE \/ handle'[g] \in open'
                \/ \E j \in 1..Len(wire') : wire'[j].ev = "closed" /\ wire'[j].h = g
      BY <1>0, <1>2, <2>2, <2>5 DEF Ending, TypeOK
    <2>7. ASSUME NEW i \in 1..Len(wire'), wire'[i].ev = "toplevel"
          PROVE \/ handle'[wire'[i].h] \in open'
                \/ \E j \in 1..Len(wire') : wire'[j].ev = "closed" /\ wire'[j].h = wire'[i].h
      <3>1. \/ i \in 1..Len(wire) /\ wire'[i] = wire[i]
            \/ wire'[i].h = h
        BY <2>1, <2>7 DEF Toplevel, Title, DoneEvent
      <3>2. CASE i \in 1..Len(wire) /\ wire'[i] = wire[i]
        BY <1>0, <1>2, <2>5, <2>7, <3>2, Typed DEF Ending
      <3> QED BY <2>2, <2>3, <3>1, <3>2
    <2> QED BY <2>6, <2>7 DEF Ending, Living, Coming
  <1>6. ASSUME NEW w \in Windows, CloseWindow(w)  PROVE Ending'
    <2> DEFINE h == HandleOf(w)
    <2>1. /\ h \in Handles /\ handle[h] = w
          /\ \A i \in 1..Len(wire) : i \in 1..Len(wire') /\ wire'[i] = wire[i]
          /\ \A i \in 1..Len(wire') : \/ i \in 1..Len(wire) /\ wire'[i] = wire[i]
                                      \/ i = Len(wire) + 1 /\ wire'[i] = Closed(h)
          /\ Len(wire) + 1 \in 1..Len(wire') /\ wire'[Len(wire) + 1] = Closed(h)
      BY <1>2, <1>6, CloseWire
    <2>2. open' = open \ {w} /\ w # None /\ UNCHANGED <<handle, known>>
      BY <1>6, CloseOpen, WlrAssumption DEF CloseWindow, Change, mirror
    <2>3. Closed(h).ev = "closed" /\ Closed(h).h = h
      BY DEF Closed
    <2> HIDE DEF h
    <2>4. \A g : (Coming(g) \/ g = h) =>
                    \E j \in 1..Len(wire') : wire'[j].ev = "closed" /\ wire'[j].h = g
      BY <2>1, <2>3 DEF Coming
    <2>5. \A g \in Handles : Living(g) => \/ handle'[g] \in open'
                                          \/ \E j \in 1..Len(wire') :
                                                wire'[j].ev = "closed" /\ wire'[j].h = g
      <3>1. \A g \in Handles : handle[g] = w => g = h
        BY <1>0, <2>1, <2>2 DEF Numbering
      <3> QED BY <2>2, <2>4, <3>1 DEF Living
    <2>6. ASSUME NEW g \in known'
          PROVE \/ handle'[g] \in open'
                \/ \E j \in 1..Len(wire') : wire'[j].ev = "closed" /\ wire'[j].h = g
      BY <1>0, <1>2, <2>2, <2>5 DEF Ending, TypeOK
    <2>7. ASSUME NEW i \in 1..Len(wire'), wire'[i].ev = "toplevel"
          PROVE \/ handle'[wire'[i].h] \in open'
                \/ \E j \in 1..Len(wire') : wire'[j].ev = "closed" /\ wire'[j].h = wire'[i].h
      <3>1. i \in 1..Len(wire) /\ wire'[i] = wire[i]
        BY <2>1, <2>3, <2>7
      <3> QED BY <1>0, <1>2, <2>5, <2>7, <3>1, Typed DEF Ending
    <2> QED BY <2>6, <2>7 DEF Ending, Living, Coming
  <1>7. CASE Serve /\ handle' # handle
    <2>1. /\ handle' = [handle EXCEPT ![Head(requests).h] = None] /\ wire' = wire
          /\ Head(requests).op = "destroy" /\ requests # <<>> /\ known' = known /\ stack' = stack
      BY <1>7 DEF Serve, mirror
    <2>2. Head(requests) = requests[1] /\ 1 \in 1..Len(requests)
      <3>1. requests \in Seq(Requests)
        BY <1>0 DEF TypeOK
      <3> HIDE DEF Requests
      <3> QED BY <2>1, <3>1, TailAt
    <2>3. Destroyed(1)
      BY <1>0, <2>1, <2>2 DEF Announcing
    <2>4. \A h \in Handles : h # requests[1].h => handle'[h] = handle[h]
      BY <1>0, <2>1, <2>2 DEF TypeOK
    <2>5. open' = open
      BY <2>1 DEF open
    <2> QED BY <1>3, <2>1, <2>3, <2>4, <2>5 DEF Destroyed
  <1>8. CASE UNCHANGED <<stack, handle, known>> /\ ~Dispatch
             /\ ~\E w \in Windows : OpenWindow(w) \/ CloseWindow(w)
    <2>1. open' = open
      BY <1>8 DEF open
    <2>2. CASE wire' = wire
      BY <1>3, <1>8, <2>1, <2>2
    <2>3. ASSUME NEW b \in Seq(Quiet), Send(b)  PROVE Ending'
      BY <1>3, <1>8, <2>1, <2>3, CalmWire
    <2>4. CASE Send(<<Callback>>)
      BY <1>3, <1>8, <2>1, <2>4, CallbackWire
    <2>5. ~Lose
      BY DEF Lose
    <2> QED BY <1>8, <2>2, <2>3, <2>4, <2>5, WireStep
  <1> QED BY <1>4, <1>5, <1>6, <1>7, <1>8, DeskStep

\* The worker goes from call to call by way of None.
LEMMA WorkerStep ==
  ASSUME [Next]_vars, worker' \in Tasks
  PROVE \/ Recv
        \/ worker' = worker /\ (Dispatch \/ synced' = synced) /\ ~Renew
           /\ \A t \in Tasks : ~AnswerRead(t) /\ ~Act(t)
  <1> USE WlrAssumption
  <1>1. ASSUME NEW t \in Tasks, AnswerRead(t) \/ Act(t)  PROVE FALSE
    BY <1>1 DEF AnswerRead, Act, Reply
  <1>2. ~Renew
    BY DEF Renew
  <1>3. ASSUME NEW t \in Tasks, Ask(t) \/ Cancel(t)  PROVE UNCHANGED <<worker, synced>>
    BY <1>3 DEF Ask, Cancel, thread
  <1>4. CASE DropBackend \/ Serve \/ Lose \/ UNCHANGED vars
    BY <1>1, <1>2, <1>4 DEF DropBackend, Serve, Lose, thread, vars
  <1>5. CASE Dispatch
    BY <1>1, <1>2, <1>5 DEF Dispatch
  <1>6. ASSUME NEW w \in Windows, OpenWindow(w) \/ CloseWindow(w) \/ Retitle(w)
        PROVE UNCHANGED <<worker, synced>>
    BY <1>6 DEF OpenWindow, CloseWindow, Retitle, Change, thread
  <1>7. ASSUME NEW w \in Windows \cup {None}, Focus(w)  PROVE UNCHANGED <<worker, synced>>
    BY <1>7 DEF Focus, Change, thread
  <1> QED BY <1>1, <1>2, <1>3, <1>4, <1>5, <1>6, <1>7 DEF Next

LEMMA StillConnected ==
  ASSUME [Next]_vars, connected', ~Renew  PROVE connected
  <1> SUFFICES ASSUME connected' # connected  PROVE FALSE
    OBVIOUS
  <1>1. Lose
    BY DEF Next, Ask, Cancel, AnswerRead, Act, DropBackend, Recv, Dispatch, Serve, OpenWindow,
           CloseWindow, Retitle, Focus, Change, vars, link
  <1> QED BY <1>1 DEF Lose

\* A step that starts no roundtrip and answers none.
LEMMA RoundtripKept ==
  ASSUME VInv, connected, UNCHANGED <<worker, synced>>, NEW c \in {0, 1}, NEW d \in {0, 1},
         \A i \in 1..Len(wire') : wire'[i].ev = "callback" =>
            i + c \in 1..Len(wire) /\ wire[i + c].ev = "callback",
         \A k \in 1..Len(requests') : requests'[k].op = "sync" =>
            k + d \in 1..Len(requests) /\ requests[k + d].op = "sync"
  PROVE Roundtrip'
  <1> USE DEF VInv, Roundtrip
  <1>1. ASSUME NEW i \in 1..Len(wire'), wire'[i].ev = "callback"
        PROVE /\ worker' \in Tasks /\ ~synced'
              /\ \A j \in 1..Len(wire') : wire'[j].ev = "callback" => j = i
              /\ \A k \in 1..Len(requests') : requests'[k].op # "sync"
    <2>1. worker \in Tasks /\ ~synced /\ \A k \in 1..Len(requests) : requests[k].op # "sync"
      BY <1>1
    <2>2. ASSUME NEW j \in 1..Len(wire'), wire'[j].ev = "callback"  PROVE j = i
      <3>1. j + c = i + c
        BY <1>1, <2>2
      <3> QED BY <3>1
    <2> QED BY <2>1, <2>2
  <1>2. ASSUME NEW k \in 1..Len(requests'), requests'[k].op = "sync"
        PROVE /\ worker' \in Tasks /\ ~synced'
              /\ \A j \in 1..Len(requests') : requests'[j].op = "sync" => j = k
    <2>1. worker \in Tasks /\ ~synced
      BY <1>2
    <2>2. ASSUME NEW j \in 1..Len(requests'), requests'[j].op = "sync"  PROVE j = k
      <3>1. j + d = k + d
        BY <1>2, <2>2
      <3> QED BY <3>1
    <2> QED BY <2>1, <2>2
  <1> QED BY <1>1, <1>2

LEMMA RoundtripStep ==
  ASSUME VInv, [Next]_vars  PROVE Roundtrip'
  <1> SUFFICES ASSUME connected'  PROVE Roundtrip'
    BY DEF Roundtrip
  <1> USE DEF VInv
  <1>0. IInv /\ TypeOK /\ Len(wire) \in Nat /\ Len(requests) \in Nat
    BY DEF IInv, TypeOK
  <1>1. CASE Renew
    BY <1>1 DEF Renew, Roundtrip
  <1> SUFFICES ASSUME ~Renew  PROVE Roundtrip'
    BY <1>1
  <1>2. connected /\ ~Lose
    BY StillConnected DEF Lose
  \* No answer is under way and none is asked for.
  <1> DEFINE Quiescent == /\ \A i \in 1..Len(wire) : wire[i].ev # "callback"
                          /\ \A k \in 1..Len(requests) : requests[k].op # "sync"
  <1>3. worker \notin Tasks \/ synced => Quiescent
    BY <1>2 DEF Roundtrip
  <1>4. CASE Recv
    <2>1. Quiescent /\ wire' = wire /\ ~synced'
      BY <1>3, <1>4, WlrAssumption DEF Recv
    <2>2. CASE requests' = requests
      BY <2>1, <2>2 DEF Roundtrip
    <2>3. CASE requests' = Append(requests, Request("sync", 1, worker')) /\ worker' \in Tasks
               /\ Request("sync", 1, worker') \in Requests
      <3>1. \A k \in 1..Len(requests') :
               \/ k \in 1..Len(requests) /\ requests'[k] = requests[k]
               \/ k = Len(requests) + 1
        BY <1>0, <2>3, AppendRequest
      <3>2. \A k \in 1..Len(requests') : requests'[k].op = "sync" => k = Len(requests) + 1
        BY <2>1, <3>1
      <3> QED BY <2>1, <2>3, <3>2 DEF Roundtrip
    <2> QED BY <1>0, <1>4, <2>2, <2>3, RecvRequests
  <1>5. CASE Dispatch
    <2>1. wire # <<>> /\ wire' = Tail(wire) /\ worker' = worker
      BY <1>5 DEF Dispatch
    <2>2. /\ 1 \in 1..Len(wire) /\ Head(wire) = wire[1] /\ Len(wire') \in Nat
          /\ \A i \in 1..Len(wire') : i + 1 \in 1..Len(wire) /\ wire'[i] = wire[i + 1]
      BY <1>0, <2>1, TailWire
    <2>3. CASE wire[1].ev = "callback"
      <3>1. requests' = requests
        BY <1>5, <2>2, <2>3 DEF Dispatch
      <3>2. \A k \in 1..Len(requests) : requests[k].op # "sync"
        BY <1>2, <2>2, <2>3 DEF Roundtrip
      <3>3. ASSUME NEW i \in 1..Len(wire')  PROVE wire'[i].ev # "callback"
        <4>1. i + 1 # 1
          BY <2>2
        <4> QED BY <1>2, <2>2, <2>3, <4>1 DEF Roundtrip
      <3> QED BY <3>1, <3>2, <3>3 DEF Roundtrip
    <2>4. CASE wire[1].ev # "callback"
      <3>1. synced' = synced
        BY <1>5, <2>2, <2>4 DEF Dispatch
      <3>2. \A k \in 1..Len(requests') : requests'[k].op = "sync" =>
               k + 0 \in 1..Len(requests) /\ requests[k + 0].op = "sync"
        <4>1. CASE requests' = requests
          BY <1>0, <4>1
        <4>2. CASE /\ requests' = Append(requests, Request("destroy", Head(wire).h, None))
                   /\ Request("destroy", Head(wire).h, None) \in Requests
          BY <1>0, <4>2, AppendRequest DEF Request
        <4> QED BY <1>0, <1>5, <4>1, <4>2, DispatchRequests
      <3> QED BY <1>2, <2>1, <2>2, <3>1, <3>2, RoundtripKept
    <2> QED BY <2>3, <2>4
  <1>6. CASE Serve
    <2>1. UNCHANGED <<worker, synced>> /\ requests # <<>> /\ requests' = Tail(requests)
      BY <1>6 DEF Serve, thread
    <2>2. /\ Head(requests) = requests[1] /\ 1 \in 1..Len(requests)
          /\ \A k \in 1..Len(requests') : k + 1 \in 1..Len(requests) /\ requests'[k] = requests[k + 1]
      BY <1>0, <2>1, TailRequests
    <2>3. CASE requests[1].op = "sync"
      <3>1. \A i \in 1..Len(wire) : wire[i].ev # "callback"
        BY <1>2, <2>2, <2>3 DEF Roundtrip
      <3>2. worker \in Tasks /\ ~synced
        BY <1>2, <2>2, <2>3 DEF Roundtrip
      <3>3. ASSUME NEW k \in 1..Len(requests')  PROVE requests'[k].op # "sync"
        <4>1. k + 1 # 1
          BY <2>2
        <4> QED BY <1>2, <2>2, <2>3, <4>1 DEF Roundtrip
      <3>4. Send(<<Callback>>)
        BY <1>6, <2>2, <2>3 DEF Serve, Targeted
      <3>5. \A i, j \in 1..Len(wire') :
               wire'[i].ev = "callback" /\ wire'[j].ev = "callback" => i = j
        BY <1>0, <3>1, <3>4, CallbackWire
      <3> QED BY <2>1, <3>2, <3>3, <3>5 DEF Roundtrip
    <2>4. CASE requests[1].op # "sync"
      <3>1. \A i \in 1..Len(wire') : wire'[i].ev = "callback" =>
               i + 0 \in 1..Len(wire) /\ wire[i + 0].ev = "callback"
        <4>1. CASE wire' = wire
          BY <1>0, <4>1
        <4>2. CASE /\ handle[requests[1].h] \in open
                   /\ Send(FocusEvents(active, handle[requests[1].h]))
          <5>1. FocusEvents(active, handle[requests[1].h]) \in Seq(Quiet)
            BY <1>0, <4>2, FocusIsQuiet DEF IInv, Numbering
          <5>2. \A i \in 1..Len(wire') : \/ i \in 1..Len(wire) /\ wire'[i] = wire[i]
                                         \/ wire'[i].ev \in {"title", "state", "done"}
            BY <1>0, <4>2, <5>1, CalmWire
          <5> QED BY <1>0, <5>2
        <4> QED BY <1>6, <2>2, <2>4, <4>1, <4>2 DEF Serve
      <3> QED BY <1>2, <2>1, <2>2, <2>4, <3>1, RoundtripKept
    <2> QED BY <2>3, <2>4
  <1>7. ASSUME NEW t \in Tasks, AnswerRead(t) \/ Act(t)  PROVE Roundtrip'
    <2>1. wire' = wire /\ Quiescent
      BY <1>2, <1>3, <1>7 DEF AnswerRead, Act, Roundtripped, link
    <2>2. \A k \in 1..Len(requests') : requests'[k].op # "sync"
      <3>1. CASE requests' = requests
        BY <2>1, <3>1
      <3>2. CASE /\ requests' = Append(requests, Request(kind[t], given[t], t))
                 /\ Request(kind[t], given[t], t) \in Requests /\ Act(t)
        <4>1. Request(kind[t], given[t], t).op # "sync"
          BY <3>2 DEF Request, Act, Targeted
        <4> QED BY <1>0, <2>1, <3>2, <4>1, AppendRequest
      <3> QED BY <1>0, <1>7, <3>1, <3>2, ActRequests DEF AnswerRead, link
    <2> QED BY <2>1, <2>2 DEF Roundtrip
  <1>8. CASE ~Recv /\ ~Dispatch /\ ~Serve /\ \A t \in Tasks : ~AnswerRead(t) /\ ~Act(t)
    <2>1. requests' = requests
      BY <1>2, <1>8, RequestStep
    <2>2. CASE UNCHANGED <<worker, synced>>
      <3>1. \A i \in 1..Len(wire') : wire'[i].ev = "callback" =>
               i + 0 \in 1..Len(wire) /\ wire[i + 0].ev = "callback"
        BY <1>0, <1>2, <1>8, WireGrows
      <3>2. \A k \in 1..Len(requests') : requests'[k].op = "sync" =>
               k + 0 \in 1..Len(requests) /\ requests[k + 0].op = "sync"
        BY <1>0, <2>1
      <3> QED BY <1>2, <2>2, <3>1, <3>2, RoundtripKept
    <2>3. UNCHANGED <<worker, synced>>
      <3>1. ASSUME NEW t \in Tasks, Ask(t) \/ Cancel(t)  PROVE UNCHANGED <<worker, synced>>
        BY <3>1 DEF Ask, Cancel, thread
      <3>2. CASE DropBackend \/ UNCHANGED vars
        BY <3>2 DEF DropBackend, thread, vars
      <3>3. ASSUME NEW w \in Windows, OpenWindow(w) \/ CloseWindow(w) \/ Retitle(w)
            PROVE UNCHANGED <<worker, synced>>
        BY <3>3 DEF OpenWindow, CloseWindow, Retitle, Change, thread
      <3>4. ASSUME NEW w \in Windows \cup {None}, Focus(w)  PROVE UNCHANGED <<worker, synced>>
        BY <3>4 DEF Focus, Change, thread
      <3> QED BY <1>2, <1>8, <3>1, <3>2, <3>3, <3>4 DEF Next
    <2> QED BY <2>2, <2>3
  <1> QED BY <1>4, <1>5, <1>6, <1>7, <1>8

LEMMA UntoldStep ==
  ASSUME VInv, [Next]_vars, OneSession'  PROVE Untold'
  <1> USE DEF VInv
  <1>0. IInv /\ TypeOK /\ OneSession /\ Untold /\ "reused" \notin mishaps' /\ ~Renew
    BY MishapsGrow DEF OneSession, IInv, Renew
  <1> SUFFICES ASSUME NEW l \in learned', NEW i \in 1..Len(wire'), wire'[i].ev = "toplevel"
               PROVE wire'[i].h # l.id
    BY DEF Untold
  <1>1. CASE l \notin learned
    <2>1. l.id \in known /\ wire' = wire
      BY <1>1, Learns
    <2>2. wire[i].h \notin known
      BY <2>1 DEF IInv, Announcing, Opened
    <2> QED BY <2>1, <2>2
  <1>2. CASE l \in learned /\ Dispatch
    <2>1. i + 1 \in 1..Len(wire) /\ wire'[i] = wire[i + 1]
      BY <1>0, <1>2, TailWire DEF Dispatch
    <2> QED BY <1>0, <1>2, <2>1 DEF Untold
  <1>3. CASE l \in learned /\ ~Dispatch
    <2>1. ~Lose
      BY DEF Lose
    <2>2. \/ i \in 1..Len(wire) /\ wire'[i] = wire[i]
          \/ (\E k \in learned : k.id = wire'[i].h) => "reused" \in mishaps'
      BY <1>0, <1>3, <2>1, WireGrows
    <2> QED BY <1>0, <1>3, <2>2 DEF Untold
  <1> QED BY <1>1, <1>2, <1>3

LEMMA PlainBefore ==
  ASSUME VInv, [Next]_vars, Plain'
  PROVE /\ Plain /\ OneSession /\ OneSession' /\ connected /\ ~Lose /\ ~Renew
        /\ Valid /\ Untold /\ Kept /\ Settled /\ Honest
  <1>1. Plain /\ OneSession /\ OneSession'
    BY MishapsGrow DEF Plain, OneSession
  <1>2. connected /\ ~Lose /\ ~Renew
    BY <1>1 DEF VInv, Linked, Plain, Lose, Renew
  <1> QED BY <1>1, <1>2 DEF VInv, IInv

LEMMA KeptStep ==
  ASSUME VInv, [Next]_vars, Plain'  PROVE Kept'
  <1>0. /\ Plain /\ ~Lose /\ ~Renew /\ Valid /\ Kept /\ IInv /\ TypeOK /\ Announcing
    BY PlainBefore DEF VInv, IInv
  <1> SUFFICES ASSUME NEW l \in learned', l.win \in open'  PROVE l.id \in known'
    BY DEF Kept
  <1>1. CASE l \notin learned
    <2>1. l.id \in known /\ known' = known
      BY <1>1, Learns
    <2> QED BY <2>1
  <1>2. CASE l \in learned /\ l.win \in open
    <2>1. l.id \in known
      BY <1>0, <1>2 DEF Kept
    <2>2. CASE Dispatch
      <3>1. Head(wire) = wire[1] /\ 1 \in 1..Len(wire)
        BY <1>0, <2>2, TailWire DEF Dispatch
      <3>2. known \subseteq known' \/ (wire[1].ev = "closed" /\ known' = known \ {wire[1].h})
        BY <2>2, <3>1 DEF Dispatch, OnToplevel, OnTitle, OnState, OnDone, OnClosed, mirror
      <3>3. wire[1].ev = "closed" => wire[1].h # l.id
        BY <1>0, <1>2, <3>1 DEF Announcing, Ended, Over, Valid
      <3> QED BY <2>1, <3>2, <3>3
    <2>3. CASE known' = known
      BY <2>1, <2>3
    <2>4. ASSUME NEW w \in Windows, OpenWindow(w) \/ CloseWindow(w)  PROVE known' = known
      BY <2>4 DEF OpenWindow, CloseWindow, Change, mirror
    <2> QED BY <1>0, <2>2, <2>3, <2>4, DeskStep
  <1>3. CASE l \in learned /\ l.win \notin open
    <2>1. stack' # stack
      BY <1>3 DEF open
    <2>2. PICK w \in Windows : OpenWindow(w) \/ CloseWindow(w)
      BY <1>0, <2>1, DeskStep
    <2>3. CASE OpenWindow(w)
      <3>1. open' = open \cup {w} /\ w \in unborn
        BY <1>0, <2>3, OpenGains DEF OpenWindow
      <3>2. l.win \notin unborn
        BY <1>0, <1>3 DEF Valid
      <3> QED BY <1>3, <3>1, <3>2
    <2>4. CASE CloseWindow(w)
      <3>1. open' = open \ {w}
        BY <1>0, <2>4, CloseOpen
      <3> QED BY <1>3, <3>1
    <2> QED BY <2>2, <2>3, <2>4
  <1> QED BY <1>1, <1>2, <1>3

LEMMA AskedStays ==
  ASSUME IInv, [Next]_vars, NEW t \in Tasks, pc[t] # "idle", pc'[t] = "asked"
  PROVE pc[t] = "asked"
  <1>0. pc \in [Tasks -> {"idle", "asked", "cancelled", "ok", "not_found"}]
    BY DEF IInv, TypeOK
  <1> SUFFICES ASSUME pc'[t] # pc[t]  PROVE FALSE
    OBVIOUS
  <1>1. \E u \in Tasks : Ask(u) \/ Cancel(u) \/ AnswerRead(u) \/ Act(u)
    BY DEF Next, DropBackend, Recv, Dispatch, Serve, OpenWindow, CloseWindow, Retitle,
           Focus, Change, Lose, Renew, vars, calls
  <1>2. PICK u \in Tasks : Ask(u) \/ Cancel(u) \/ AnswerRead(u) \/ Act(u)
    BY <1>1
  <1> QED BY <1>0, <1>2 DEF Ask, Cancel, AnswerRead, Act, Reply

LEMMA SettledStep ==
  ASSUME VInv, [Next]_vars, Plain'  PROVE Settled'
  <1>0. /\ Plain /\ connected /\ ~Lose /\ ~Renew /\ Valid /\ Untold /\ Settled
        /\ IInv /\ TypeOK /\ Announcing /\ Callers /\ Watching /\ Ending /\ Roundtrip
    BY PlainBefore DEF VInv, IInv
  <1> SUFFICES ASSUME NEW t \in Tasks, Misled(t)'
               PROVE /\ ~synced'
                     /\ \A i \in 1..Len(wire') : wire'[i].ev = "callback" =>
                           \E j \in 1..i : wire'[j].ev = "closed" /\ wire'[j].h = given'[t]
    BY DEF Settled
  <1>1. worker' = t /\ pc'[t] = "asked" /\ kind'[t] \in Targeted /\ given'[t] \in known'
        /\ \A v \in during'[t] : wanted'[t] \notin v.open
    BY DEF Misled, Gone
  <1>2. CASE Recv
    <2>1. worker = None /\ ~synced' /\ wire' = wire
      BY <1>2 DEF Recv
    <2>2. \A i \in 1..Len(wire) : wire[i].ev # "callback"
      BY <1>0, <2>1, WlrAssumption DEF Roundtrip
    <2> QED BY <2>1, <2>2
  <1> SUFFICES ASSUME ~Recv
               PROVE /\ ~synced'
                     /\ \A i \in 1..Len(wire') : wire'[i].ev = "callback" =>
                           \E j \in 1..i : wire'[j].ev = "closed" /\ wire'[j].h = given'[t]
    BY <1>2
  <1>3. worker = t /\ (Dispatch \/ synced' = synced)
    BY <1>1, WorkerStep
  <1>4. pc[t] # "idle"
    BY <1>0, <1>3 DEF Callers
  <1>5. pc[t] = "asked" /\ kind[t] \in Targeted /\ given'[t] = given[t] /\ wanted'[t] = wanted[t]
    BY <1>0, <1>1, <1>4, AskedStays, Lasting
  <1>6. Gone(t)
    BY <1>0, <1>1, <1>4, <1>5, Seeing DEF Gone
  <1>7. [id |-> given[t], win |-> wanted[t]] \in learned
    BY <1>0, <1>4, <1>5 DEF Callers
  <1> DEFINE h == given[t]
  <1>8. h \in known
    <2>1. CASE Dispatch
      <3>1. Head(wire) = wire[1] /\ 1 \in 1..Len(wire)
        BY <1>0, <2>1, TailWire DEF Dispatch
      <3>2. known' \subseteq known \/ (wire[1].ev = "toplevel" /\ known' = known \cup {wire[1].h})
        BY <2>1, <3>1 DEF Dispatch, OnToplevel, OnTitle, OnState, OnDone, OnClosed, mirror
      <3>3. wire[1].ev = "toplevel" => wire[1].h # h
        BY <1>0, <1>7, <3>1 DEF Untold
      <3> QED BY <1>1, <1>5, <3>2, <3>3
    <2>2. CASE known' = known
      BY <1>1, <1>5, <2>2
    <2>3. ASSUME NEW w \in Windows, OpenWindow(w) \/ CloseWindow(w)  PROVE known' = known
      BY <2>3 DEF OpenWindow, CloseWindow, Change, mirror
    <2> QED BY <1>0, <2>1, <2>2, <2>3, DeskStep
  <1>9. /\ ~synced
        /\ \A i \in 1..Len(wire) : wire[i].ev = "callback" =>
              \E j \in 1..i : wire[j].ev = "closed" /\ wire[j].h = h
    BY <1>0, <1>3, <1>5, <1>6, <1>8 DEF Settled, Misled
  <1>10. CASE Dispatch
    <2>1. /\ Head(wire) = wire[1] /\ 1 \in 1..Len(wire) /\ Len(wire) \in Nat
          /\ Len(wire') \in Nat
          /\ \A i \in 1..Len(wire') : i + 1 \in 1..Len(wire) /\ wire'[i] = wire[i + 1]
          /\ \A i \in 1..Len(wire) : i # 1 => i - 1 \in 1..Len(wire') /\ wire'[i - 1] = wire[i]
      BY <1>0, <1>10, TailWire DEF Dispatch, TypeOK
    <2>2. wire[1].ev # "callback"
      <3> SUFFICES ASSUME wire[1].ev = "callback"  PROVE FALSE
        OBVIOUS
      <3>1. PICK j \in 1..1 : wire[j].ev = "closed"
        BY <1>9, <2>1
      <3>2. j = 1
        OBVIOUS
      <3> QED BY <3>1, <3>2
    <2>3. ~(wire[1].ev = "closed" /\ wire[1].h = h)
      BY <1>1, <1>5, <1>10, <2>1 DEF Dispatch, OnClosed
    <2>4. synced' = synced
      BY <1>10, <2>1, <2>2 DEF Dispatch
    <2>5. ASSUME NEW i \in 1..Len(wire'), wire'[i].ev = "callback"
          PROVE \E j \in 1..i : wire'[j].ev = "closed" /\ wire'[j].h = given'[t]
      <3>1. PICK j \in 1..(i + 1) : wire[j].ev = "closed" /\ wire[j].h = h
        BY <1>9, <2>1, <2>5
      <3>2. j # 1 /\ j \in 1..Len(wire)
        BY <2>1, <2>3, <3>1
      <3>3. j - 1 \in 1..i /\ wire'[j - 1] = wire[j]
        BY <2>1, <3>2
      <3> QED BY <1>5, <3>1, <3>3
    <2> QED BY <1>9, <2>4, <2>5
  <1>11. CASE ~Dispatch
    <2>1. ~synced'
      BY <1>3, <1>9, <1>11
    <2>2. /\ Len(wire) \in Nat
          /\ \A i \in 1..Len(wire) : i \in 1..Len(wire') /\ wire'[i] = wire[i]
      BY <1>0, <1>11, WireGrows DEF TypeOK
    <2>3. ASSUME NEW i \in 1..Len(wire'), wire'[i].ev = "callback"
          PROVE \E j \in 1..i : wire'[j].ev = "closed" /\ wire'[j].h = given'[t]
      <3>1. CASE i \in 1..Len(wire) /\ wire'[i] = wire[i]
        <4>1. PICK j \in 1..i : wire[j].ev = "closed" /\ wire[j].h = h
          BY <1>9, <2>3, <3>1
        <4>2. wire'[j] = wire[j]
          BY <2>2, <3>1
        <4> QED BY <1>5, <4>1, <4>2
      <3>2. CASE i = Len(wire) + 1
        <4>1. handle[h] = wanted[t]
          BY <1>0, <1>7, <1>8 DEF Valid, Announcing, Mirrored
        <4>2. wanted[t] \notin open
          BY <1>0, <1>5, <1>6 DEF Watching, Asked, Gone, View, open
        <4>3. PICK j \in 1..Len(wire) : wire[j].ev = "closed" /\ wire[j].h = h
          BY <1>0, <1>8, <4>1, <4>2 DEF Ending, Living, Coming
        <4>4. j \in 1..i /\ wire'[j] = wire[j]
          BY <2>2, <3>2
        <4> QED BY <1>5, <4>3, <4>4
      <3> QED BY <1>0, <1>11, <2>3, <3>1, <3>2, WireGrows
    <2> QED BY <2>1, <2>3
  <1> QED BY <1>10, <1>11

LEMMA HonestStep ==
  ASSUME VInv, [Next]_vars, Plain'  PROVE Honest'
  <1>0. /\ Plain /\ connected /\ Valid /\ Kept /\ Settled /\ Honest
        /\ IInv /\ TypeOK /\ Callers /\ Watching
    BY PlainBefore DEF VInv, IInv
  <1> SUFFICES ASSUME NEW t \in Tasks, kind'[t] \in Targeted
               PROVE /\ pc'[t] = "ok" => \E v \in during'[t] : wanted'[t] \in v.open
                     /\ pc'[t] = "not_found" => \E v \in during'[t] : wanted'[t] \notin v.open
    BY DEF Honest
  <1>1. CASE pc[t] # "idle" /\ pc'[t] = pc[t]
    <2>1. kind[t] \in Targeted /\ wanted'[t] = wanted[t] /\ during[t] \subseteq during'[t]
      BY <1>0, <1>1, Lasting, Seeing
    <2> QED BY <1>0, <1>1, <2>1 DEF Honest
  <1>2. CASE pc'[t] \notin {"ok", "not_found"}
    BY <1>2
  <1>3. CASE pc'[t] # pc[t] /\ pc'[t] \in {"ok", "not_found"}
    <2>0. pc \in [Tasks -> {"idle", "asked", "cancelled", "ok", "not_found"}]
      BY <1>0 DEF TypeOK
    <2>1. \E u \in Tasks : Ask(u) \/ Cancel(u) \/ AnswerRead(u) \/ Act(u)
      BY <1>3 DEF Next, DropBackend, Recv, Dispatch, Serve, OpenWindow, CloseWindow, Retitle,
                  Focus, Change, Lose, Renew, vars, calls
    <2>2. PICK u \in Tasks : Ask(u) \/ Cancel(u) \/ AnswerRead(u) \/ Act(u)
      BY <2>1
    <2>3. ~Ask(u) /\ ~Cancel(u)
      BY <1>3, <2>0 DEF Ask, Cancel
    <2>4. CASE AnswerRead(u)
      <3>1. u = t
        BY <1>3, <2>0, <2>4 DEF AnswerRead, Reply
      <3> QED BY <2>4, <3>1 DEF AnswerRead
    <2>5. CASE Act(u)
      <3>1. u = t /\ pc[t] = "asked"
        BY <1>3, <2>0, <2>5 DEF Act, Reply
      <3>2. worker = t /\ synced /\ kind[t] \in Targeted
            /\ UNCHANGED <<during, given, wanted, stack>>
        BY <1>0, <2>5, <3>1 DEF Act, Roundtripped, desktop
      <3>3. CASE given[t] \in known
        <4>1. pc'[t] = "ok"
          BY <2>0, <2>5, <3>1, <3>3 DEF Act, Reply
        <4>2. ~Gone(t)
          BY <1>0, <3>1, <3>2, <3>3 DEF Settled, Misled
        <4> QED BY <3>2, <4>1, <4>2 DEF Gone
      <3>4. CASE given[t] \notin known
        <4>1. pc'[t] = "not_found"
          BY <2>0, <2>5, <3>1, <3>4 DEF Act, Reply
        <4>2. [id |-> given[t], win |-> wanted[t]] \in learned
          BY <1>0, <3>1, <3>2 DEF Callers
        <4>3. wanted[t] \notin open
          BY <1>0, <3>4, <4>2 DEF Kept
        <4>4. \E v \in during[t] : v.open = open
          BY <1>0, <3>1 DEF Watching, Asked, View, open
        <4> QED BY <3>2, <4>1, <4>3, <4>4
      <3> QED BY <3>3, <3>4
    <2> QED BY <2>2, <2>3, <2>4, <2>5
  <1>4. CASE pc[t] = "idle" /\ pc'[t] = pc[t]
    BY <1>4
  <1> QED BY <1>1, <1>2, <1>3, <1>4

LEMMA InitVInv == Init => VInv
  <1> SUFFICES ASSUME Init  PROVE VInv
    OBVIOUS
  <1>1. IInv /\ TypeOK
    BY InitIInv DEF IInv
  <1>2. wire = <<>> /\ requests = <<>> /\ learned = {} /\ connected /\ worker = None
        /\ (\A t \in Tasks : pc[t] = "idle")
        /\ known = 1..Len(stack) /\ handle = Numbered(stack) /\ stack = Existing
    BY DEF Init
  <1>3. \A h \in known : handle[h] \in open
    <2>1. DOMAIN stack = 1..Len(stack) /\ Len(stack) \in Nat /\ Len(stack) <= MaxHandles
      BY <1>2, WlrAssumption
    <2>2. \A n \in 1..Len(stack) : handle[n] = stack[n] /\ stack[n] \in open
      BY <1>2, <2>1, WlrAssumption DEF Numbered, Handles, open, ToSet
    <2> QED BY <1>2, <2>2
  <1>4. Watching /\ Linked /\ Untold /\ Kept /\ Honest /\ Settled
    BY <1>2, WlrAssumption DEF Watching, Asked, Linked, Untold, Kept, Honest, Settled, Misled
  <1>5. Ending /\ Roundtrip
    BY <1>2, <1>3 DEF Ending, Roundtrip, Living
  <1> QED BY <1>1, <1>4, <1>5 DEF VInv

LEMMA VInvStep == VInv /\ [Next]_vars => VInv'
  <1> SUFFICES ASSUME VInv, [Next]_vars  PROVE VInv'
    OBVIOUS
  <1>1. IInv'
    BY IInvStep DEF VInv
  <1> QED BY <1>1, WatchingStep, EndingStep, RoundtripStep, LinkedStep, UntoldStep, KeptStep,
          SettledStep, HonestStep DEF VInv

\* The verdict of activate_window and close_window on an id is right for some
\* instant of the call: the roundtrip makes the mirror as fresh as its answer.
THEOREM VerdictsAreHonest == Spec => []VerdictHonest
  <1>1. Init => VInv
    BY InitVInv
  <1>2. VInv /\ [Next]_vars => VInv'
    BY VInvStep
  <1>3. VInv => VerdictHonest
    BY DEF VInv, Plain, Honest, VerdictHonest
  <1> QED BY <1>1, <1>2, <1>3, PTL DEF Spec

------------------------------------------------------------------------------
(* Reads.  What has been sent runs ahead of the mirror: after each event   *)
(* still to be dispatched the mirror will be one of a row of mirrors, the  *)
(* last of which is the desktop as it is.  Those a call can be answered    *)
(* from, the ones after the answer to its roundtrip, each show a desktop   *)
(* there has been during the call.                                         *)

\* What an event makes of mirror m: Dispatch, of mirrors that are still to be.
Announces(e, m, n) ==
    /\ n.known = m.known \cup {e.h} /\ n.on = m.on \ {e.h}
    /\ \A h \in Handles : n.stands[h] = IF h = e.h THEN e.win ELSE m.stands[h]
    /\ n.pend = m.pend \cup {e.h} /\ n.pendOn = m.pendOn \ {e.h}
Same(m, n) == n.known = m.known /\ \A h \in Handles : n.stands[h] = m.stands[h]
Applies(e, m, n) ==
    /\ Same(m, n) /\ n.pend = m.pend \ {e.h} /\ n.pendOn = m.pendOn \ {e.h}
    /\ n.on = IF e.h \notin m.pend \cap m.known THEN m.on
              ELSE IF e.h \in m.pendOn THEN m.on \cup {e.h} ELSE m.on \ {e.h}
Notes(e, m, n) ==
    /\ Same(m, n) /\ n.on = m.on /\ n.pend = m.pend \cup {e.h}
    /\ n.pendOn = IF e.ev = "title" THEN m.pendOn
                  ELSE IF e.on THEN m.pendOn \cup {e.h} ELSE m.pendOn \ {e.h}
Ends(e, m, n) ==
    /\ n.known = m.known \ {e.h} /\ n.on = m.on \ {e.h}
    /\ \A h \in Handles : n.stands[h] = m.stands[h]
    /\ n.pend = m.pend \ {e.h} /\ n.pendOn = m.pendOn \ {e.h}
Turns(e, m, n) ==
    /\ e.ev = "toplevel" => Announces(e, m, n)
    /\ e.ev \in {"title", "state"} => Notes(e, m, n)
    /\ e.ev = "done" => Applies(e, m, n)
    /\ e.ev = "closed" => Ends(e, m, n)
    /\ e.ev = "callback" => Same(m, n) /\ n.on = m.on /\ n.pend = m.pend /\ n.pendOn = m.pendOn
Run(w, f) == \A i \in 1..Len(w) : Turns(w[i], f[i - 1], f[i])

\* The mirror of a desktop, and what a read makes of a mirror.
Final(m, hd, op, ac) ==
    /\ m.known = {h \in Handles : hd[h] \in op}
    /\ \A h \in m.known : m.stands[h] = hd[h]
    /\ m.on = {h \in m.known : hd[h] = ac}
Shows(m, v) ==
    /\ {m.stands[h] : h \in m.known} = v.open
    /\ {m.stands[h] : h \in m.on} = {v.active} \ {None}

\* Mirrors g of the events x are mirrors f of the events w, and then of views V.
Grows(w, x, f, g, V) ==
    /\ Len(w) <= Len(x) /\ Run(x, g)
    /\ \A i \in 1..Len(w) : x[i] = w[i]
    /\ \A i \in 0..Len(w) : g[i] = f[i]
    /\ \A i \in (Len(w) + 1)..Len(x) : \E v \in V : Shows(g[i], v)

\* Once the roundtrip is answered, a mirror shows a desktop that was seen.
Heard(w, s, i) == s \/ \E k \in 1..i : w[k].ev = "callback"
Told(w, s, f, D) == \A i \in 0..Len(w) : Heard(w, s, i) => \E v \in D : Shows(f[i], v)

Is(m) == /\ m.known = known /\ m.on = activated /\ m.pend = pend /\ m.pendOn = pendOn
         /\ \A h \in Handles : m.stands[h] = stands[h]
Serving(t) == worker = t /\ pc[t] = "asked"
Ahead(f) ==
    /\ Is(f[0]) /\ Run(wire, f) /\ Final(f[Len(wire)], handle, open, active)
    /\ \A t \in Tasks : Serving(t) => Told(wire, synced, f, during[t])

\* A call waits once in the queue, or is served.
Waiting ==
    /\ \A i \in 1..Len(queue) : queue[i] \in Tasks =>
          /\ pc[queue[i]] \in {"asked", "cancelled"} /\ queue[i] # worker
          /\ \A j \in 1..Len(queue) : queue[j] = queue[i] => j = i
    /\ worker \in Tasks => pc[worker] \in {"asked", "cancelled"}
Calm == mishaps \cap {"retitled", "lost"} = {}

RInv == VInv /\ Waiting /\ (Calm => LatestState /\ \E f : Ahead(f))

LEMMA FinalShows ==
  ASSUME NEW m, NEW hd, NEW op, NEW ac, Final(m, hd, op, ac),
         \A w \in op : \E h \in Handles : hd[h] = w, ac \in op \cup {None}, None \notin op
  PROVE Shows(m, [open |-> op, active |-> ac])
  <1>1. /\ m.known = {h \in Handles : hd[h] \in op} /\ \A h \in m.known : m.stands[h] = hd[h]
        /\ m.on = {h \in m.known : hd[h] = ac}
    BY DEF Final
  <1>2. {m.stands[h] : h \in m.known} = op
    <2>1. ASSUME NEW h \in m.known  PROVE m.stands[h] \in op
      BY <1>1
    <2>2. ASSUME NEW w \in op  PROVE \E h \in m.known : m.stands[h] = w
      BY <1>1
    <2> QED BY <2>1, <2>2
  <1>3. {m.stands[h] : h \in m.on} = {ac} \ {None}
    <2>1. ASSUME NEW h \in m.on  PROVE m.stands[h] = ac /\ ac # None
      BY <1>1
    <2>2. ASSUME ac # None  PROVE \E h \in m.on : m.stands[h] = ac
      BY <1>1, <2>2
    <2> QED BY <2>1, <2>2
  <1> QED BY <1>2, <1>3 DEF Shows

\* One event more.
LEMMA GrowsByOne ==
  ASSUME NEW w \in Seq(Events), NEW e \in Events, NEW f, NEW n, NEW V,
         Run(w, f), Turns(e, f[Len(w)], n), \E v \in V : Shows(n, v)
  PROVE \E g : /\ Grows(w, Append(w, e), f, g, V)
               /\ Len(Append(w, e)) = Len(w) + 1 /\ g[Len(w) + 1] = n
  <1> HIDE DEF Events, Turns, Shows
  <1> DEFINE x == Append(w, e)
             g == [i \in 0..(Len(w) + 1) |-> IF i <= Len(w) THEN f[i] ELSE n]
  <1>1. Len(w) \in Nat /\ Len(x) = Len(w) + 1 /\ x[Len(w) + 1] = e
        /\ \A i \in 1..Len(w) : x[i] = w[i]
    OBVIOUS
  <1>2. (\A i \in 0..Len(w) : g[i] = f[i]) /\ g[Len(w) + 1] = n
    BY <1>1
  <1> HIDE DEF x, g
  <1>3. ASSUME NEW i \in 1..Len(x)  PROVE Turns(x[i], g[i - 1], g[i])
    <2>1. CASE i \in 1..Len(w)
      <3>1. i - 1 \in 0..Len(w) /\ i \in 0..Len(w)
        BY <1>1, <2>1
      <3> QED BY <1>1, <1>2, <2>1, <3>1 DEF Run
    <2>2. CASE i = Len(w) + 1
      <3>1. i - 1 = Len(w) /\ Len(w) \in 0..Len(w)
        BY <1>1, <2>2
      <3> QED BY <1>1, <1>2, <2>2, <3>1
    <2> QED BY <1>1, <2>1, <2>2
  <1>4. ASSUME NEW i \in (Len(w) + 1)..Len(x)  PROVE \E v \in V : Shows(g[i], v)
    <2>1. i = Len(w) + 1
      BY <1>1
    <2> QED BY <1>2, <2>1
  <1>5. Grows(w, x, f, g, V)
    BY <1>1, <1>2, <1>3, <1>4 DEF Grows, Run
  <1> QED BY <1>1, <1>2, <1>5 DEF x

LEMMA GrowsOn ==
  ASSUME NEW w \in Seq(Events), NEW x \in Seq(Events), NEW y \in Seq(Events),
         NEW f, NEW g, NEW k, NEW V, Grows(w, x, f, g, V), Grows(x, y, g, k, V)
  PROVE Grows(w, y, f, k, V)
  <1> HIDE DEF Events, Shows
  <1>1. Len(w) \in Nat /\ Len(x) \in Nat /\ Len(y) \in Nat /\ Len(w) <= Len(x) /\ Len(x) <= Len(y)
    BY DEF Grows
  <1>2. Len(w) <= Len(y)
    BY <1>1
  <1>3. \A i \in 1..Len(w) : y[i] = w[i]
    BY <1>1 DEF Grows
  <1>4. \A i \in 0..Len(w) : k[i] = f[i]
    BY <1>1 DEF Grows
  <1>5. ASSUME NEW i \in (Len(w) + 1)..Len(y)  PROVE \E v \in V : Shows(k[i], v)
    <2>1. CASE i \in (Len(w) + 1)..Len(x)
      <3>1. i \in 0..Len(x)  BY <1>1, <2>1
      <3> QED BY <2>1, <3>1 DEF Grows
    <2>2. CASE i \in (Len(x) + 1)..Len(y)
      BY <2>2 DEF Grows
    <2> QED BY <1>1, <2>1, <2>2
  <1> QED BY <1>2, <1>3, <1>4, <1>5 DEF Grows

\* A call has seen what it had, and sees the views of the new mirrors.
LEMMA ToldGrows ==
  ASSUME NEW w \in Seq(Events), NEW x \in Seq(Events), NEW f, NEW g, NEW V, NEW s, NEW D, NEW E,
         Grows(w, x, f, g, V), Told(w, s, f, D), D \subseteq E, V \subseteq E
  PROVE Told(x, s, g, E)
  <1> HIDE DEF Events, Shows
  <1>1. Len(w) \in Nat /\ Len(x) \in Nat /\ Len(w) <= Len(x)
    BY DEF Grows
  <1> SUFFICES ASSUME NEW i \in 0..Len(x), Heard(x, s, i)
               PROVE \E v \in E : Shows(g[i], v)
    BY DEF Told
  <1>2. CASE i \in 0..Len(w)
    <2>1. \A k \in 1..i : x[k] = w[k]
      BY <1>1, <1>2 DEF Grows
    <2>2. Heard(w, s, i)
      BY <2>1 DEF Heard
    <2>3. g[i] = f[i]
      BY <1>2 DEF Grows
    <2>4. \E v \in D : Shows(f[i], v)
      BY <1>2, <2>2 DEF Told
    <2> QED BY <2>3, <2>4
  <1>3. CASE i \in (Len(w) + 1)..Len(x)
    BY <1>3 DEF Grows
  <1> QED BY <1>1, <1>2, <1>3

\* A desktop: hd the window of each handle, op the open ones, ac the focused one.
Desk(hd, op, ac) ==
    /\ None \notin op /\ ac \in op \cup {None}
    /\ \A w \in op : \E h \in Handles : hd[h] = w
    /\ \A g, h \in Handles : hd[g] = hd[h] /\ hd[g] # None => g = h
Seen(op, ac) == [open |-> op, active |-> ac]

\* The mirror with these fields.
Mirror(k, s, o, p, q) == [known |-> k, stands |-> s, on |-> o, pend |-> p, pendOn |-> q]

LEMMA MirrorHas ==
  ASSUME NEW k, NEW s, NEW o, NEW p, NEW q
  PROVE /\ Mirror(k, s, o, p, q).known = k /\ Mirror(k, s, o, p, q).stands = s
        /\ Mirror(k, s, o, p, q).on = o /\ Mirror(k, s, o, p, q).pend = p
        /\ Mirror(k, s, o, p, q).pendOn = q
  BY DEF Mirror

LEMMA EventHas ==
  ASSUME NEW h \in Handles, NEW w \in Windows, NEW b \in BOOLEAN
  PROVE /\ Toplevel(h, w) \in Events /\ Title(h) \in Events /\ Flags(h, b) \in Events
        /\ DoneEvent(h) \in Events /\ Closed(h) \in Events
        /\ Toplevel(h, w).ev = "toplevel" /\ Toplevel(h, w).h = h /\ Toplevel(h, w).win = w
        /\ Title(h).ev = "title" /\ Title(h).h = h
        /\ Flags(h, b).ev = "state" /\ Flags(h, b).h = h /\ Flags(h, b).on = b
        /\ DoneEvent(h).ev = "done" /\ DoneEvent(h).h = h
        /\ Closed(h).ev = "closed" /\ Closed(h).h = h
  BY DEF Toplevel, Title, Flags, DoneEvent, Closed, Events, Numbers

\* Flags and the done that applies them move the focus off a window or onto it.
LEMMA FlagsTurn ==
  ASSUME NEW m, NEW hd, NEW op, NEW ac, NEW h \in Handles, NEW w \in Windows, NEW b \in BOOLEAN,
         Final(m, hd, op, ac), Desk(hd, op, ac), hd[h] = w, w \in op,
         b => ac = None, ~b => ac = w
  PROVE \E n, l : /\ Turns(Flags(h, b), m, n) /\ Final(n, hd, op, ac)
                  /\ Turns(DoneEvent(h), n, l) /\ Final(l, hd, op, IF b THEN w ELSE None)
  <1> DEFINE q == IF b THEN m.pendOn \cup {h} ELSE m.pendOn \ {h}
             o == IF b THEN m.on \cup {h} ELSE m.on \ {h}
             n == Mirror(m.known, m.stands, m.on, m.pend \cup {h}, q)
             l == Mirror(m.known, m.stands, o, (m.pend \cup {h}) \ {h}, q \ {h})
  <1>1. /\ n.known = m.known /\ n.stands = m.stands /\ n.on = m.on /\ n.pend = m.pend \cup {h}
        /\ n.pendOn = q
        /\ l.known = m.known /\ l.stands = m.stands /\ l.on = o
        /\ l.pend = (m.pend \cup {h}) \ {h} /\ l.pendOn = q \ {h}
    BY MirrorHas
  <1> HIDE DEF n, l
  <1>2. /\ Flags(h, b).ev = "state" /\ Flags(h, b).h = h /\ Flags(h, b).on = b
        /\ DoneEvent(h).ev = "done" /\ DoneEvent(h).h = h
    BY EventHas
  <1>3. Turns(Flags(h, b), m, n)
    BY <1>1, <1>2 DEF Turns, Notes, Same
  <1>4. Final(n, hd, op, ac)
    BY <1>1 DEF Final
  <1>5. h \in m.known
    BY DEF Final
  <1>6. Turns(DoneEvent(h), n, l)
    <2>1. h \in n.pend \cap n.known
      BY <1>1, <1>5
    <2>2. b <=> h \in n.pendOn
      BY <1>1
    <2>3. l.on = IF h \in n.pendOn THEN n.on \cup {h} ELSE n.on \ {h}
      BY <1>1, <2>2
    <2> QED BY <1>1, <1>2, <2>1, <2>3 DEF Turns, Applies, Same
  <1>7. Final(l, hd, op, IF b THEN w ELSE None)
    <2>1. \A g \in m.known : hd[g] = w <=> g = h
      BY <1>5 DEF Desk, Final
    <2>2. CASE b
      <3>1. m.on = {}
        BY <2>2 DEF Desk, Final
      <3>2. l.on = {g \in m.known : hd[g] = w}
        BY <1>1, <1>5, <2>1, <2>2, <3>1
      <3> QED BY <1>1, <2>2, <3>2 DEF Final
    <2>3. CASE ~b
      <3>1. l.on = {}
        BY <1>1, <2>1, <2>3 DEF Final
      <3>2. \A g \in m.known : hd[g] # None
        BY DEF Desk, Final
      <3> QED BY <1>1, <2>3, <3>1, <3>2 DEF Final
    <2> QED BY <2>2, <2>3
  <1> QED BY <1>3, <1>4, <1>6, <1>7

LEMMA FlagsGrow ==
  ASSUME NEW x \in Seq(Events), NEW f, NEW hd, NEW op, NEW ac, NEW h \in Handles,
         NEW w \in Windows, NEW b \in BOOLEAN, NEW V,
         Run(x, f), Final(f[Len(x)], hd, op, ac), Desk(hd, op, ac), hd[h] = w, w \in op,
         b => ac = None, ~b => ac = w,
         Seen(op, ac) \in V, Seen(op, IF b THEN w ELSE None) \in V
  PROVE \E g : LET y == Append(Append(x, Flags(h, b)), DoneEvent(h))
               IN /\ y \in Seq(Events) /\ Grows(x, y, f, g, V)
                  /\ Final(g[Len(y)], hd, op, IF b THEN w ELSE None)
  <1> DEFINE a2 == IF b THEN w ELSE None
             e1 == Flags(h, b)
             e2 == DoneEvent(h)
  <1>1. PICK n, l : /\ Turns(e1, f[Len(x)], n) /\ Final(n, hd, op, ac)
                    /\ Turns(e2, n, l) /\ Final(l, hd, op, a2)
    BY FlagsTurn
  <1>2. e1 \in Events /\ e2 \in Events
    BY EventHas
  <1>3. (\E v \in V : Shows(n, v)) /\ \E v \in V : Shows(l, v)
    <2>1. Shows(n, Seen(op, ac))
      BY <1>1, FinalShows DEF Desk, Seen
    <2>2. Shows(l, Seen(op, a2))
      <3>1. a2 \in op \cup {None}
        OBVIOUS
      <3> HIDE DEF a2
      <3> QED BY <1>1, <3>1, FinalShows DEF Desk, Seen
    <2> QED BY <2>1, <2>2
  <1> HIDE DEF e1, e2, a2, Events
  <1> DEFINE y1 == Append(x, e1)
             y2 == Append(y1, e2)
  <1>4. y1 \in Seq(Events) /\ y2 \in Seq(Events)
    BY <1>2
  <1>5. PICK g : Grows(x, y1, f, g, V) /\ Len(y1) = Len(x) + 1 /\ g[Len(x) + 1] = n
    BY <1>1, <1>2, <1>3, GrowsByOne
  <1> HIDE DEF y1
  <1>6. Run(y1, g) /\ Turns(e2, g[Len(y1)], l)
    BY <1>1, <1>5 DEF Grows
  <1>7. PICK k : Grows(y1, y2, g, k, V) /\ Len(y2) = Len(y1) + 1 /\ k[Len(y1) + 1] = l
    BY <1>2, <1>3, <1>4, <1>6, GrowsByOne
  <1> HIDE DEF y2
  <1>8. Grows(x, y2, f, k, V) /\ Final(k[Len(y2)], hd, op, a2)
    BY <1>1, <1>4, <1>5, <1>7, GrowsOn
  <1> QED BY <1>4, <1>8 DEF y1, y2, e1, e2, a2

\* A window that opens: its announcement, its title and done.
OpensBy(m, h, w, hd, op, ac, n, l, k) ==
    /\ Turns(Toplevel(h, w), m, n) /\ Final(n, hd, op, ac)
    /\ Turns(Title(h), n, l) /\ Final(l, hd, op, ac)
    /\ Turns(DoneEvent(h), l, k) /\ Final(k, hd, op, ac)
Opens(m, h, w, hd, op, ac) == \E n, l, k : OpensBy(m, h, w, hd, op, ac, n, l, k)

LEMMA OpenTurns ==
  ASSUME NEW m, NEW hd \in [Handles -> Numbers], NEW op, NEW ac, NEW h \in Handles,
         NEW w \in Windows, NEW hd2, NEW op2,
         Final(m, hd, op, ac), Desk(hd, op, ac), hd[h] = None, w \notin op,
         hd2 = [hd EXCEPT ![h] = w], op2 = op \cup {w}, \A g \in Handles : hd[g] # w
  PROVE Opens(m, h, w, hd2, op2, ac)
  <1> DEFINE s == [g \in Handles |-> IF g = h THEN w ELSE m.stands[g]]
             n == Mirror(m.known \cup {h}, s, m.on \ {h}, m.pend \cup {h}, m.pendOn \ {h})
             k == Mirror(m.known \cup {h}, s, m.on \ {h}, (m.pend \cup {h}) \ {h}, m.pendOn \ {h})
  <1>1. /\ n.known = m.known \cup {h} /\ n.stands = s /\ n.on = m.on \ {h}
        /\ n.pend = m.pend \cup {h} /\ n.pendOn = m.pendOn \ {h}
        /\ k.known = m.known \cup {h} /\ k.stands = s /\ k.on = m.on \ {h}
        /\ k.pend = (m.pend \cup {h}) \ {h} /\ k.pendOn = m.pendOn \ {h}
    BY MirrorHas
  <1> HIDE DEF n, k
  <1>2. /\ Toplevel(h, w).ev = "toplevel" /\ Toplevel(h, w).h = h /\ Toplevel(h, w).win = w
        /\ Title(h).ev = "title" /\ Title(h).h = h
        /\ DoneEvent(h).ev = "done" /\ DoneEvent(h).h = h
    BY DEF Toplevel, Title, DoneEvent
  <1>3. \A g \in Handles : s[g] = IF g = h THEN w ELSE m.stands[g]
    OBVIOUS
  <1> HIDE DEF s
  <1>4. Turns(Toplevel(h, w), m, n)
    BY <1>1, <1>2, <1>3 DEF Turns, Announces
  <1>5. Turns(Title(h), n, n)
    BY <1>1, <1>2 DEF Turns, Notes, Same
  <1>6. Turns(DoneEvent(h), n, k)
    <2>1. k.on = n.on \ {h} /\ h \notin n.pendOn /\ n.on \ {h} = n.on
      BY <1>1
    <2> QED BY <1>1, <1>2, <2>1 DEF Turns, Applies, Same
  <1>7. ASSUME NEW l, l.known = m.known \cup {h}, l.stands = s, l.on = m.on \ {h}
        PROVE Final(l, hd2, op2, ac)
    <2>1. hd2[h] = w /\ \A g \in Handles : g # h => hd2[g] = hd[g]
      OBVIOUS
    <2>2. m.known = {g \in Handles : hd[g] \in op} /\ h \notin m.known /\ h \notin m.on
      BY DEF Final, Desk
    <2>3. l.known = {g \in Handles : hd2[g] \in op2}
      BY <1>7, <2>1, <2>2
    <2>4. \A g \in l.known : l.stands[g] = hd2[g]
      BY <1>3, <1>7, <2>1, <2>2 DEF Final
    <2>5. w # ac
      BY WlrAssumption DEF Desk
    <2>6. l.on = {g \in l.known : hd2[g] = ac}
      BY <1>7, <2>1, <2>2, <2>5 DEF Final
    <2> QED BY <2>3, <2>4, <2>6 DEF Final
  <1>8. Final(n, hd2, op2, ac) /\ Final(k, hd2, op2, ac)
    BY <1>1, <1>7
  <1>9. OpensBy(m, h, w, hd2, op2, ac, n, n, k)
    BY <1>4, <1>5, <1>6, <1>8 DEF OpensBy
  <1> QED BY <1>9 DEF Opens

LEMMA CloseTurns ==
  ASSUME NEW m, NEW hd, NEW op, NEW ac, NEW h \in Handles, NEW w \in Windows,
         Final(m, hd, op, ac), Desk(hd, op, ac), hd[h] = w, w \in op
  PROVE \E n : /\ Turns(Closed(h), m, n)
               /\ Final(n, hd, op \ {w}, IF ac = w THEN None ELSE ac)
  <1> DEFINE n == Mirror(m.known \ {h}, m.stands, m.on \ {h}, m.pend \ {h}, m.pendOn \ {h})
  <1>1. /\ n.known = m.known \ {h} /\ n.stands = m.stands /\ n.on = m.on \ {h}
        /\ n.pend = m.pend \ {h} /\ n.pendOn = m.pendOn \ {h}
    BY MirrorHas
  <1> HIDE DEF n
  <1>2. Closed(h).ev = "closed" /\ Closed(h).h = h
    BY EventHas
  <1>3. Turns(Closed(h), m, n)
    BY <1>1, <1>2 DEF Turns, Ends
  <1>4. m.known = {g \in Handles : hd[g] \in op} /\ \A g \in Handles : hd[g] = w <=> g = h
    BY DEF Final, Desk
  <1>5. n.known = {g \in Handles : hd[g] \in op \ {w}} /\ \A g \in n.known : n.stands[g] = hd[g]
    BY <1>1, <1>4 DEF Final
  <1>6. n.on = {g \in n.known : hd[g] = IF ac = w THEN None ELSE ac}
    <2>1. CASE ac = w
      <3>1. n.on = {}
        BY <1>1, <1>4, <2>1 DEF Final
      <3>2. \A g \in n.known : hd[g] # None
        BY <1>5 DEF Desk
      <3> QED BY <2>1, <3>1, <3>2
    <2>2. CASE ac # w
      BY <1>1, <1>4, <2>2 DEF Final
    <2> QED BY <2>1, <2>2
  <1> QED BY <1>3, <1>5, <1>6 DEF Final

LEMMA DeskHas ==
  ASSUME TypeOK, Numbering
  PROVE Desk(handle, open, active) /\ View(stack, active) = Seen(open, active)
  BY OpenIs DEF Numbering, Desk, View, Seen, open

LEMMA GrowsNot ==
  ASSUME NEW w \in Seq(Events), NEW f, NEW V, Run(w, f)  PROVE Grows(w, w, f, f, V)
  BY DEF Grows

\* The focus moves, by way of no window at all.
LEMMA FocusGrows ==
  ASSUME IInv, NEW f, Run(wire, f), Final(f[Len(wire)], handle, open, active),
         NEW w \in open \cup {None}, w # active, NEW V,
         V = {Seen(open, active), Seen(open, None), Seen(open, w)}
  PROVE \E g : LET y == wire \o FocusEvents(active, w)
               IN Grows(wire, y, f, g, V) /\ Final(g[Len(y)], handle, open, w)
  <1>0. TypeOK /\ Numbering /\ wire \in Seq(Events) /\ active \in open \cup {None}
        /\ open \subseteq Windows /\ Desk(handle, open, active)
    BY OpenIs, DeskHas DEF IInv, TypeOK, Numbering
  <1> DEFINE Pair(x, v, b) == Append(Append(x, Flags(HandleOf(v), b)), DoneEvent(HandleOf(v)))
             mid == IF active = None THEN wire ELSE Pair(wire, active, FALSE)
             end == IF w = None THEN mid ELSE Pair(mid, w, TRUE)
  <1>1. \E g : /\ mid \in Seq(Events) /\ Grows(wire, mid, f, g, V)
               /\ Final(g[Len(mid)], handle, open, None)
    <2>1. CASE active = None
      <3>1. Grows(wire, wire, f, f, V)
        BY <1>0, GrowsNot
      <3> QED BY <1>0, <2>1, <3>1
    <2>2. CASE active # None
      <3>1. HandleOf(active) \in Handles /\ handle[HandleOf(active)] = active /\ active \in open
        BY <1>0, <2>2, HandleHas
      <3>2. \E g : LET y == Append(Append(wire, Flags(HandleOf(active), FALSE)),
                                   DoneEvent(HandleOf(active)))
                   IN /\ y \in Seq(Events) /\ Grows(wire, y, f, g, V)
                      /\ Final(g[Len(y)], handle, open, IF FALSE THEN active ELSE None)
        <4>1. active \in Windows /\ FALSE \in BOOLEAN
              /\ Seen(open, active) \in V /\ Seen(open, IF FALSE THEN active ELSE None) \in V
          BY <1>0, <3>1
        <4> QED BY <1>0, <3>1, <4>1, FlagsGrow
      <3> QED BY <2>2, <3>2
    <2> QED BY <2>1, <2>2
  <1> HIDE DEF mid
  <1>2. PICK g : /\ mid \in Seq(Events) /\ Grows(wire, mid, f, g, V)
                 /\ Final(g[Len(mid)], handle, open, None)
    BY <1>1
  <1>3. Run(mid, g)
    BY <1>2 DEF Grows
  <1>4. \E k : Grows(wire, end, f, k, V) /\ Final(k[Len(end)], handle, open, w)
    <2>1. CASE w = None
      BY <1>2, <2>1
    <2>2. CASE w # None
      <3>1. HandleOf(w) \in Handles /\ handle[HandleOf(w)] = w /\ w \in open /\ w \in Windows
        BY <1>0, <2>2, HandleHas
      <3>2. Desk(handle, open, None)
        BY <1>0 DEF Desk
      <3>3. \E k : LET y == Append(Append(mid, Flags(HandleOf(w), TRUE)), DoneEvent(HandleOf(w)))
                   IN /\ y \in Seq(Events) /\ Grows(mid, y, g, k, V)
                      /\ Final(k[Len(y)], handle, open, IF TRUE THEN w ELSE None)
        <4>1. TRUE \in BOOLEAN
              /\ Seen(open, None) \in V /\ Seen(open, IF TRUE THEN w ELSE None) \in V
          OBVIOUS
        <4> QED BY <1>2, <1>3, <3>1, <3>2, <4>1, FlagsGrow
      <3> DEFINE y == Append(Append(mid, Flags(HandleOf(w), TRUE)), DoneEvent(HandleOf(w)))
      <3>4. PICK k : /\ y \in Seq(Events) /\ Grows(mid, y, g, k, V)
                     /\ Final(k[Len(y)], handle, open, IF TRUE THEN w ELSE None)
        BY <3>3
      <3>5. end = y
        BY <2>2
      <3> HIDE DEF y, end
      <3>6. Grows(wire, y, f, k, V)
        BY <1>0, <1>2, <3>4, GrowsOn
      <3>7. Final(k[Len(y)], handle, open, w)
        BY <3>4
      <3> QED BY <3>5, <3>6, <3>7
    <2> QED BY <2>1, <2>2
  <1>5. end = wire \o FocusEvents(active, w)
    <2>1. ASSUME NEW x \in Seq(Events), NEW a \in Events, NEW b \in Events
          PROVE Append(Append(x, a), b) = x \o <<a, b>>
      <3> HIDE DEF Events
      <3> QED OBVIOUS
    <2>2. ASSUME NEW v \in open, NEW b \in BOOLEAN
          PROVE Flags(HandleOf(v), b) \in Events /\ DoneEvent(HandleOf(v)) \in Events
      BY <1>0, HandleHas, EventHas
    <2> DEFINE Part(v, b) == IF v = None THEN <<>>
                             ELSE <<Flags(HandleOf(v), b), DoneEvent(HandleOf(v))>>
    <2>3. ASSUME NEW x \in Seq(Events), NEW v \in open \cup {None}, NEW b \in BOOLEAN
          PROVE /\ (IF v = None THEN x ELSE Pair(x, v, b)) = x \o Part(v, b)
                /\ Part(v, b) \in Seq(Events)
      <3>1. CASE v = None
        BY <2>3, <3>1
      <3>2. CASE v # None
        <4> DEFINE p == Flags(HandleOf(v), b)
                   q == DoneEvent(HandleOf(v))
        <4>1. p \in Events /\ q \in Events
          BY <2>2, <3>2
        <4> HIDE DEF p, q, Events
        <4>2. <<p, q>> \in Seq(Events) /\ Append(Append(x, p), q) = x \o <<p, q>>
          BY <2>1, <4>1
        <4> QED BY <3>2, <4>2 DEF p, q
      <3> QED BY <3>1, <3>2
    <2>4. mid = wire \o Part(active, FALSE) /\ Part(active, FALSE) \in Seq(Events)
      BY <1>0, <2>3 DEF mid
    <2>5. end = mid \o Part(w, TRUE) /\ Part(w, TRUE) \in Seq(Events)
      BY <1>2, <2>3
    <2>6. FocusEvents(active, w) = Part(active, FALSE) \o Part(w, TRUE)
      BY DEF FocusEvents
    <2> HIDE DEF Part, end, Events
    <2>7. ASSUME NEW r \in Seq(Events), NEW s \in Seq(Events), NEW u \in Seq(Events)
          PROVE (r \o s) \o u = r \o (s \o u)
      OBVIOUS
    <2>8. (wire \o Part(active, FALSE)) \o Part(w, TRUE)
             = wire \o (Part(active, FALSE) \o Part(w, TRUE))
      BY <1>0, <2>4, <2>5, <2>7
    <2> QED BY <2>4, <2>5, <2>6, <2>8
  <1> HIDE DEF end
  <1> QED BY <1>4, <1>5

LEMMA OpenGrows ==
  ASSUME IInv, connected, NEW f, Run(wire, f), Final(f[Len(wire)], handle, open, active),
         NEW w \in Windows, OpenWindow(w)
  PROVE \E g : /\ Grows(wire, wire', f, g, {View(stack', active')})
               /\ Final(g[Len(wire')], handle', open', active')
  <1>0. TypeOK /\ Numbering /\ wire \in Seq(Events) /\ Desk(handle, open, active)
        /\ handle \in [Handles -> Numbers]
    BY DeskHas DEF IInv, TypeOK
  <1>1. PICK h \in Handles : /\ handle[h] = None /\ handle' = [handle EXCEPT ![h] = w]
                             /\ Send(<<Toplevel(h, w), Title(h), DoneEvent(h)>>)
    BY DEF OpenWindow
  <1>2. open' = open \cup {w} /\ active' = active /\ w \in unborn
    BY <1>0, OpenGains DEF OpenWindow
  <1>3. w \notin open /\ \A g \in Handles : handle[g] # w
    BY <1>0, <1>2 DEF Numbering
  <1>4. PICK n, l, k : OpensBy(f[Len(wire)], h, w, handle', open', active, n, l, k)
    <2>1. Opens(f[Len(wire)], h, w, handle', open', active)
      BY <1>0, <1>1, <1>2, <1>3, OpenTurns
    <2> QED BY <2>1 DEF Opens
  <1> DEFINE V == {View(stack', active')}
  <1>5. View(stack', active') = Seen(open', active)
    BY <1>2 DEF View, Seen, open
  <1>6. /\ \A v \in open' : \E g \in Handles : handle'[g] = v
        /\ active \in open' \cup {None} /\ None \notin open'
    <2>1. handle'[h] = w /\ \A g \in Handles : g # h => handle'[g] = handle[g]
      BY <1>0, <1>1
    <2>2. ASSUME NEW v \in open'  PROVE \E g \in Handles : handle'[g] = v
      <3>1. CASE v = w  BY <2>1, <3>1
      <3>2. CASE v \in open
        BY <1>0, <1>1, <2>1, <3>2 DEF Desk
      <3> QED BY <1>2, <2>2, <3>1, <3>2
    <2> QED BY <1>0, <1>2, <2>2, WlrAssumption DEF Desk
  <1>7. ASSUME NEW m, Final(m, handle', open', active)  PROVE \E v \in V : Shows(m, v)
    BY <1>5, <1>6, <1>7, FinalShows DEF Seen
  <1>8. (\E v \in V : Shows(n, v)) /\ (\E v \in V : Shows(l, v)) /\ \E v \in V : Shows(k, v)
    BY <1>4, <1>7 DEF OpensBy
  <1>9. Toplevel(h, w) \in Events /\ Title(h) \in Events /\ DoneEvent(h) \in Events
    BY DEF Toplevel, Title, DoneEvent, Events, Numbers
  <1> DEFINE e1 == Toplevel(h, w)
             e2 == Title(h)
             e3 == DoneEvent(h)
             y1 == Append(wire, e1)
             y2 == Append(y1, e2)
             y3 == Append(y2, e3)
  <1>10. /\ e1 \in Events /\ e2 \in Events /\ e3 \in Events
         /\ Turns(e1, f[Len(wire)], n) /\ Turns(e2, n, l) /\ Turns(e3, l, k)
    BY <1>4, <1>9 DEF OpensBy
  <1>11. wire' = wire \o <<e1, e2, e3>>
    BY <1>1 DEF Send
  <1> HIDE DEF e1, e2, e3, Events, V
  <1>12. y1 \in Seq(Events) /\ y2 \in Seq(Events) /\ y3 \in Seq(Events)
    BY <1>0, <1>10
  <1>13. y3 = wire'
    BY <1>0, <1>10, <1>11
  <1>14. PICK g1 : Grows(wire, y1, f, g1, V) /\ Len(y1) = Len(wire) + 1 /\ g1[Len(wire) + 1] = n
    BY <1>0, <1>8, <1>10, GrowsByOne
  <1> HIDE DEF y1
  <1>15. Run(y1, g1) /\ Turns(e2, g1[Len(y1)], l)
    BY <1>10, <1>14 DEF Grows
  <1>16. PICK g2 : Grows(y1, y2, g1, g2, V) /\ Len(y2) = Len(y1) + 1 /\ g2[Len(y1) + 1] = l
    BY <1>8, <1>10, <1>12, <1>15, GrowsByOne
  <1> HIDE DEF y2
  <1>17. Run(y2, g2) /\ Turns(e3, g2[Len(y2)], k)
    BY <1>10, <1>16 DEF Grows
  <1>18. PICK g3 : Grows(y2, y3, g2, g3, V) /\ Len(y3) = Len(y2) + 1 /\ g3[Len(y2) + 1] = k
    BY <1>8, <1>10, <1>12, <1>17, GrowsByOne
  <1> HIDE DEF y3
  <1>19. Grows(wire, y2, f, g2, V)
    BY <1>0, <1>12, <1>14, <1>16, GrowsOn
  <1>20. Grows(wire, y3, f, g3, V)
    BY <1>0, <1>12, <1>18, <1>19, GrowsOn
  <1>21. Final(g3[Len(y3)], handle', open', active')
    BY <1>2, <1>4, <1>18 DEF OpensBy
  <1> QED BY <1>13, <1>20, <1>21 DEF V

LEMMA CloseGrows ==
  ASSUME IInv, connected, NEW f, Run(wire, f), Final(f[Len(wire)], handle, open, active),
         NEW w \in Windows, CloseWindow(w)
  PROVE \E g : /\ Grows(wire, wire', f, g, {View(stack', active')})
               /\ Final(g[Len(wire')], handle', open', active')
  <1>0. TypeOK /\ Numbering /\ wire \in Seq(Events) /\ Desk(handle, open, active)
    BY DeskHas DEF IInv, TypeOK
  <1>1. /\ open' = open \ {w} /\ w \in open /\ active' = IF active = w THEN None ELSE active
        /\ handle' = handle /\ Send(<<Closed(HandleOf(w))>>)
    BY CloseOpen DEF CloseWindow
  <1>2. HandleOf(w) \in Handles /\ handle[HandleOf(w)] = w
    BY <1>0, <1>1, HandleHas
  <1> DEFINE h == HandleOf(w)
             e == Closed(h)
             V == {View(stack', active')}
  <1>3. PICK n : /\ Turns(e, f[Len(wire)], n)
                 /\ Final(n, handle, open \ {w}, IF active = w THEN None ELSE active)
    BY <1>0, <1>1, <1>2, CloseTurns
  <1>4. Final(n, handle', open', active')
    BY <1>1, <1>3
  <1>5. \E v \in V : Shows(n, v)
    <2>1. /\ \A v \in open' : \E g \in Handles : handle'[g] = v
          /\ active' \in open' \cup {None} /\ None \notin open'
      BY <1>0, <1>1 DEF Desk
    <2>2. Shows(n, [open |-> open', active |-> active'])
      BY <1>4, <2>1, FinalShows
    <2> QED BY <2>2 DEF View, open
  <1>6. e \in Events
    BY <1>2 DEF Closed, Events, Numbers
  <1>7. wire' = wire \o <<e>>
    BY <1>1 DEF Send
  <1> HIDE DEF h, e, V, Events
  <1>8. wire' = Append(wire, e)
    BY <1>0, <1>6, <1>7
  <1>9. PICK g : /\ Grows(wire, Append(wire, e), f, g, V)
                 /\ Len(Append(wire, e)) = Len(wire) + 1 /\ g[Len(wire) + 1] = n
    BY <1>0, <1>3, <1>5, <1>6, GrowsByOne
  <1> QED BY <1>4, <1>8, <1>9 DEF V

LEMMA CallbackGrows ==
  ASSUME IInv, connected, NEW f, Run(wire, f), Final(f[Len(wire)], handle, open, active),
         Send(<<Callback>>)
  PROVE \E g : /\ Grows(wire, wire', f, g, {View(stack, active)})
               /\ Final(g[Len(wire')], handle, open, active)
  <1>0. TypeOK /\ Numbering /\ wire \in Seq(Events) /\ Desk(handle, open, active)
    BY DeskHas DEF IInv, TypeOK
  <1> DEFINE e == Callback
             n == f[Len(wire)]
             V == {View(stack, active)}
  <1>1. e \in Events /\ e.ev = "callback"
    BY WlrAssumption DEF Callback, Events, Numbers, Handles
  <1>2. Turns(e, n, n)
    BY <1>1 DEF Turns, Same
  <1>3. \E v \in V : Shows(n, v)
    <2>1. Shows(n, [open |-> open, active |-> active])
      BY <1>0, FinalShows DEF Desk
    <2> QED BY <2>1 DEF View, open
  <1>4. wire' = wire \o <<e>>
    BY DEF Send
  <1> HIDE DEF e, V, Events
  <1>5. wire' = Append(wire, e)
    BY <1>0, <1>1, <1>4
  <1>6. PICK g : /\ Grows(wire, Append(wire, e), f, g, V)
                 /\ Len(Append(wire, e)) = Len(wire) + 1 /\ g[Len(wire) + 1] = n
    BY <1>0, <1>1, <1>2, <1>3, GrowsByOne
  <1> QED BY <1>5, <1>6 DEF V

\* What a step sends: the new mirrors show desktops each call under way has seen.
Sends(f, g, V) ==
    /\ Grows(wire, wire', f, g, V) /\ Final(g[Len(wire')], handle', open', active')
    /\ \A t \in Asked : V \subseteq during'[t]

LEMMA SendsNot ==
  ASSUME IInv, NEW f, Run(wire, f), Final(f[Len(wire)], handle', open', active'), wire' = wire
  PROVE \E g, V : Sends(f, g, V)
  <1>1. wire \in Seq(Events)
    BY DEF IInv, TypeOK
  <1> DEFINE V == {}
  <1>2. Grows(wire, wire, f, f, V)
    BY <1>1, GrowsNot
  <1>3. Sends(f, f, V)
    BY <1>2 DEF Sends
  <1> QED BY <1>3

LEMMA FocusSends ==
  ASSUME VInv, connected, NEW f, Run(wire, f), Final(f[Len(wire)], handle, open, active),
         NEW w \in open \cup {None}, w # active, active' = w, UNCHANGED <<stack, handle>>,
         Send(FocusEvents(active, w)), Witness({View(stack, None), View(stack, w)})
  PROVE \E g, V : Sends(f, g, V)
  <1>0. IInv /\ Watching
    BY DEF VInv
  <1> DEFINE V == {Seen(open, active), Seen(open, None), Seen(open, w)}
  <1>1. PICK g : LET y == wire \o FocusEvents(active, w)
                 IN Grows(wire, y, f, g, V) /\ Final(g[Len(y)], handle, open, w)
    BY <1>0, FocusGrows
  <1>2. wire' = wire \o FocusEvents(active, w)
    BY DEF Send
  <1>3. Grows(wire, wire', f, g, V) /\ Final(g[Len(wire')], handle', open', active')
    BY <1>1, <1>2 DEF open
  <1>4. ASSUME NEW t \in Asked  PROVE V \subseteq during'[t]
    <2>1. View(stack, active) \in during[t] /\ t \in Tasks
      BY <1>0 DEF Watching, Asked
    <2>2. during'[t] = during[t] \cup {View(stack, None), View(stack, w)}
      BY <2>1 DEF Witness
    <2>3. \A a : View(stack, a) = Seen(open, a)
      BY DEF View, Seen, open
    <2> QED BY <2>1, <2>2, <2>3
  <1> HIDE DEF V
  <1>5. Sends(f, g, V)
    BY <1>3, <1>4 DEF Sends
  <1> QED BY <1>5

LEMMA ServeSends ==
  ASSUME VInv, connected, Serve, NEW f, Run(wire, f), Final(f[Len(wire)], handle, open, active)
  PROVE \E g, V : Sends(f, g, V)
  <1>0. IInv /\ Watching /\ TypeOK /\ Announcing
    BY DEF VInv, IInv
  <1> DEFINE r == Head(requests)
             w == handle[r.h]
  <1>1. stack' = stack /\ open' = open
    BY DEF Serve, open
  <1>2. CASE r.op = "sync"
    <2>1. Send(<<Callback>>) /\ UNCHANGED <<active, handle, during>>
      BY <1>2 DEF Serve, Targeted
    <2>2. PICK g : /\ Grows(wire, wire', f, g, {View(stack, active)})
                   /\ Final(g[Len(wire')], handle, open, active)
      BY <1>0, <2>1, CallbackGrows
    <2>3. \A t \in Asked : {View(stack, active)} \subseteq during'[t]
      BY <1>0, <2>1 DEF Watching
    <2>4. Sends(f, g, {View(stack, active)})
      BY <1>1, <2>1, <2>2, <2>3 DEF Sends
    <2> QED BY <2>4
  <1>3. CASE r.op = "destroy"
    <2>1. handle' = [handle EXCEPT ![r.h] = None] /\ UNCHANGED <<active, wire>>
      BY <1>3 DEF Serve, Targeted
    <2>2. r = requests[1] /\ 1 \in 1..Len(requests) /\ r \in Requests
      <3> HIDE DEF Requests
      <3> QED BY <1>0, TailAt DEF Serve, TypeOK
    <2>3. r.h \in Handles /\ w \notin open /\ None \notin open
      BY <1>0, <1>3, <2>2, OpenIs DEF Announcing, Destroyed, Over, Requests
    <2>4. \A h \in Handles : handle'[h] = IF h = r.h THEN None ELSE handle[h]
      BY <1>0, <2>1 DEF TypeOK
    <2>5. {h \in Handles : handle'[h] \in open} = {h \in Handles : handle[h] \in open}
      BY <2>3, <2>4
    <2>6. \A h \in Handles : handle[h] \in open => handle'[h] = handle[h]
      BY <2>3, <2>4
    <2>7. Final(f[Len(wire)], handle', open, active)
      BY <2>5, <2>6 DEF Final
    <2> QED BY <1>0, <1>1, <2>1, <2>7, SendsNot
  <1>4. CASE r.op \in Targeted /\ UNCHANGED <<active, wire, handle>>
    BY <1>0, <1>1, <1>4, SendsNot
  <1>5. CASE r.op \in Targeted /\ ~UNCHANGED <<active, wire, handle>>
    <2>1. PICK v : v = w
      OBVIOUS
    <2>2. /\ v \in open /\ v # active /\ active' = v /\ Send(FocusEvents(active, v))
          /\ Witness({View(stack, None), View(stack, v)}) /\ UNCHANGED <<stack, handle>>
      BY <1>5, <2>1 DEF Serve, Targeted
    <2> QED BY <2>2, FocusSends
  <1>6. r.op = "sync" \/ r.op = "destroy" \/ r.op \in Targeted
    BY DEF Serve
  <1> QED BY <1>2, <1>3, <1>4, <1>5, <1>6

LEMMA StepSends ==
  ASSUME VInv, [Next]_vars, connected, ~Dispatch, ~Lose, ~Renew,
         \A w \in Windows : ~Retitle(w),
         NEW f, Run(wire, f), Final(f[Len(wire)], handle, open, active)
  PROVE \E g, V : Sends(f, g, V)
  <1>0. IInv
    BY DEF VInv
  <1>1. CASE UNCHANGED <<wire, handle, stack, active>>
    BY <1>0, <1>1, SendsNot DEF open
  <1>2. CASE Serve
    BY <1>2, ServeSends
  <1>3. ASSUME NEW w \in Windows, OpenWindow(w) \/ CloseWindow(w)
        PROVE \E g, V : Sends(f, g, V)
    <2>1. PICK g : /\ Grows(wire, wire', f, g, {View(stack', active')})
                   /\ Final(g[Len(wire')], handle', open', active')
      BY <1>0, <1>3, OpenGrows, CloseGrows
    <2>2. Witness({View(stack', active')})
      BY <1>3 DEF OpenWindow, CloseWindow
    <2>3. ASSUME NEW t \in Asked  PROVE {View(stack', active')} \subseteq during'[t]
      <3>1. t \in Tasks
        BY DEF Asked
      <3>2. during'[t] = during[t] \cup {View(stack', active')}
        BY <2>2, <3>1 DEF Witness
      <3> QED BY <3>2
    <2>4. Sends(f, g, {View(stack', active')})
      BY <2>1, <2>3 DEF Sends
    <2> QED BY <2>4
  <1>4. ASSUME NEW w \in Windows \cup {None}, Focus(w)
        PROVE \E g, V : Sends(f, g, V)
    <2>1. /\ w \in open \cup {None} /\ w # active /\ active' = w /\ UNCHANGED <<stack, handle>>
          /\ Send(FocusEvents(active, w)) /\ Witness({View(stack, None), View(stack, w)})
      BY <1>4 DEF Focus
    <2> QED BY <2>1, FocusSends
  <1>5. ASSUME NEW t \in Tasks, Ask(t) \/ Cancel(t) \/ AnswerRead(t) \/ Act(t)
        PROVE UNCHANGED <<wire, handle, stack, active>>
    BY <1>5 DEF Ask, Cancel, AnswerRead, Act, link, desktop
  <1>6. CASE DropBackend \/ Recv \/ UNCHANGED vars
    BY <1>1, <1>6 DEF DropBackend, Recv, link, desktop, vars
  <1> QED BY <1>1, <1>2, <1>3, <1>4, <1>5, <1>6 DEF Next

\* Only events change the mirror.
LEMMA MirrorStep ==
  ASSUME [Next]_vars, ~Dispatch, ~Renew  PROVE UNCHANGED mirror
  <1>1. ASSUME NEW t \in Tasks, Ask(t) \/ Cancel(t) \/ AnswerRead(t) \/ Act(t)
        PROVE UNCHANGED mirror
    BY <1>1 DEF Ask, Cancel, AnswerRead, Act
  <1>2. CASE DropBackend \/ Recv \/ Serve \/ Lose \/ UNCHANGED vars
    BY <1>2 DEF DropBackend, Recv, Serve, Lose, vars
  <1>3. ASSUME NEW w \in Windows, OpenWindow(w) \/ CloseWindow(w) \/ Retitle(w)
        PROVE UNCHANGED mirror
    BY <1>3 DEF OpenWindow, CloseWindow, Retitle, Change
  <1>4. ASSUME NEW w \in Windows \cup {None}, Focus(w)  PROVE UNCHANGED mirror
    BY <1>4 DEF Focus, Change
  <1> QED BY <1>1, <1>2, <1>3, <1>4 DEF Next

LEMMA WaitingStep ==
  ASSUME IInv, Waiting, [Next]_vars  PROVE Waiting'
  <1>0. /\ pc \in [Tasks -> {"idle", "asked", "cancelled", "ok", "not_found"}]
        /\ queue \in Seq(Tasks \cup {"shutdown"}) /\ Len(queue) \in Nat
        /\ worker \in Tasks \cup {None, "exited"}
    BY DEF IInv, TypeOK
  <1> USE WlrAssumption
  <1>1. ASSUME NEW t \in Tasks, Ask(t)  PROVE Waiting'
    <2>1. pc[t] = "idle" /\ pc' = [pc EXCEPT ![t] = "asked"] /\ queue' = Append(queue, t)
          /\ worker' = worker
      BY <1>1 DEF Ask
    <2>2. /\ Len(queue') = Len(queue) + 1
          /\ \A i \in 1..Len(queue') : \/ i \in 1..Len(queue) /\ queue'[i] = queue[i]
                                       \/ i = Len(queue) + 1 /\ queue'[i] = t
      BY <1>0, <2>1, AppendAt
    <2>3. t # worker /\ \A i \in 1..Len(queue) : queue[i] # t
      BY <1>0, <2>1 DEF Waiting
    <2>4. \A u \in Tasks : pc[u] \in {"asked", "cancelled"} \/ u = t
                              => pc'[u] \in {"asked", "cancelled"}
      BY <1>0, <2>1
    <2>5. ASSUME NEW i \in 1..Len(queue'), queue'[i] \in Tasks
          PROVE /\ pc'[queue'[i]] \in {"asked", "cancelled"} /\ queue'[i] # worker
                /\ \A j \in 1..Len(queue') : queue'[j] = queue'[i] => j = i
      <3>1. CASE i \in 1..Len(queue) /\ queue'[i] = queue[i]
        BY <2>2, <2>3, <2>4, <2>5, <3>1 DEF Waiting
      <3>2. CASE i = Len(queue) + 1 /\ queue'[i] = t
        BY <2>2, <2>3, <2>4, <3>2
      <3> QED BY <2>2, <3>1, <3>2
    <2>6. worker \in Tasks => pc'[worker] \in {"asked", "cancelled"}
      BY <2>4 DEF Waiting
    <2> QED BY <2>1, <2>5, <2>6 DEF Waiting
  <1>2. ASSUME NEW t \in Tasks, Cancel(t)  PROVE Waiting'
    <2>1. UNCHANGED <<queue, worker>> /\ pc' = [pc EXCEPT ![t] = "cancelled"]
      BY <1>2 DEF Cancel, thread
    <2>2. \A u \in Tasks : pc[u] \in {"asked", "cancelled"} => pc'[u] \in {"asked", "cancelled"}
      BY <1>0, <2>1
    <2> QED BY <2>1, <2>2 DEF Waiting
  <1>3. ASSUME NEW t \in Tasks, AnswerRead(t) \/ Act(t)  PROVE Waiting'
    <2>1. worker = t /\ worker' = None /\ queue' = queue
      BY <1>3 DEF AnswerRead, Act, Reply
    <2>2. \A u \in Tasks : u # t => pc'[u] = pc[u]
      BY <1>0, <1>3 DEF AnswerRead, Act, Reply
    <2> QED BY <2>1, <2>2 DEF Waiting
  <1>4. CASE DropBackend
    <2>1. queue' = Append(queue, "shutdown") /\ UNCHANGED <<pc, worker>>
      BY <1>4 DEF DropBackend, calls
    <2>2. /\ Len(queue') = Len(queue) + 1
          /\ \A i \in 1..Len(queue') : \/ i \in 1..Len(queue) /\ queue'[i] = queue[i]
                                       \/ i = Len(queue) + 1 /\ queue'[i] = "shutdown"
      BY <1>0, <2>1, AppendAt
    <2>3. "shutdown" \notin Tasks
      OBVIOUS
    <2>4. ASSUME NEW i \in 1..Len(queue'), queue'[i] \in Tasks
          PROVE /\ pc[queue'[i]] \in {"asked", "cancelled"} /\ queue'[i] # worker
                /\ \A j \in 1..Len(queue') : queue'[j] = queue'[i] => j = i
      <3>1. i \in 1..Len(queue) /\ queue'[i] = queue[i]
        BY <2>2, <2>3, <2>4
      <3> QED BY <2>2, <2>3, <2>4, <3>1 DEF Waiting
    <2> QED BY <2>1, <2>4 DEF Waiting
  <1>5. CASE Recv
    <2>1. /\ queue # <<>> /\ queue' = Tail(queue) /\ pc' = pc
          /\ worker' = IF Head(queue) = "shutdown" THEN "exited" ELSE Head(queue)
      BY <1>5 DEF Recv, calls
    <2>2. /\ Head(queue) = queue[1] /\ 1 \in 1..Len(queue)
          /\ \A i \in 1..Len(queue') : queue'[i] = queue[i + 1] /\ i + 1 \in 1..Len(queue)
                                       /\ i + 1 # 1 /\ i \in Nat
      <3>1. \A i \in 1..Len(Tail(queue)) : i + 1 # 1 /\ i \in Nat
        OBVIOUS
      <3> QED BY <1>0, <2>1, <3>1, TailAt
    <2>3. worker' \in Tasks => worker' = queue[1] /\ pc[queue[1]] \in {"asked", "cancelled"}
      BY <2>1, <2>2 DEF Waiting
    <2>4. ASSUME NEW i \in 1..Len(queue'), queue'[i] \in Tasks
          PROVE /\ pc[queue'[i]] \in {"asked", "cancelled"} /\ queue'[i] # worker'
                /\ \A j \in 1..Len(queue') : queue'[j] = queue'[i] => j = i
      <3>1. queue[i + 1] \in Tasks /\ i + 1 \in 1..Len(queue)
        BY <2>2, <2>4
      <3>2. pc[queue[i + 1]] \in {"asked", "cancelled"} /\ queue[1] # queue[i + 1]
        BY <2>2, <3>1 DEF Waiting
      <3>3. queue'[i] # worker'
        BY <2>2, <2>3, <2>4, <3>2
      <3>4. ASSUME NEW j \in 1..Len(queue'), queue'[j] = queue'[i]  PROVE j = i
        <4>1. j + 1 = i + 1
          BY <2>2, <3>1, <3>4 DEF Waiting
        <4> QED BY <2>2, <4>1
      <3> QED BY <2>2, <3>2, <3>3, <3>4
    <2> QED BY <2>1, <2>3, <2>4 DEF Waiting
  <1>6. CASE Renew
    BY <1>6 DEF Renew, Waiting
  <1>7. CASE UNCHANGED <<queue, worker, pc>>
    BY <1>7 DEF Waiting
  <1>8. CASE Dispatch \/ Serve \/ Lose \/ UNCHANGED vars
    BY <1>7, <1>8 DEF Dispatch, Serve, Lose, thread, calls, vars
  <1>9. ASSUME NEW w \in Windows, OpenWindow(w) \/ CloseWindow(w) \/ Retitle(w)
        PROVE UNCHANGED <<queue, worker, pc>>
    BY <1>9 DEF OpenWindow, CloseWindow, Retitle, Change, thread, calls
  <1>10. ASSUME NEW w \in Windows \cup {None}, Focus(w)  PROVE UNCHANGED <<queue, worker, pc>>
    BY <1>10 DEF Focus, Change, thread, calls
  <1> QED BY <1>1, <1>2, <1>3, <1>4, <1>5, <1>6, <1>7, <1>8, <1>9, <1>10 DEF Next

\* A step other than a dispatch: the mirror is as it was, with more ahead of it.
LEMMA AheadSends ==
  ASSUME VInv, Waiting, [Next]_vars, connected, ~Dispatch, ~Renew, NEW f, Ahead(f),
         NEW g, NEW V, Sends(f, g, V)
  PROVE Ahead(g)'
  <1>0. IInv /\ TypeOK /\ wire \in Seq(Events) /\ wire' \in Seq(Events) /\ Roundtrip
    BY IInvStep DEF VInv, IInv, TypeOK
  <1>1. UNCHANGED mirror
    BY MirrorStep
  <1>2. Grows(wire, wire', f, g, V)
    BY DEF Sends
  <1>3. g[0] = f[0]
    <2>1. 0 \in 0..Len(wire)
      BY <1>0
    <2> QED BY <1>2, <2>1 DEF Grows
  <1>4. Is(g[0])'
    BY <1>1, <1>3 DEF Ahead, Is, mirror
  <1>5. Run(wire', g)
    BY <1>2 DEF Grows
  <1>6. Final(g[Len(wire')], handle', open', active')
    BY DEF Sends
  <1>7. ASSUME NEW t \in Tasks, Serving(t)'  PROVE Told(wire', synced', g, during'[t])
    <2>1. worker' = t /\ pc'[t] = "asked"
      BY <1>7 DEF Serving
    <2>2. CASE Recv
      <3>1. worker = None /\ ~synced' /\ wire' = wire /\ connected' = connected
        BY <2>2 DEF Recv
      <3>2. ~\E i \in 1..Len(wire) : wire[i].ev = "callback"
        BY <1>0, <3>1, WlrAssumption DEF Roundtrip
      <3>3. \A i \in 0..Len(wire) : ~Heard(wire', synced', i)
        BY <1>0, <3>1, <3>2 DEF Heard
      <3> QED BY <3>1, <3>3 DEF Told
    <2>3. CASE ~Recv
      <3>1. worker = t /\ synced' = synced
        BY <2>1, <2>3, WorkerStep
      <3>2. pc[t] # "idle"
        BY <3>1 DEF Waiting
      <3>3. pc[t] = "asked"
        BY <1>0, <2>1, <3>2, AskedStays
      <3>4. Told(wire, synced, f, during[t])
        BY <3>1, <3>3 DEF Ahead, Serving
      <3>5. during[t] \subseteq during'[t] /\ V \subseteq during'[t]
        BY <1>0, <3>2, <3>3, Seeing DEF Sends, Asked
      <3> QED BY <1>0, <1>2, <3>1, <3>4, <3>5, ToldGrows
    <2> QED BY <2>2, <2>3
  <1> QED BY <1>4, <1>5, <1>6, <1>7 DEF Ahead

\* A dispatch: the first of the mirrors ahead is now the worker's.
LEMMA AheadDispatch ==
  ASSUME VInv, Dispatch, NEW f, Ahead(f)  PROVE \E g : Ahead(g)'
  <1>0. TypeOK /\ Len(wire) \in Nat /\ wire # <<>> /\ wire' = Tail(wire)
    BY DEF VInv, IInv, TypeOK, Dispatch
  <1>1. /\ Len(wire') + 1 = Len(wire) /\ Len(wire') \in Nat
        /\ 1 \in 1..Len(wire) /\ Head(wire) = wire[1]
        /\ \A i \in 1..Len(wire') : i + 1 \in 1..Len(wire) /\ wire'[i] = wire[i + 1]
    BY <1>0, TailWire
  <1>2. PICK g : \A i \in 0..Len(wire') : g[i] = f[i + 1] /\ i + 1 \in 0..Len(wire)
    <2> DEFINE d == [i \in 0..Len(wire') |-> f[i + 1]]
    <2>1. \A i \in 0..Len(wire') : d[i] = f[i + 1] /\ i + 1 \in 0..Len(wire)
      BY <1>0, <1>1
    <2> HIDE DEF d
    <2> QED BY <2>1
  <1>3. Turns(wire[1], f[0], f[1])
    BY <1>1 DEF Ahead, Run
  <1>4. g[0] = f[1]
    BY <1>1, <1>2
  <1>5. Is(f[1])'
    <2>1. Is(f[0])
      BY DEF Ahead
    <2>2. \A h \in Handles : stands[h] \in Numbers
      BY <1>0 DEF TypeOK
    <2>3. wire[1].h \in Handles
      BY <1>0, <1>1, Typed
    <2>4. CASE wire[1].ev = "toplevel" /\ OnToplevel(wire[1])
      <3>1. \A h \in Handles : stands'[h] = IF h = wire[1].h THEN wire[1].win ELSE stands[h]
        BY <1>0, <2>3, <2>4 DEF OnToplevel, TypeOK
      <3> QED BY <1>3, <2>1, <2>4, <3>1 DEF Turns, Announces, Is, OnToplevel
    <2>5. CASE wire[1].ev = "title" /\ OnTitle(wire[1])
      BY <1>3, <2>1, <2>5 DEF Turns, Notes, Same, Is, OnTitle
    <2>6. CASE wire[1].ev = "state" /\ OnState(wire[1])
      BY <1>3, <2>1, <2>6 DEF Turns, Notes, Same, Is, OnState
    <2>7. CASE wire[1].ev = "done" /\ OnDone(wire[1])
      BY <1>3, <2>1, <2>7 DEF Turns, Applies, Same, Is, OnDone
    <2>8. CASE wire[1].ev = "closed" /\ OnClosed(wire[1])
      BY <1>3, <2>1, <2>8 DEF Turns, Ends, Is, OnClosed
    <2>9. CASE wire[1].ev = "callback" /\ UNCHANGED mirror
      BY <1>3, <2>1, <2>9 DEF Turns, Same, Is, mirror
    <2> QED BY <1>1, <2>4, <2>5, <2>6, <2>7, <2>8, <2>9 DEF Dispatch
  <1>6. Is(g[0])'
    BY <1>4, <1>5
  <1>7. Run(wire', g)
    <2> SUFFICES ASSUME NEW i \in 1..Len(wire')  PROVE Turns(wire'[i], g[i - 1], g[i])
      BY DEF Run
    <2>1. i \in 0..Len(wire') /\ i - 1 \in 0..Len(wire') /\ (i - 1) + 1 = i /\ (i + 1) - 1 = i
      BY <1>1
    <2>2. g[i] = f[i + 1] /\ g[i - 1] = f[i]
      BY <1>2, <2>1
    <2>3. Turns(wire[i + 1], f[(i + 1) - 1], f[i + 1])
      BY <1>1 DEF Ahead, Run
    <2> QED BY <1>1, <2>1, <2>2, <2>3
  <1>8. Final(g[Len(wire')], handle', open', active')
    <2>1. g[Len(wire')] = f[Len(wire)]
      <3>1. Len(wire') \in 0..Len(wire')
        BY <1>1
      <3> QED BY <1>1, <1>2, <3>1
    <2>2. UNCHANGED <<handle, open, active>>
      BY DEF Dispatch, desktop, open
    <2> QED BY <2>1, <2>2 DEF Ahead
  <1>9. ASSUME NEW t \in Tasks, Serving(t)'  PROVE Told(wire', synced', g, during'[t])
    <2>1. Serving(t) /\ during' = during
      BY <1>9 DEF Serving, Dispatch, calls
    <2>2. Told(wire, synced, f, during[t])
      BY <2>1 DEF Ahead
    <2> SUFFICES ASSUME NEW i \in 0..Len(wire'), Heard(wire', synced', i)
                 PROVE \E v \in during[t] : Shows(g[i], v)
      BY <2>1 DEF Told
    <2>3. i + 1 \in 0..Len(wire) /\ g[i] = f[i + 1]
      BY <1>2
    <2>4. Heard(wire, synced, i + 1)
      <3>1. CASE synced'
        <4>1. synced \/ wire[1].ev = "callback"
          BY <1>1, <3>1 DEF Dispatch
        <4>2. 1 \in 1..(i + 1)
          OBVIOUS
        <4> QED BY <4>1, <4>2 DEF Heard
      <3>2. CASE ~synced'
        <4>1. PICK k \in 1..i : wire'[k].ev = "callback"
          BY <3>2 DEF Heard
        <4>2. k + 1 \in 1..(i + 1) /\ k \in 1..Len(wire')
          BY <1>1
        <4>3. wire[k + 1].ev = "callback"
          BY <1>1, <4>1, <4>2
        <4> QED BY <4>2, <4>3 DEF Heard
      <3> QED BY <3>1, <3>2
    <2> QED BY <2>2, <2>3, <2>4 DEF Told
  <1>10. Ahead(g)'
    BY <1>6, <1>7, <1>8, <1>9 DEF Ahead
  <1> QED BY <1>10

\* A connection that is new has a mirror that is right, and nothing ahead of it.
LEMMA AheadNew ==
  ASSUME NEW s \in Seq(Windows), NEW a \in ToSet(s) \cup {None}, Len(s) <= MaxHandles,
         NEW m, m = Mirror(1..Len(s), Numbered(s), FocusAt(s, a), {}, {})
  PROVE Final(m, Numbered(s), ToSet(s), a)
  <1>1. m.known = 1..Len(s) /\ m.stands = Numbered(s) /\ m.on = FocusAt(s, a)
    BY MirrorHas
  <1>2. Len(s) \in Nat /\ DOMAIN s = 1..Len(s) /\ \A h \in 1..Len(s) : h \in Handles
    BY WlrAssumption DEF Handles
  <1>3. \A h \in Handles : Numbered(s)[h] = IF h <= Len(s) THEN s[h] ELSE None
    BY DEF Numbered
  <1>4. \A h \in Handles : h \in 1..Len(s) <=> h <= Len(s)
    BY <1>2 DEF Handles
  <1>5. None \notin ToSet(s) /\ \A h \in 1..Len(s) : s[h] \in ToSet(s)
    BY <1>2, WlrAssumption DEF ToSet
  <1>6. m.known = {h \in Handles : Numbered(s)[h] \in ToSet(s)}
    BY <1>1, <1>2, <1>3, <1>4, <1>5
  <1>7. \A h \in m.known : m.stands[h] = Numbered(s)[h]
    BY <1>1
  <1>8. m.on = {h \in m.known : Numbered(s)[h] = a}
    <2>1. \A h \in 1..Len(s) : Numbered(s)[h] = s[h]
      BY <1>2, <1>3, <1>4
    <2> HIDE DEF Numbered
    <2> QED BY <1>1, <2>1 DEF FocusAt
  <1> HIDE DEF Numbered
  <1> QED BY <1>6, <1>7, <1>8 DEF Final

LEMMA AheadRenew ==
  ASSUME VInv, Renew  PROVE \E f : Ahead(f)'
  <1>0. /\ TypeOK /\ Numbering /\ stack \in Seq(Windows) /\ active \in open \cup {None}
        /\ Len(stack) <= MaxHandles
    BY FewWindows DEF VInv, IInv, TypeOK, Numbering
  <1>1. PICK m : m = Mirror(1..Len(stack), Numbered(stack), FocusAt(stack, active), {}, {})
    OBVIOUS
  <1>2. Final(m, Numbered(stack), ToSet(stack), active)
    BY <1>0, <1>1, AheadNew DEF open
  <1>3. /\ m.known = 1..Len(stack) /\ m.stands = Numbered(stack) /\ m.on = FocusAt(stack, active)
        /\ m.pend = {} /\ m.pendOn = {}
    BY <1>1, MirrorHas
  <1>4. PICK f : f = [i \in {0} |-> m]
    OBVIOUS
  <1>5. f[0] = m
    BY <1>4
  <1>6. Len(wire') = 0 /\ wire' = <<>> /\ worker' = None /\ handle' = Numbered(stack)
        /\ UNCHANGED <<stack, active, open>>
    BY DEF Renew, open
  <1>7. Is(f[0])'
    <2>1. /\ known' = 1..Len(stack) /\ stands' = Numbered(stack)
          /\ activated' = FocusAt(stack, active) /\ pend' = {} /\ pendOn' = {}
      BY DEF Renew
    <2> QED BY <1>3, <1>5, <2>1 DEF Is
  <1>8. Run(wire', f)
    BY <1>6 DEF Run
  <1>9. Final(f[Len(wire')], handle', open', active')
    BY <1>2, <1>5, <1>6 DEF open
  <1>10. \A t \in Tasks : ~Serving(t)'
    BY <1>6, WlrAssumption DEF Serving
  <1> QED BY <1>7, <1>8, <1>9, <1>10 DEF Ahead

LEMMA CalmBefore ==
  ASSUME VInv, [Next]_vars, Calm'
  PROVE Calm /\ connected /\ ~Lose /\ \A w \in Windows : ~Retitle(w)
  <1>1. Calm
    BY MishapsGrow DEF Calm
  <1>2. connected
    BY <1>1 DEF VInv, Linked, Calm
  <1> QED BY <1>1, <1>2 DEF Lose, Retitle, Calm

LEMMA AheadStep ==
  ASSUME VInv, Waiting, [Next]_vars, Calm', \E f : Ahead(f)  PROVE \E f : Ahead(f)'
  <1>0. connected /\ ~Lose /\ \A w \in Windows : ~Retitle(w)
    BY CalmBefore
  <1>1. PICK f : Ahead(f)
    OBVIOUS
  <1>2. CASE Dispatch
    BY <1>1, <1>2, AheadDispatch
  <1>3. CASE Renew
    BY <1>3, AheadRenew
  <1>4. CASE ~Dispatch /\ ~Renew
    <2>1. Run(wire, f) /\ Final(f[Len(wire)], handle, open, active)
      BY <1>1 DEF Ahead
    <2>2. PICK g, V : Sends(f, g, V)
      BY <1>0, <1>4, <2>1, StepSends
    <2>3. Ahead(g)'
      BY <1>0, <1>1, <1>4, <2>2, AheadSends
    <2> QED BY <2>3
  <1> QED BY <1>2, <1>3, <1>4

\* What a reply names.
LEMMA ResultStep ==
  ASSUME IInv, [Next]_vars, NEW t \in Tasks, ~AnswerRead(t)  PROVE result'[t] = result[t]
  <1>0. result \in [Tasks -> SUBSET Numbers]
    BY DEF IInv, TypeOK
  <1>1. ASSUME NEW u \in Tasks, Ask(u) \/ Cancel(u) \/ Act(u)  PROVE result' = result
    BY <1>1 DEF Ask, Cancel, Act
  <1>2. ASSUME NEW u \in Tasks, AnswerRead(u)  PROVE result'[t] = result[t]
    <2>1. u # t
      BY <1>2
    <2> QED BY <1>0, <1>2, <2>1 DEF AnswerRead, Snapshot
  <1>3. CASE DropBackend \/ Recv \/ Dispatch \/ Serve \/ Lose \/ Renew \/ UNCHANGED vars
    BY <1>3 DEF DropBackend, Recv, Dispatch, Serve, Lose, Renew, calls, vars
  <1>4. ASSUME NEW w \in Windows, OpenWindow(w) \/ CloseWindow(w) \/ Retitle(w)
        PROVE result' = result
    BY <1>4 DEF OpenWindow, CloseWindow, Retitle, Change, calls
  <1>5. ASSUME NEW w \in Windows \cup {None}, Focus(w)  PROVE result' = result
    BY <1>5 DEF Focus, Change, calls
  <1> QED BY <1>1, <1>2, <1>3, <1>4, <1>5 DEF Next

\* Only answers give verdicts.
LEMMA VerdictStep ==
  ASSUME IInv, [Next]_vars, NEW t \in Tasks, pc'[t] = "ok", pc[t] # "ok"
  PROVE worker = t /\ pc[t] = "asked" /\ (AnswerRead(t) \/ Act(t))
  <1>0. pc \in [Tasks -> {"idle", "asked", "cancelled", "ok", "not_found"}]
    BY DEF IInv, TypeOK
  <1>1. \E u \in Tasks : Ask(u) \/ Cancel(u) \/ AnswerRead(u) \/ Act(u)
    BY DEF Next, DropBackend, Recv, Dispatch, Serve, OpenWindow, CloseWindow, Retitle,
           Focus, Change, Lose, Renew, vars, calls
  <1>2. PICK u \in Tasks : Ask(u) \/ Cancel(u) \/ AnswerRead(u) \/ Act(u)
    BY <1>1
  <1>3. ~Ask(u) /\ ~Cancel(u)
    BY <1>0 DEF Ask, Cancel
  <1>4. u = t /\ worker = t /\ pc[t] = "asked"
    BY <1>0, <1>2, <1>3 DEF AnswerRead, Act, Reply
  <1> QED BY <1>2, <1>3, <1>4

LEMMA LatestStep ==
  ASSUME VInv, Waiting, [Next]_vars, Calm', LatestState, \E f : Ahead(f)
  PROVE LatestState'
  <1>0. IInv /\ TypeOK /\ connected
    BY CalmBefore DEF VInv, IInv
  <1> SUFFICES ASSUME NEW t \in Tasks, pc'[t] = "ok"
               PROVE /\ kind'[t] = "list" => \E v \in during'[t] : result'[t] = v.open
                     /\ kind'[t] = "active" =>
                           \E v \in during'[t] : result'[t] = {v.active} \ {None}
    BY DEF LatestState
  <1>1. CASE pc[t] = "ok"
    <2>1. ~AnswerRead(t)
      BY <1>1 DEF AnswerRead, Waiting
    <2>2. result'[t] = result[t] /\ kind'[t] = kind[t] /\ during[t] \subseteq during'[t]
      BY <1>0, <1>1, <2>1, ResultStep, Lasting, Seeing
    <2> QED BY <1>1, <2>2 DEF LatestState
  <1>2. CASE pc[t] # "ok" /\ Act(t)
    BY <1>2 DEF Act, Targeted
  <1>3. CASE pc[t] # "ok" /\ AnswerRead(t)
    <2>1. worker = t /\ pc[t] = "asked" /\ synced
          /\ UNCHANGED <<kind, during>> /\ Snapshot(t)
      BY <1>0, <1>3, VerdictStep DEF AnswerRead, Roundtripped
    <2>2. PICK f : Ahead(f)
      OBVIOUS
    <2>3. Told(wire, synced, f, during[t])
      BY <2>1, <2>2 DEF Ahead, Serving
    <2>4. 0 \in 0..Len(wire) /\ Heard(wire, synced, 0)
      BY <1>0, <2>1 DEF Heard, TypeOK
    <2>5. PICK v \in during[t] : Shows(f[0], v)
      BY <2>3, <2>4 DEF Told
    <2>6. /\ {stands[h] : h \in known} = v.open
          /\ {stands[h] : h \in activated} = {v.active} \ {None}
      <3>1. f[0].known = known /\ f[0].on = activated
            /\ \A h \in Handles : f[0].stands[h] = stands[h]
        BY <2>2 DEF Ahead, Is
      <3>2. known \subseteq Handles /\ activated \subseteq Handles
        BY <1>0 DEF TypeOK
      <3>3. /\ {f[0].stands[h] : h \in known} = v.open
            /\ {f[0].stands[h] : h \in activated} = {v.active} \ {None}
        BY <2>5, <3>1 DEF Shows
      <3> QED BY <3>1, <3>2, <3>3
    <2>7. kind[t] = "list" => result'[t] = {stands[h] : h \in known}
      BY <1>0, <2>1 DEF Snapshot, TypeOK
    <2>8. kind[t] = "active" => result'[t] = {v.active} \ {None}
      <3> SUFFICES ASSUME kind[t] = "active"  PROVE result'[t] = {v.active} \ {None}
        OBVIOUS
      <3>1. \/ activated = {} /\ result'[t] = {}
            \/ \E h \in activated : result'[t] = {stands[h]}
        BY <1>0, <2>1 DEF Snapshot, TypeOK
      <3>2. activated = {} => {stands[h] : h \in activated} = {}
        OBVIOUS
      <3>3. ASSUME NEW h \in activated  PROVE {stands[h]} = {v.active} \ {None}
        BY <2>6
      <3> QED BY <2>6, <3>1, <3>2, <3>3
    <2> QED BY <2>1, <2>6, <2>7, <2>8
  <1> QED BY <1>0, <1>1, <1>2, <1>3, VerdictStep

LEMMA InitRInv == Init => RInv
  <1> SUFFICES ASSUME Init  PROVE RInv
    OBVIOUS
  <1>1. VInv
    BY InitVInv
  <1>2. Waiting /\ LatestState
    BY WlrAssumption DEF Init, Waiting, LatestState
  <1>3. PICK m : m = Mirror(1..Len(stack), Numbered(stack), FocusAt(stack, active), {}, {})
    OBVIOUS
  <1>4. stack \in Seq(Windows) /\ active \in ToSet(stack) \cup {None} /\ Len(stack) <= MaxHandles
    BY WlrAssumption DEF Init
  <1>5. Final(m, Numbered(stack), ToSet(stack), active)
    BY <1>3, <1>4, AheadNew
  <1>6. /\ m.known = 1..Len(stack) /\ m.stands = Numbered(stack) /\ m.on = FocusAt(stack, active)
        /\ m.pend = {} /\ m.pendOn = {}
    BY <1>3, MirrorHas
  <1>7. PICK f : f = [i \in {0} |-> m]
    OBVIOUS
  <1>8. f[0] = m
    BY <1>7
  <1>9. Len(wire) = 0 /\ handle = Numbered(stack) /\ worker = None
    BY DEF Init
  <1>10. Is(f[0])
    BY <1>6, <1>8 DEF Init, Is
  <1>11. Run(wire, f) /\ Final(f[Len(wire)], handle, open, active)
    BY <1>5, <1>8, <1>9 DEF Run, open
  <1>12. \A t \in Tasks : ~Serving(t)
    BY <1>9, WlrAssumption DEF Serving
  <1>13. Ahead(f)
    BY <1>10, <1>11, <1>12 DEF Ahead
  <1> QED BY <1>1, <1>2, <1>13 DEF RInv

\* Whatever lists the windows or names the active one tells of some instant of
\* the call, through openings, closings, moves of the focus and new processes,
\* while the connection lives and no title changes: the focus is taken off one
\* window before another has it, and done is sent with what it applies.
THEOREM ReadsAreFresh == Spec => []FreshRead
  <1>1. Init => RInv
    BY InitRInv
  <1>2. RInv /\ [Next]_vars => RInv'
    <2> SUFFICES ASSUME RInv, [Next]_vars  PROVE RInv'
      OBVIOUS
    <2>1. VInv' /\ Waiting'
      BY VInvStep, WaitingStep DEF RInv, VInv
    <2>2. ASSUME Calm'  PROVE LatestState' /\ \E f : Ahead(f)'
      <3>1. Calm
        BY <2>2, CalmBefore DEF RInv
      <3> QED BY <2>2, <3>1, LatestStep, AheadStep DEF RInv
    <2> QED BY <2>1, <2>2 DEF RInv
  <1>3. RInv => FreshRead
    BY DEF RInv, Calm, FreshRead
  <1> QED BY <1>1, <1>2, <1>3, PTL DEF Spec
==============================================================================
