--------------------------- MODULE KeyboardsProofs ---------------------------
(***************************************************************************)
(* Proofs about Keyboards, on both backends: the modifiers in force are    *)
(* those of the keys that are down, every key is read as the keysym it was *)
(* struck for, and commands that succeed leave nothing behind.  On wlroots *)
(* a process that ends once its last command is answered takes no key      *)
(* event with it.                                                          *)
(***************************************************************************)
EXTENDS Keyboards, FiniteSetTheorems, TLAPS

\* Requests without a reply.
Work(s) == \E S : s \in Seq(S) /\ \A r \in S : r.req # "sync"

\* The requests of one call: all that has no reply comes before its one sync.
Batch(s) == \E w, r : Work(w) /\ r.req = "sync" /\ s = w \o <<r>>

\* What is on its way to the compositor belongs to the call in progress.
InProgress == line = <<>> \/ (calls # <<>> /\ Batch(line))

Inv == backend = "wlroots" => InProgress /\ ExitLosesNothing

------------------------------------------------------------------------------
(* Sequences of requests.                                                  *)

LEMMA WorkOf == ASSUME NEW S, NEW s \in Seq(S), \A r \in S : r.req # "sync" PROVE Work(s)
BY DEF Work

LEMMA NoWork == Work(<<>>)
<1> DEFINE S == {}
<1>1. <<>> \in Seq(S) /\ \A r \in S : r.req # "sync"
  OBVIOUS
<1> HIDE DEF S
<1> QED BY <1>1, WorkOf

LEMMA OneWork == ASSUME NEW r, r.req # "sync" PROVE Work(<<r>>)
<1> DEFINE S == {r}
<1>1. <<r>> \in Seq(S) /\ \A q \in S : q.req # "sync"
  OBVIOUS
<1> HIDE DEF S
<1> QED BY <1>1, WorkOf

LEMMA MoreWork == ASSUME NEW s, NEW t, Work(s), Work(t) PROVE Work(s \o t)
<1>1. PICK S : s \in Seq(S) /\ \A r \in S : r.req # "sync"
  BY DEF Work
<1>2. PICK T : t \in Seq(T) /\ \A r \in T : r.req # "sync"
  BY DEF Work
<1>3. s \o t \in Seq(S \cup T)
  <2>1. s \in Seq(S \cup T) /\ t \in Seq(S \cup T)
    BY <1>1, <1>2
  <2> QED BY <2>1
<1>4. \A r \in S \cup T : r.req # "sync"
  BY <1>1, <1>2
<1> QED BY <1>3, <1>4 DEF Work

\* A batch is not empty.  Its head is the sync at its end, or leaves a batch.
LEMMA BatchShrinks ==
    ASSUME NEW s, Batch(s)
    PROVE  /\ s # <<>>
           /\ Head(s).req = "sync" => Tail(s) = <<>>
           /\ Head(s).req # "sync" => Batch(Tail(s))
<1>1. PICK w, r : Work(w) /\ r.req = "sync" /\ s = w \o <<r>>
  BY DEF Batch
<1>2. PICK S : w \in Seq(S) /\ \A q \in S : q.req # "sync"
  BY <1>1 DEF Work
<1>3. w \in Seq(S \cup {r}) /\ <<r>> \in Seq(S \cup {r})
  BY <1>2
<1>4. CASE w = <<>>
  <2>1. s = <<r>>
    BY <1>1, <1>4
  <2>2. Head(s) = r /\ Tail(s) = <<>> /\ s # <<>>
    BY <2>1
  <2> QED BY <1>1, <2>2
<1>5. CASE w # <<>>
  <2>1. Head(w) \in S /\ Tail(w) \in Seq(S)
    BY <1>2, <1>5
  <2>2. s # <<>> /\ Head(s) = Head(w) /\ Tail(s) = Tail(w) \o <<r>>
    BY <1>1, <1>3, <1>5
  <2>3. Work(Tail(w))
    BY <1>2, <2>1 DEF Work
  <2>4. Batch(Tail(s))
    BY <1>1, <2>2, <2>3 DEF Batch
  <2> QED BY <1>2, <2>1, <2>2, <2>4
<1> QED BY <1>4, <1>5

------------------------------------------------------------------------------
(* The worker sends the requests of a call in one batch.                   *)

LEMMA StruckWork == ASSUME NEW c, NEW on PROVE Work(Struck(c, on))
<1> DEFINE leaf == Key(Layout[c.sym].code, on, "default", IF c.sym \in Mods THEN "" ELSE c.sym, c.chord)
           press == Key(Layout["Shift_L"].code, on, "default", "", {})
           shift == IF Layout[c.sym].level = 1 THEN <<press>> ELSE <<>>
<1>1. leaf.req # "sync" /\ press.req # "sync"
  BY DEF Key
<1> HIDE DEF leaf, press
<1>2. Work(<<leaf>>) /\ Work(<<press>>) /\ Work(<<>>)
  BY <1>1, OneWork, NoWork
<1>3. Work(shift)
  BY <1>2
<1> HIDE DEF shift
<1>4. Work(shift \o <<leaf>>) /\ Work(<<leaf>> \o shift)
  BY <1>2, <1>3, MoreWork
<1> QED BY <1>4 DEF Struck, leaf, press, shift

LEMMA PushedWork == ASSUME NEW s, NEW after PROVE Work(Pushed(s, after))
<1>1. Modifiers(after).req # "sync"
  BY DEF Modifiers
<1> QED BY <1>1, OneWork, NoWork DEF Pushed

LEMMA KeyWork ==
    ASSUME NEW c
    PROVE  Work((IF c.op = "Release" THEN <<>> ELSE KeyPress(c))
                    \o (IF c.op = "Press" THEN <<>> ELSE KeyRelease(c)))
<1>1. Work(KeyPress(c)) /\ Work(KeyRelease(c))
  BY StruckWork, PushedWork, MoreWork DEF KeyPress, KeyRelease
<1>2. Work(IF c.op = "Release" THEN <<>> ELSE KeyPress(c))
  BY <1>1, NoWork
<1>3. Work(IF c.op = "Press" THEN <<>> ELSE KeyRelease(c))
  BY <1>1, NoWork
<1> QED BY <1>2, <1>3, MoreWork

LEMMA TransientWork == ASSUME NEW char, NEW restored PROVE Work(Transient(char, restored))
<1> DEFINE put == Keymap("text")
           press == Key(char, TRUE, "text", char, {})
           release == Key(char, FALSE, "text", char, {})
           back == Keymap("default")
<1>1. put.req # "sync" /\ press.req # "sync" /\ release.req # "sync" /\ back.req # "sync"
  BY DEF Key, Keymap
<1> HIDE DEF put, press, release, back
<1>2. Work(<<put, press, release>>)
  <2> DEFINE S == {put, press, release}
  <2>1. <<put, press, release>> \in Seq(S)
    OBVIOUS
  <2>2. \A r \in S : r.req # "sync"
    BY <1>1
  <2> HIDE DEF S
  <2> QED BY <2>1, <2>2, WorkOf
<1>3. Work(IF restored THEN <<back>> ELSE <<>>)
  BY <1>1, OneWork, NoWork
<1>4. Work(<<put, press, release>> \o (IF restored THEN <<back>> ELSE <<>>))
  BY <1>2, <1>3, MoreWork
<1> QED BY <1>4 DEF Transient, put, press, release, back

LEMMA FinishSends ==
    ASSUME NEW requests, NEW rest, Work(requests), Finish(requests, rest)
    PROVE  Batch(line') /\ calls' = calls
<1> DEFINE r == [req |-> "sync", rest |-> rest]
<1>1. r.req = "sync" /\ line' = requests \o <<r>> /\ calls' = calls
  BY DEF Finish
<1> HIDE DEF r
<1> QED BY <1>1 DEF Batch

LEMMA ServeKeeps == ASSUME InProgress, ExitLosesNothing, Serve, backend' = backend
                    PROVE  InProgress' /\ ExitLosesNothing'
<1> DEFINE c == Head(calls)
<1>1. calls # <<>> /\ (DoKey(c) \/ DoTransient(c) \/ Refuse(c))
  BY DEF Serve
<1>2. CASE DoKey(c)
  <2>1. Batch(line') /\ calls' = calls
    BY <1>2, KeyWork, FinishSends DEF DoKey
  <2>2. "lost" \in mishaps' => "lost" \in mishaps
    BY <1>2 DEF DoKey
  <2> QED BY <1>1, <2>1, <2>2 DEF InProgress, ExitLosesNothing
<1>3. CASE DoTransient(c)
  <2>1. Batch(line') /\ calls' = calls
    BY <1>3, TransientWork, FinishSends DEF DoTransient
  <2>2. "lost" \in mishaps' => "lost" \in mishaps
    BY <1>3 DEF DoTransient
  <2> QED BY <1>1, <2>1, <2>2 DEF InProgress, ExitLosesNothing
<1>4. CASE Refuse(c)
  <2>1. Batch(line') /\ calls' = calls
    BY <1>4, NoWork, FinishSends DEF Refuse
  <2>2. "lost" \in mishaps' => "lost" \in mishaps
    BY <1>4 DEF Refuse
  <2> QED BY <1>1, <2>1, <2>2 DEF InProgress, ExitLosesNothing
<1> QED BY <1>1, <1>2, <1>3, <1>4

------------------------------------------------------------------------------
(* The compositor, the command layer, and the invariant.                   *)

\* The call goes on until the compositor has reached its sync.
LEMMA ApplyKeeps == ASSUME InProgress, ExitLosesNothing, ApplyRequest, backend' = backend
                    PROVE  InProgress' /\ ExitLosesNothing'
<1>1. line # <<>> /\ line' = Tail(line) /\ mishaps' = mishaps
      /\ (Head(line).req # "sync" => calls' = calls)
  BY DEF ApplyRequest
<1>2. calls # <<>> /\ Batch(line)
  BY <1>1 DEF InProgress
<1>3. InProgress'
  BY <1>1, <1>2, BatchShrinks DEF InProgress
<1> QED BY <1>1, <1>3 DEF ExitLosesNothing

\* Nothing is on its way when a command begins, or the process ends.
LEMMA CommandKeeps == ASSUME InProgress, ExitLosesNothing, Command, backend' = backend
                      PROVE  InProgress' /\ ExitLosesNothing'
<1>1. ASSUME NEW new, Issue(new) PROVE InProgress' /\ ExitLosesNothing'
  BY <1>1 DEF Issue, InProgress, ExitLosesNothing
<1>2. ASSUME NEW op \in Ops, KeyCommand(op) \/ TypeCommand(op) \/ ClearCommand(op)
      PROVE  InProgress' /\ ExitLosesNothing'
  BY <1>1, <1>2 DEF KeyCommand, TypeCommand, ClearCommand
<1>3. ASSUME Exit PROVE InProgress' /\ ExitLosesNothing'
  BY <1>3 DEF Exit, InProgress, ExitLosesNothing
<1> QED BY <1>2, <1>3 DEF Command

LEMMA StepKeeps == Inv /\ [Next]_vars => Inv'
<1> SUFFICES ASSUME backend = "wlroots", InProgress, ExitLosesNothing, [Next]_vars
             PROVE  InProgress' /\ ExitLosesNothing'
  <2>1. [Next]_vars => backend' = backend
    BY DEF Next, vars
  <2> QED BY <2>1 DEF Inv
<1>1. CASE Command /\ backend' = backend
  BY <1>1, CommandKeeps
<1>2. CASE Serve /\ backend' = backend
  BY <1>2, ServeKeeps
<1>3. CASE ApplyRequest /\ backend' = backend
  BY <1>3, ApplyKeeps
<1>4. CASE UNCHANGED vars
  BY <1>4 DEF vars, ends, InProgress, ExitLosesNothing
<1> QED BY <1>1, <1>2, <1>3, <1>4 DEF Next, WlrNext

LEMMA InitHolds == Init => Inv
BY DEF Init, EndsInit, Inv, InProgress, ExitLosesNothing

\* On wlroots no process that ends takes a key event with it, whatever the
\* layout and the commands: a command is answered by the roundtrip after its
\* last call, and what a call sends ends in that roundtrip.
THEOREM NothingIsLost == Spec => []ExitLosesNothing
<1>1. Inv /\ [Next]_vars => Inv'
  BY StepKeeps
<1>2. Inv => ExitLosesNothing
  BY DEF Inv, ExitLosesNothing
<1> QED BY InitHolds, <1>1, <1>2, PTL DEF Spec

------------------------------------------------------------------------------
(* Reading and holding.  The state the compositor will be in once it has   *)
(* read what is on its way is known from the calls that are still due.     *)

\* The compositor applies a request, or reads an event.
Pressed(r, keys) == IF r.on THEN keys \cup {r.code} ELSE keys \ {r.code}
Seen(b, r, p) == r.on /\ r.want # "" /\ (b = "wlroots" \/ r.code \notin p.down)
Step(b, r, p) ==
    LET key == b = "uinput" \/ r.req = "key"
    IN [down |-> IF key THEN Pressed(r, p.down) ELSE p.down,
        mask |-> IF b = "uinput" THEN Bits(Pressed(r, p.down))
                 ELSE IF r.req = "modifiers" THEN r.bits ELSE p.mask,
        keymap |-> IF b = "wlroots" /\ r.req = "keymap" THEN r.map ELSE p.keymap,
        calls |-> IF b = "wlroots" /\ r.req = "sync" THEN r.rest ELSE p.calls,
        reading |-> IF key /\ Seen(b, r, p) THEN Reading(r, p.keymap, p.mask) ELSE p.reading]

\* A key is read as KeysymRead has it; u if the default keymap was not restored.
ReadOk(b, u, rd) ==
    /\ rd.chord \subseteq rd.under
    /\ \/ rd.got = rd.want
       \/ /\ {rd.want, rd.got} \subseteq DOMAIN Layout
          /\ Layout[rd.want].code = Layout[rd.got].code
          /\ "Shift" \in rd.under \/ (b = "wlroots" /\ Layout[rd.want].level = 1)
       \/ u

\* The requests s take the compositor from state p to state q.
Run(b, u, s, p, q) ==
    /\ \E S : s \in Seq(S)
    /\ \E f : /\ f[0] = p /\ f[Len(s)] = q
              /\ \A i \in 1..Len(s) : f[i] = Step(b, s[i], f[i - 1]) /\ ReadOk(b, u, f[i].reading)

CallSet == [op : {"Press", "Release", "PressRelease", "Type"}, sym : Mods \cup Leaves,
            soft : BOOLEAN, chord : SUBSET Mods]
Reads(c) == c.op \in {"Press", "PressRelease"} /\ c.sym \notin Mods
Frees(c, m) == c.op = "Release" /\ c.sym = m

\* Before a key is struck the modifiers of its chord are pressed, and nothing else.
Due(cs, bits) ==
    /\ cs \in Seq(CallSet)
    /\ \A i \in 1..Len(cs) :
          /\ cs[i].op = "Type" => cs[i].sym \notin Mods /\ cs[i].chord = {}
          /\ cs[i].soft => cs[i].op = "Release" /\ cs[i].sym \in Mods
          /\ Reads(cs[i]) =>
                /\ \A j \in 1..(i - 1) : cs[j].op = "Press" /\ cs[j].sym \in Mods
                /\ \A m \in cs[i].chord : BitOf[m] \in bits \/ \E j \in 1..(i - 1) : cs[j].sym = m

\* The modifiers in force are those of the keys that are down.
Untold == IF "unadvertised" \in mishaps THEN {"Shift"} ELSE {}
Matches(untold, keys, bits) ==
    /\ bits \ untold \subseteq Bits(keys)
    /\ Bits(keys) \ (untold \cup Twofold) \subseteq bits

\* What is down, or will be, is yet to be released.
Freed(cs, i) == {m \in Mods : \E j \in i..Len(cs) : Frees(cs[j], m)}
Passing(cs, keys, bits) ==
    /\ \A i \in 1..Len(cs) : cs[i].op = "Press" => cs[i].sym \in Freed(cs, i + 1)
    /\ keys \subseteq {Layout[m].code : m \in Freed(cs, 1)}
    /\ bits \subseteq {BitOf[m] : m \in Freed(cs, 1)}

\* The compositor is ready for the keys of a call.
Ready(b, u, p) ==
    /\ b \in {"wlroots", "uinput"}
    /\ p.keymap = "default" \/ u
    /\ b = "uinput" => p.mask = Bits(p.down) /\ p.keymap = "default"
    /\ ReadOk(b, u, p.reading)

\* The compositor now, and once it has read what is on its way: on wlroots a
\* call is over when its sync has been.
Now == [down |-> down, mask |-> mask, keymap |-> keymap, reading |-> reading,
        calls |-> IF backend = "wlroots" THEN calls ELSE <<>>]
Todo(p) == IF backend = "wlroots" THEN p.calls ELSE calls
Unrestored == "unrestored" \in mishaps
Ends(p) ==
    /\ Ready(backend, Unrestored, p)
    /\ Due(Todo(p), p.mask)
    /\ Matches(Untold, p.down, p.mask)
    /\ backend = "wlroots" => p.mask = depressed \/ (p.calls = <<>> /\ count = MaxCommands)
    /\ ~holding /\ mishaps \subseteq {"unadvertised"} =>
          p.keymap = "default" /\ Passing(Todo(p), p.down, p.mask)

Reckoned ==
    /\ backend \in {"wlroots", "uinput"}
    /\ KeysymRead
    /\ backend = "uinput" => keymap = "default" /\ mask = Bits(down)
    /\ \E p : Run(backend, Unrestored, line, Now, p) /\ Ends(p)

------------------------------------------------------------------------------
(* Runs.                                                                   *)

LEMMA RunNone == ASSUME NEW b, NEW u, NEW p PROVE Run(b, u, <<>>, p, p)
<1> DEFINE f == [i \in {0} |-> p]
<1>1. <<>> \in Seq({})
  OBVIOUS
<1>2. f[0] = p /\ f[Len(<<>>)] = p
  OBVIOUS
<1>3. \A i \in 1..Len(<<>>) : f[i] = Step(b, <<>>[i], f[i - 1]) /\ ReadOk(b, u, f[i].reading)
  OBVIOUS
<1> HIDE DEF f
<1> QED BY <1>1, <1>2, <1>3 DEF Run

LEMMA RunOne ==
    ASSUME NEW b, NEW u, NEW p, NEW r, ReadOk(b, u, Step(b, r, p).reading)
    PROVE  Run(b, u, <<r>>, p, Step(b, r, p))
<1> DEFINE q == Step(b, r, p)
           s == <<r>>
           f == [i \in {0, 1} |-> IF i = 0 THEN p ELSE q]
<1>1. s \in Seq({r}) /\ Len(s) = 1 /\ s[1] = r
  OBVIOUS
<1>2. f[0] = p /\ f[1] = q
  OBVIOUS
<1>3. ReadOk(b, u, q.reading) /\ q = Step(b, r, p)
  OBVIOUS
<1> HIDE DEF f, s, q
<1>4. \A i \in 1..Len(s) : f[i] = Step(b, s[i], f[i - 1]) /\ ReadOk(b, u, f[i].reading)
  BY <1>1, <1>2, <1>3
<1>5. Run(b, u, s, p, q)
  BY <1>1, <1>2, <1>4 DEF Run
<1> QED BY <1>5 DEF s, q

LEMMA RunThree ==
    ASSUME NEW b, NEW u, NEW p, NEW r1, NEW r2, NEW r3,
           ReadOk(b, u, Step(b, r1, p).reading), ReadOk(b, u, Step(b, r2, Step(b, r1, p)).reading),
           ReadOk(b, u, Step(b, r3, Step(b, r2, Step(b, r1, p))).reading)
    PROVE  Run(b, u, <<r1, r2, r3>>, p, Step(b, r3, Step(b, r2, Step(b, r1, p))))
<1> DEFINE p1 == Step(b, r1, p)
           p2 == Step(b, r2, p1)
           p3 == Step(b, r3, p2)
           s == <<r1, r2, r3>>
           f == [i \in 0..3 |-> IF i = 0 THEN p ELSE IF i = 1 THEN p1 ELSE IF i = 2 THEN p2 ELSE p3]
<1>1. s \in Seq({r1, r2, r3}) /\ Len(s) = 3 /\ s[1] = r1 /\ s[2] = r2 /\ s[3] = r3
  OBVIOUS
<1>2. f[0] = p /\ f[1] = p1 /\ f[2] = p2 /\ f[3] = p3
  OBVIOUS
<1>3. /\ p1 = Step(b, r1, p) /\ ReadOk(b, u, p1.reading)
      /\ p2 = Step(b, r2, p1) /\ ReadOk(b, u, p2.reading)
      /\ p3 = Step(b, r3, p2) /\ ReadOk(b, u, p3.reading)
  OBVIOUS
<1> HIDE DEF f, s, p1, p2, p3
<1>4. ASSUME NEW i \in 1..Len(s) PROVE f[i] = Step(b, s[i], f[i - 1]) /\ ReadOk(b, u, f[i].reading)
  <2>1. i = 1 \/ i = 2 \/ i = 3
    BY <1>1
  <2>2. 1 - 1 = 0 /\ 2 - 1 = 1 /\ 3 - 1 = 2
    OBVIOUS
  <2> QED BY <1>1, <1>2, <1>3, <2>1, <2>2
<1>5. Run(b, u, s, p, p3)
  BY <1>1, <1>2, <1>4 DEF Run
<1> QED BY <1>5 DEF s, p1, p2, p3

LEMMA RunBoth ==
    ASSUME NEW b, NEW u, NEW s, NEW t, NEW p, NEW q, NEW z, Run(b, u, s, p, q), Run(b, u, t, q, z)
    PROVE  Run(b, u, s \o t, p, z)
<1>1. PICK S : s \in Seq(S)
  BY DEF Run
<1>2. PICK T : t \in Seq(T)
  BY DEF Run
<1>3. s \in Seq(S \cup T) /\ t \in Seq(S \cup T)
  BY <1>1, <1>2
<1>4. s \o t \in Seq(S \cup T) /\ Len(s \o t) = Len(s) + Len(t)
      /\ Len(s) \in Nat /\ Len(t) \in Nat
  BY <1>3
<1>5. /\ \A i \in 1..Len(s) : (s \o t)[i] = s[i]
      /\ \A i \in (Len(s) + 1)..(Len(s) + Len(t)) : (s \o t)[i] = t[i - Len(s)]
  BY <1>3
<1>6. PICK f : /\ f[0] = p /\ f[Len(s)] = q
               /\ \A i \in 1..Len(s) : f[i] = Step(b, s[i], f[i - 1]) /\ ReadOk(b, u, f[i].reading)
  BY DEF Run
<1>7. PICK g : /\ g[0] = q /\ g[Len(t)] = z
               /\ \A i \in 1..Len(t) : g[i] = Step(b, t[i], g[i - 1]) /\ ReadOk(b, u, g[i].reading)
  BY DEF Run
<1> DEFINE h == [i \in 0..(Len(s) + Len(t)) |-> IF i <= Len(s) THEN f[i] ELSE g[i - Len(s)]]
           w == s \o t
<1>8. \A i \in 0..Len(s) : h[i] = f[i]
  BY <1>4
<1>9. \A i \in (Len(s) + 1)..(Len(s) + Len(t)) : h[i] = g[i - Len(s)]
  BY <1>4
<1>10. h[Len(s)] = g[0]
  BY <1>4, <1>6, <1>7, <1>8
<1> HIDE DEF h
<1>11. h[0] = p /\ h[Len(s) + Len(t)] = z
  <2>1. h[0] = p
    BY <1>4, <1>6, <1>8
  <2>2. CASE Len(t) = 0
    BY <1>4, <1>7, <1>10, <2>1, <2>2
  <2>3. CASE Len(t) # 0
    <3>1. Len(s) + Len(t) \in (Len(s) + 1)..(Len(s) + Len(t)) /\ (Len(s) + Len(t)) - Len(s) = Len(t)
      BY <1>4, <2>3
    <3> QED BY <1>7, <1>9, <2>1, <3>1
  <2> QED BY <2>2, <2>3
<1>12. ASSUME NEW i \in 1..(Len(s) + Len(t))
       PROVE  h[i] = Step(b, w[i], h[i - 1]) /\ ReadOk(b, u, h[i].reading)
  <2>1. CASE i \in 1..Len(s)
    <3>1. h[i] = f[i] /\ h[i - 1] = f[i - 1] /\ w[i] = s[i]
      BY <1>4, <1>5, <1>8, <2>1
    <3> QED BY <1>6, <2>1, <3>1
  <2>2. CASE i \in (Len(s) + 1)..(Len(s) + Len(t))
    <3>1. h[i] = g[i - Len(s)] /\ w[i] = t[i - Len(s)] /\ i - Len(s) \in 1..Len(t)
      BY <1>4, <1>5, <1>9, <2>2
    <3>2. h[i - 1] = g[(i - Len(s)) - 1]
      <4>1. CASE i = Len(s) + 1
        BY <1>4, <1>10, <4>1
      <4>2. CASE i # Len(s) + 1
        <5>1. i - 1 \in (Len(s) + 1)..(Len(s) + Len(t)) /\ (i - 1) - Len(s) = (i - Len(s)) - 1
          BY <1>4, <2>2, <4>2
        <5> QED BY <1>9, <5>1
      <4> QED BY <4>1, <4>2
    <3> QED BY <1>7, <3>1, <3>2
  <2> QED BY <1>4, <2>1, <2>2
<1>13. w \in Seq(S \cup T) /\ Len(w) = Len(s) + Len(t)
  BY <1>4
<1> HIDE DEF w
<1>14. Run(b, u, w, p, z)
  BY <1>11, <1>12, <1>13 DEF Run
<1> QED BY <1>14 DEF w

LEMMA RunHead ==
    ASSUME NEW b, NEW u, NEW s, NEW p, NEW q, Run(b, u, s, p, q), s # <<>>
    PROVE  LET z == Step(b, Head(s), p)
           IN  ReadOk(b, u, z.reading) /\ Run(b, u, Tail(s), z, q)
<1> DEFINE z == Step(b, Head(s), p)
           t == Tail(s)
<1>1. PICK S : s \in Seq(S)
  BY DEF Run
<1>2. PICK f : /\ f[0] = p /\ f[Len(s)] = q
               /\ \A i \in 1..Len(s) : f[i] = Step(b, s[i], f[i - 1]) /\ ReadOk(b, u, f[i].reading)
  BY DEF Run
<1>3. Len(s) \in Nat \ {0} /\ Head(s) = s[1] /\ t \in Seq(S) /\ Len(t) = Len(s) - 1
      /\ \A i \in 1..Len(t) : t[i] = s[i + 1]
  BY <1>1
<1>4. f[1] = z /\ ReadOk(b, u, z.reading)
  BY <1>2, <1>3
<1> HIDE DEF z, t
<1> DEFINE g == [i \in 0..Len(t) |-> f[i + 1]]
<1>5. g[0] = z /\ g[Len(t)] = q
  BY <1>2, <1>3, <1>4
<1>6. ASSUME NEW i \in 1..Len(t)
      PROVE  g[i] = Step(b, t[i], g[i - 1]) /\ ReadOk(b, u, g[i].reading)
  <2>1. g[i] = f[i + 1] /\ g[i - 1] = f[i] /\ t[i] = s[i + 1] /\ i + 1 \in 1..Len(s)
    BY <1>3
  <2>2. (i + 1) - 1 = i
    OBVIOUS
  <2> QED BY <1>2, <2>1, <2>2
<1> HIDE DEF g
<1>7. Run(b, u, t, z, q)
  BY <1>3, <1>5, <1>6 DEF Run
<1> QED BY <1>4, <1>7 DEF z, t

LEMMA RunOver == ASSUME NEW b, NEW u, NEW p, NEW q, Run(b, u, <<>>, p, q) PROVE q = p
BY DEF Run

------------------------------------------------------------------------------
(* What a call does to the keys, the modifiers and the keymap.             *)

\* The keys of a keysym: its own, and the Shift it needs.
Own(c) == {Layout[c.sym].code}
          \cup (IF Layout[c.sym].level = 1 THEN {Layout["Shift_L"].code} ELSE {})
Moved(c, on, keys) == IF on THEN keys \cup Own(c) ELSE keys \ Own(c)

\* From p to q the keymap and the calls to make have not changed.
Apart(p, q) == q.keymap = p.keymap /\ q.calls = p.calls

\* Once s has been read, those keys are down and those modifiers in force.
Leads(b, u, s, p, keys, bits) ==
    \E q : /\ Run(b, u, s, p, q) /\ Ready(b, u, q) /\ Apart(p, q)
           /\ q.down = keys /\ q.mask = bits
Derived(b, keys, bits) == IF b = "uinput" THEN Bits(keys) ELSE bits

LEMMA LayoutIs ==
    ASSUME NEW s \in DOMAIN Layout
    PROVE  /\ Layout[s].level \in {0, 1}
           /\ Layout[s] = [code |-> Layout[s].code, level |-> Layout[s].level]
           /\ \A t \in DOMAIN Layout :
                 Layout[t].code = Layout[s].code /\ Layout[t].level = Layout[s].level => t = s
<1>1. \A t \in DOMAIN Layout : Layout[t] \in [code : Codes, level : {0, 1}]
  BY KeyboardAssumption
<1>2. \A t \in DOMAIN Layout : Layout[t] = [code |-> Layout[t].code, level |-> Layout[t].level]
  BY <1>1
<1>3. \A t \in DOMAIN Layout : Layout[t] = Layout[s] => t = s
  BY KeyboardAssumption DEF IsInjective
<1> QED BY <1>1, <1>2, <1>3

\* The symbol of a key is that of the level that Shift selects.
LEMMA SymbolIs ==
    ASSUME NEW s \in DOMAIN Layout, NEW bits
    PROVE  LET got == Symbol(Layout[s].code, bits)
           IN  /\ Layout[s].level = 0 => got = s \/ ("Shift" \in bits /\ got \in DOMAIN Layout
                                                       /\ Layout[got].code = Layout[s].code)
               /\ Layout[s].level = 1 => got \in DOMAIN Layout /\ Layout[got].code = Layout[s].code
                                         /\ ("Shift" \in bits => got = s)
<1> DEFINE code == Layout[s].code
           at(level) == {t \in DOMAIN Layout : Layout[t] = [code |-> code, level |-> level]}
           one(level) == CHOOSE t \in at(level) : TRUE
<1>1. ASSUME NEW level \in {0, 1}, at(level) # {}
      PROVE  one(level) \in at(level)
  BY <1>1
<1>2. ASSUME NEW level \in {0, 1}, NEW t \in at(level)
      PROVE  t \in DOMAIN Layout /\ Layout[t].code = code /\ Layout[t].level = level
  BY <1>2
<1>3. s \in at(Layout[s].level) /\ Layout[s].level \in {0, 1}
  BY LayoutIs
<1>4. Symbol(code, bits) = IF "Shift" \in bits /\ at(1) # {} THEN one(1) ELSE one(0)
  BY DEF Symbol
<1>5. Layout[s].level = 1 => at(0) # {}
  BY KeyboardAssumption
<1> HIDE DEF at, one
<1>6. CASE Layout[s].level = 0
  <2>1. CASE "Shift" \in bits /\ at(1) # {}
    BY <1>1, <1>2, <1>4, <1>6, <2>1
  <2>2. CASE ~("Shift" \in bits /\ at(1) # {})
    <3>1. Symbol(code, bits) \in at(0)
      BY <1>1, <1>3, <1>4, <1>6, <2>2
    <3>2. Symbol(code, bits) = s
      BY <1>2, <1>6, <3>1, LayoutIs
    <3> QED BY <1>6, <3>2
  <2> QED BY <2>1, <2>2
<1>7. CASE Layout[s].level = 1
  <2>1. CASE "Shift" \in bits
    <3>1. Symbol(code, bits) \in at(1)
      BY <1>1, <1>3, <1>4, <1>7, <2>1
    <3>2. Symbol(code, bits) = s
      BY <1>2, <1>7, <3>1, LayoutIs
    <3> QED BY <1>7, <3>2
  <2>2. CASE "Shift" \notin bits
    <3>1. one(0) \in at(0)
      BY <1>1, <1>5, <1>7
    <3>2. Symbol(code, bits) \in at(0)
      BY <1>4, <2>2, <3>1
    <3> QED BY <1>2, <1>7, <2>2, <3>2
  <2> QED BY <2>1, <2>2
<1> QED BY <1>3, <1>6, <1>7

\* A key of the layout, under the modifiers of its chord, is read as it should:
\* on uinput Shift is in force if its symbol needs it.
LEMMA KeyRead ==
    ASSUME NEW b \in {"wlroots", "uinput"}, NEW u, NEW map, NEW bits, map = "default" \/ u,
           NEW s \in DOMAIN Layout, NEW chord \in SUBSET Mods, \A m \in chord : BitOf[m] \in bits,
           b = "uinput" => (Layout[s].level = 1 => "Shift" \in bits),
           NEW on
    PROVE  ReadOk(b, u, Reading(Key(Layout[s].code, on, "default", s, chord), map, bits))
<1> DEFINE rd == Reading(Key(Layout[s].code, on, "default", s, chord), map, bits)
           got == Symbol(Layout[s].code, bits)
<1>1. rd.want = s /\ rd.under = bits /\ rd.chord = {BitOf[m] : m \in chord}
      /\ (map = "default" => rd.got = got)
  BY DEF Reading, Key
<1>2. Layout[s].level \in {0, 1}
  BY LayoutIs
<1>3. got = s \/ (/\ got \in DOMAIN Layout /\ Layout[got].code = Layout[s].code
                  /\ "Shift" \in bits \/ (b = "wlroots" /\ Layout[s].level = 1))
  BY <1>2, SymbolIs
<1> HIDE DEF rd, got
<1>4. rd.chord \subseteq rd.under
  BY <1>1
<1>5. ASSUME map = "default" PROVE ReadOk(b, u, rd)
  <2>1. rd.got = got /\ rd.want = s /\ rd.under = bits
    BY <1>1, <1>5
  <2>2. CASE got = s
    BY <1>4, <2>1, <2>2 DEF ReadOk
  <2>3. CASE /\ got \in DOMAIN Layout /\ Layout[got].code = Layout[s].code
             /\ "Shift" \in bits \/ (b = "wlroots" /\ Layout[s].level = 1)
    <3>1. {rd.want, rd.got} \subseteq DOMAIN Layout
      BY <2>1, <2>3
    <3> QED BY <1>4, <2>1, <2>3, <3>1 DEF ReadOk
  <2> QED BY <1>3, <2>2, <2>3
<1>6. ASSUME u PROVE ReadOk(b, u, rd)
  BY <1>4, <1>6 DEF ReadOk
<1>7. ReadOk(b, u, rd)
  BY <1>5, <1>6
<1> QED BY <1>7 DEF rd

\* One key: r is read as it should be, if it is read.
LEMMA KeyRun ==
    ASSUME NEW b, NEW u, NEW p, Ready(b, u, p), NEW r, r.req = "key",
           Seen(b, r, p) => ReadOk(b, u, Reading(r, p.keymap, p.mask))
    PROVE  \E q : /\ Run(b, u, <<r>>, p, q) /\ Ready(b, u, q) /\ Apart(p, q)
                  /\ q.down = Pressed(r, p.down)
                  /\ q.mask = IF b = "uinput" THEN Bits(q.down) ELSE p.mask
<1> DEFINE q == Step(b, r, p)
<1>1. q.down = Pressed(r, p.down)
  BY DEF Step
<1>2. q.mask = IF b = "uinput" THEN Bits(q.down) ELSE p.mask
  BY <1>1 DEF Step
<1>3. q.keymap = p.keymap /\ q.calls = p.calls
  BY DEF Step
<1>4. q.reading = IF Seen(b, r, p) THEN Reading(r, p.keymap, p.mask) ELSE p.reading
  BY DEF Step
<1>5. ReadOk(b, u, q.reading)
  BY <1>4 DEF Ready
<1>6. Run(b, u, <<r>>, p, q)
  BY <1>5, RunOne
<1> HIDE DEF q
<1>7. Ready(b, u, q) /\ Apart(p, q)
  BY <1>2, <1>3, <1>5 DEF Ready, Apart
<1> QED BY <1>1, <1>2, <1>6, <1>7

LEMMA BitsGrow ==
    ASSUME NEW keys, NEW more, keys \subseteq more PROVE Bits(keys) \subseteq Bits(more)
BY DEF Bits

\* A keysym of the layout, with Shift around it if it needs Shift.
LEMMA StruckRun ==
    ASSUME NEW b, NEW u, NEW p, Ready(b, u, p), NEW c \in CallSet, NEW on \in BOOLEAN,
           c.sym \in DOMAIN Layout,
           on /\ c.sym \notin Mods => \A m \in c.chord : BitOf[m] \in p.mask
    PROVE  Leads(b, u, Struck(c, on), p, Moved(c, on, p.down),
                 Derived(b, Moved(c, on, p.down), p.mask))
<1> DEFINE want == IF c.sym \in Mods THEN "" ELSE c.sym
           leaf == Key(Layout[c.sym].code, on, "default", want, c.chord)
           shift == Key(Layout["Shift_L"].code, on, "default", "", {})
           code == Layout[c.sym].code
           other == Layout["Shift_L"].code
           Due1(z) == on /\ c.sym \notin Mods => /\ \A m \in c.chord : BitOf[m] \in z.mask
                                                 /\ b = "uinput" => (Layout[c.sym].level = 1 => "Shift" \in z.mask)
           After(q, z, s, keys) ==
               /\ Run(b, u, s, z, q) /\ Ready(b, u, q) /\ Apart(z, q)
               /\ q.down = IF on THEN z.down \cup keys ELSE z.down \ keys
               /\ q.mask = IF b = "uinput" THEN Bits(q.down) ELSE z.mask
<1>1. c.chord \in SUBSET Mods
  BY DEF CallSet
<1>2. leaf.req = "key" /\ leaf.on = on /\ leaf.code = code /\ leaf.want = want
      /\ shift.req = "key" /\ shift.on = on /\ shift.code = other /\ shift.want = ""
  BY DEF Key
<1>3. ASSUME NEW z, Ready(b, u, z), Due1(z)
      PROVE  \E q : After(q, z, <<leaf>>, {code})
  <2>1. Seen(b, leaf, z) => ReadOk(b, u, Reading(leaf, z.keymap, z.mask))
    <3>1. CASE on /\ c.sym \notin Mods
      <4>1. leaf = Key(Layout[c.sym].code, on, "default", c.sym, c.chord)
        BY <3>1
      <4>2. b \in {"wlroots", "uinput"} /\ (z.keymap = "default" \/ u)
        BY <1>3 DEF Ready
      <4>3. (\A m \in c.chord : BitOf[m] \in z.mask)
            /\ (b = "uinput" => (Layout[c.sym].level = 1 => "Shift" \in z.mask))
        BY <1>3, <3>1
      <4> HIDE DEF leaf, code
      <4>4. ReadOk(b, u, Reading(leaf, z.keymap, z.mask))
        BY <1>1, <4>1, <4>2, <4>3, KeyRead
      <4> QED BY <4>4
    <3>2. CASE ~on \/ c.sym \in Mods
      <4>1. ~Seen(b, leaf, z)
        BY <1>2, <3>2 DEF Seen
      <4> QED BY <4>1
    <3> QED BY <3>1, <3>2
  <2> HIDE DEF leaf
  <2>0. leaf.req = "key" /\ Ready(b, u, z)
    BY <1>2, <1>3
  <2>2. PICK q : /\ Run(b, u, <<leaf>>, z, q) /\ Ready(b, u, q) /\ Apart(z, q)
                 /\ q.down = Pressed(leaf, z.down)
                 /\ q.mask = IF b = "uinput" THEN Bits(q.down) ELSE z.mask
    BY <2>0, <2>1, KeyRun
  <2>3. Pressed(leaf, z.down) = IF on THEN z.down \cup {code} ELSE z.down \ {code}
    BY <1>2 DEF Pressed
  <2> QED BY <2>2, <2>3
<1>4. ASSUME NEW z, Ready(b, u, z)
      PROVE  \E q : After(q, z, <<shift>>, {other})
  <2>1. ~Seen(b, shift, z)
    BY <1>2 DEF Seen
  <2> HIDE DEF shift
  <2>0. shift.req = "key" /\ Ready(b, u, z)
    BY <1>2, <1>4
  <2>2. PICK q : /\ Run(b, u, <<shift>>, z, q) /\ Ready(b, u, q) /\ Apart(z, q)
                 /\ q.down = Pressed(shift, z.down)
                 /\ q.mask = IF b = "uinput" THEN Bits(q.down) ELSE z.mask
    BY <2>0, <2>1, KeyRun
  <2>3. Pressed(shift, z.down) = IF on THEN z.down \cup {other} ELSE z.down \ {other}
    BY <1>2 DEF Pressed
  <2> QED BY <2>2, <2>3
<1>5. Layout[c.sym].level \in {0, 1}
  BY LayoutIs
<1>6. Struck(c, on) = IF Layout[c.sym].level = 1
                      THEN IF on THEN <<shift>> \o <<leaf>> ELSE <<leaf>> \o <<shift>>
                      ELSE <<leaf>>
  <2> HIDE DEF leaf, shift
  <2>1. <<>> \o <<leaf>> = <<leaf>> /\ <<leaf>> \o <<>> = <<leaf>>
    OBVIOUS
  <2>2. Struck(c, on) = LET sh == IF Layout[c.sym].level = 1 THEN <<shift>> ELSE <<>>
                        IN IF on THEN sh \o <<leaf>> ELSE <<leaf>> \o sh
    BY DEF Struck, leaf, shift
  <2> QED BY <2>1, <2>2
<1>7. Own(c) = IF Layout[c.sym].level = 1 THEN {code, other} ELSE {code}
  BY DEF Own
<1> HIDE DEF leaf, shift, code, other, want
<1>8. CASE Layout[c.sym].level = 0
  <2>1. Due1(p)
    BY <1>8
  <2>2. PICK q : After(q, p, <<leaf>>, {code})
    BY <1>3, <2>1
  <2>3. Struck(c, on) = <<leaf>> /\ Own(c) = {code}
    BY <1>6, <1>7, <1>8
  <2> QED BY <2>2, <2>3 DEF Moved, Leads, Derived
<1>9. CASE Layout[c.sym].level = 1 /\ on
  <2>1. PICK y : After(y, p, <<shift>>, {other})
    BY <1>4
  <2>2. b = "uinput" => Bits(p.down) \subseteq y.mask /\ "Shift" \in y.mask
    <3>1. b = "uinput" => y.mask = Bits(p.down \cup {other})
      BY <1>9, <2>1
    <3>2. "Shift_L" \in Mods /\ BitOf["Shift_L"] = "Shift"
      BY <1>9, KeyboardAssumption
    <3>3. Bits(p.down) \subseteq Bits(p.down \cup {other})
      BY BitsGrow
    <3>4. "Shift" \in Bits(p.down \cup {other})
      BY <3>2 DEF Bits, other
    <3> QED BY <3>1, <3>3, <3>4
  <2>3. Due1(y)
    BY <1>9, <2>1, <2>2 DEF Ready
  <2>4. PICK q : After(q, y, <<leaf>>, {code})
    BY <1>3, <2>1, <2>3
  <2>5. Run(b, u, <<shift>> \o <<leaf>>, p, q)
    BY <2>1, <2>4, RunBoth
  <2>6. q.down = p.down \cup Own(c)
    BY <1>7, <1>9, <2>1, <2>4
  <2>7. q.mask = IF b = "uinput" THEN Bits(q.down) ELSE p.mask
    BY <2>1, <2>4
  <2>8. Apart(p, q) /\ Ready(b, u, q)
    BY <2>1, <2>4 DEF Apart
  <2>9. Struck(c, on) = <<shift>> \o <<leaf>> /\ Moved(c, on, p.down) = p.down \cup Own(c)
    BY <1>6, <1>9 DEF Moved
  <2> QED BY <2>5, <2>6, <2>7, <2>8, <2>9 DEF Leads, Derived
<1>10. CASE Layout[c.sym].level = 1 /\ ~on
  <2>1. Due1(p)
    BY <1>10
  <2>2. PICK y : After(y, p, <<leaf>>, {code})
    BY <1>3, <2>1
  <2>3. PICK q : After(q, y, <<shift>>, {other})
    BY <1>4, <2>2
  <2>5. Run(b, u, <<leaf>> \o <<shift>>, p, q)
    BY <2>2, <2>3, RunBoth
  <2>6. q.down = p.down \ Own(c)
    BY <1>7, <1>10, <2>2, <2>3
  <2>7. q.mask = IF b = "uinput" THEN Bits(q.down) ELSE p.mask
    BY <2>2, <2>3
  <2>8. Apart(p, q) /\ Ready(b, u, q)
    BY <2>2, <2>3 DEF Apart
  <2>9. Struck(c, on) = <<leaf>> \o <<shift>> /\ Moved(c, on, p.down) = p.down \ Own(c)
    BY <1>6, <1>10 DEF Moved
  <2> QED BY <2>5, <2>6, <2>7, <2>8, <2>9 DEF Leads, Derived
<1> QED BY <1>5, <1>8, <1>9, <1>10

LEMMA StruckDown ==
    ASSUME NEW b, NEW u, NEW p, Ready(b, u, p), NEW c \in CallSet, c.sym \in DOMAIN Layout,
           c.sym \notin Mods => \A m \in c.chord : BitOf[m] \in p.mask
    PROVE  Leads(b, u, Struck(c, TRUE), p, p.down \cup Own(c), Derived(b, p.down \cup Own(c), p.mask))
<1>1. \A on \in BOOLEAN : on /\ c.sym \notin Mods => \A m \in c.chord : BitOf[m] \in p.mask
  OBVIOUS
<1>2. \A on \in BOOLEAN : Leads(b, u, Struck(c, on), p, Moved(c, on, p.down),
                                Derived(b, Moved(c, on, p.down), p.mask))
  BY <1>1, StruckRun
<1>3. Moved(c, TRUE, p.down) = p.down \cup Own(c)
  BY DEF Moved
<1> QED BY <1>2, <1>3

LEMMA StruckUp ==
    ASSUME NEW b, NEW u, NEW p, Ready(b, u, p), NEW c \in CallSet, c.sym \in DOMAIN Layout
    PROVE  Leads(b, u, Struck(c, FALSE), p, p.down \ Own(c), Derived(b, p.down \ Own(c), p.mask))
<1>1. \A on \in {FALSE} : on /\ c.sym \notin Mods => \A m \in c.chord : BitOf[m] \in p.mask
  OBVIOUS
<1>2. \A on \in {FALSE} : Leads(b, u, Struck(c, on), p, Moved(c, on, p.down),
                                Derived(b, Moved(c, on, p.down), p.mask))
  <2> SUFFICES ASSUME NEW on \in {FALSE}
               PROVE  Leads(b, u, Struck(c, on), p, Moved(c, on, p.down),
                            Derived(b, Moved(c, on, p.down), p.mask))
    OBVIOUS
  <2>1. on \in BOOLEAN
    OBVIOUS
  <2> QED BY <1>1, <2>1, StruckRun
<1>3. Moved(c, FALSE, p.down) = p.down \ Own(c)
  BY DEF Moved
<1> QED BY <1>2, <1>3

LEMMA LeadsBoth ==
    ASSUME NEW b, NEW u, NEW s, NEW t, NEW p, NEW keys, NEW bits, NEW after, NEW mods,
           Leads(b, u, s, p, keys, bits),
           \A q : Ready(b, u, q) /\ q.down = keys /\ q.mask = bits => Leads(b, u, t, q, after, mods)
    PROVE  Leads(b, u, s \o t, p, after, mods)
<1>1. PICK y : /\ Run(b, u, s, p, y) /\ Ready(b, u, y) /\ Apart(p, y)
               /\ y.down = keys /\ y.mask = bits
  BY DEF Leads
<1>2. Leads(b, u, t, y, after, mods)
  BY <1>1
<1>3. PICK q : /\ Run(b, u, t, y, q) /\ Ready(b, u, q) /\ Apart(y, q)
               /\ q.down = after /\ q.mask = mods
  BY <1>2 DEF Leads
<1>4. Run(b, u, s \o t, p, q)
  BY <1>1, <1>3, RunBoth
<1>5. Apart(p, q)
  BY <1>1, <1>3 DEF Apart
<1> QED BY <1>3, <1>4, <1>5 DEF Leads

LEMMA LeadsNowhere ==
    ASSUME NEW b, NEW u, NEW p, Ready(b, u, p) PROVE Leads(b, u, <<>>, p, p.down, p.mask)
<1>1. Run(b, u, <<>>, p, p) /\ Apart(p, p)
  BY RunNone DEF Apart
<1> QED BY <1>1 DEF Leads

\* push_mods tells the compositor the modifiers, if there is a change.
LEMMA PushedRun ==
    ASSUME NEW u, NEW p, Ready("wlroots", u, p), NEW s, NEW after, s \notin Mods => after = p.mask
    PROVE  Leads("wlroots", u, Pushed(s, after), p, p.down, after)
<1>1. CASE s \notin Mods
  BY <1>1, LeadsNowhere DEF Pushed
<1>2. CASE s \in Mods
  <2> DEFINE r == Modifiers(after)
             q == Step("wlroots", r, p)
  <2>1. r.req = "modifiers" /\ r.bits = after
    BY DEF Modifiers
  <2>2. q.down = p.down /\ q.mask = after /\ q.keymap = p.keymap /\ q.calls = p.calls
        /\ q.reading = p.reading
    BY <2>1 DEF Step
  <2>3. ReadOk("wlroots", u, q.reading)
    BY <2>2 DEF Ready
  <2>4. Pushed(s, after) = <<r>>
    BY <1>2 DEF Pushed
  <2>5. Run("wlroots", u, <<r>>, p, q)
    BY <2>3, RunOne
  <2> HIDE DEF q
  <2>6. Ready("wlroots", u, q) /\ Apart(p, q)
    BY <2>2 DEF Ready, Apart
  <2> QED BY <2>2, <2>4, <2>5, <2>6 DEF Leads
<1> QED BY <1>1, <1>2

LEMMA KeyPressRun ==
    ASSUME NEW u, NEW p, Ready("wlroots", u, p), p.mask = depressed, NEW c \in CallSet,
           c.sym \in DOMAIN Layout,
           c.sym \notin Mods => \A m \in c.chord : BitOf[m] \in p.mask
    PROVE  Leads("wlroots", u, KeyPress(c), p, p.down \cup Own(c), depressed \cup Bit(c.sym))
<1> DEFINE bits == depressed \cup Bit(c.sym)
<1>1. c.sym \notin Mods => bits = p.mask
  BY DEF Bit
<1>2. p.mask \subseteq bits
  OBVIOUS
<1> HIDE DEF bits
<1>3. Leads("wlroots", u, Pushed(c.sym, bits), p, p.down, bits)
  BY <1>1, PushedRun
<1>4. ASSUME NEW q, Ready("wlroots", u, q), q.down = p.down, q.mask = bits
      PROVE  Leads("wlroots", u, Struck(c, TRUE), q, p.down \cup Own(c), bits)
  <2>1. c.sym \notin Mods => \A m \in c.chord : BitOf[m] \in q.mask
    BY <1>2, <1>4
  <2>2. Leads("wlroots", u, Struck(c, TRUE), q, q.down \cup Own(c),
              Derived("wlroots", q.down \cup Own(c), q.mask))
    BY <1>4, <2>1, StruckDown
  <2> QED BY <1>4, <2>2 DEF Derived
<1>5. Leads("wlroots", u, Pushed(c.sym, bits) \o Struck(c, TRUE), p, p.down \cup Own(c), bits)
  BY <1>3, <1>4, LeadsBoth
<1> QED BY <1>5 DEF KeyPress, bits

LEMMA KeyReleaseRun ==
    ASSUME NEW u, NEW p, Ready("wlroots", u, p), NEW c \in CallSet, c.sym \in DOMAIN Layout,
           c.sym \notin Mods => p.mask = depressed
    PROVE  Leads("wlroots", u, KeyRelease(c), p, p.down \ Own(c), depressed \ Bit(c.sym))
<1> DEFINE bits == depressed \ Bit(c.sym)
           keys == p.down \ Own(c)
<1>1. c.sym \notin Mods => bits = p.mask
  BY DEF Bit
<1> HIDE DEF bits, keys
<1>2. Leads("wlroots", u, Struck(c, FALSE), p, keys, p.mask)
  <2>1. Leads("wlroots", u, Struck(c, FALSE), p, keys, Derived("wlroots", keys, p.mask))
    BY StruckUp DEF keys
  <2> QED BY <2>1 DEF Derived
<1>3. ASSUME NEW q, Ready("wlroots", u, q), q.down = keys, q.mask = p.mask
      PROVE  Leads("wlroots", u, Pushed(c.sym, bits), q, keys, bits)
  <2>1. c.sym \notin Mods => bits = q.mask
    BY <1>1, <1>3
  <2> QED BY <1>3, <2>1, PushedRun
<1>4. Leads("wlroots", u, Struck(c, FALSE) \o Pushed(c.sym, bits), p, keys, bits)
  BY <1>2, <1>3, LeadsBoth
<1> QED BY <1>4 DEF KeyRelease, bits, keys

\* What do_key sends: a press, a release, or both.
KeyRequests(c) == (IF c.op = "Release" THEN <<>> ELSE KeyPress(c))
                    \o (IF c.op = "Press" THEN <<>> ELSE KeyRelease(c))

\* What the keys of a call are after it.
Left(c, keys) == IF c.op = "Press" THEN keys \cup Own(c) ELSE keys \ Own(c)
LeftMods(c, bits) == IF c.op = "Press" THEN bits \cup Bit(c.sym) ELSE bits \ Bit(c.sym)

LEMMA KeyRequestsRun ==
    ASSUME NEW u, NEW p, Ready("wlroots", u, p), p.mask = depressed, NEW c \in CallSet,
           c.op \in {"Press", "Release", "PressRelease"}, c.sym \in DOMAIN Layout,
           Reads(c) => \A m \in c.chord : BitOf[m] \in p.mask
    PROVE  Leads("wlroots", u, KeyRequests(c), p, Left(c, p.down), LeftMods(c, depressed))
<1> DEFINE keys == p.down \cup Own(c)
           bits == depressed \cup Bit(c.sym)
<1>1. CASE c.op = "Press"
  <2>1. Leads("wlroots", u, KeyPress(c), p, keys, bits)
    BY <1>1, KeyPressRun DEF Reads
  <2> HIDE DEF keys, bits
  <2>2. Leads("wlroots", u, KeyPress(c) \o <<>>, p, keys, bits)
    <3>1. \A q : Ready("wlroots", u, q) /\ q.down = keys /\ q.mask = bits =>
             Leads("wlroots", u, <<>>, q, keys, bits)
      BY LeadsNowhere
    <3> QED BY <2>1, <3>1, LeadsBoth
  <2>3. Left(c, p.down) = keys /\ LeftMods(c, depressed) = bits
    BY <1>1 DEF Left, LeftMods, keys, bits
  <2>4. KeyRequests(c) = KeyPress(c) \o <<>>
    BY <1>1 DEF KeyRequests
  <2> QED BY <2>2, <2>3, <2>4
<1>2. CASE c.op = "Release"
  <2>1. Leads("wlroots", u, KeyRelease(c), p, p.down \ Own(c), depressed \ Bit(c.sym))
    BY <1>2, KeyReleaseRun
  <2>2. Left(c, p.down) = p.down \ Own(c) /\ LeftMods(c, depressed) = depressed \ Bit(c.sym)
    BY <1>2 DEF Left, LeftMods
  <2>3. Leads("wlroots", u, <<>> \o KeyRelease(c), p, Left(c, p.down), LeftMods(c, depressed))
    <3> DEFINE k == Left(c, p.down)
               m == LeftMods(c, depressed)
               t == KeyRelease(c)
    <3>1. Leads("wlroots", u, t, p, k, m)
      BY <2>1, <2>2
    <3>2. PICK q : /\ Run("wlroots", u, t, p, q) /\ Ready("wlroots", u, q) /\ Apart(p, q)
                   /\ q.down = k /\ q.mask = m
      BY <3>1 DEF Leads
    <3>3. Run("wlroots", u, <<>> \o t, p, q)
      BY <3>2, RunNone, RunBoth
    <3> QED BY <3>2, <3>3 DEF Leads
  <2>4. KeyRequests(c) = <<>> \o KeyRelease(c)
    BY <1>2 DEF KeyRequests
  <2> QED BY <2>3, <2>4
<1>3. CASE c.op = "PressRelease"
  <2>1. Leads("wlroots", u, KeyPress(c), p, keys, bits)
    BY <1>3, KeyPressRun DEF Reads
  <2>2. c.sym \notin Mods => bits = depressed
    BY DEF Bit
  <2>3. keys \ Own(c) = Left(c, p.down) /\ depressed \ Bit(c.sym) = LeftMods(c, depressed)
    BY <1>3 DEF Left, LeftMods
  <2> HIDE DEF keys, bits
  <2>4. ASSUME NEW q, Ready("wlroots", u, q), q.down = keys, q.mask = bits
        PROVE  Leads("wlroots", u, KeyRelease(c), q, Left(c, p.down), LeftMods(c, depressed))
    <3>1. Leads("wlroots", u, KeyRelease(c), q, q.down \ Own(c), depressed \ Bit(c.sym))
      BY <2>2, <2>4, KeyReleaseRun
    <3> QED BY <2>3, <2>4, <3>1
  <2>5. Leads("wlroots", u, KeyPress(c) \o KeyRelease(c), p, Left(c, p.down), LeftMods(c, depressed))
    BY <2>1, <2>4, LeadsBoth
  <2>6. KeyRequests(c) = KeyPress(c) \o KeyRelease(c)
    BY <1>3 DEF KeyRequests
  <2> QED BY <2>5, <2>6
<1> QED BY <1>1, <1>2, <1>3

\* The frames of uinput.
LEMMA FrameRun ==
    ASSUME NEW u, NEW p, Ready("uinput", u, p), NEW c \in CallSet, c.sym \in DOMAIN Layout,
           c.op # "Release" => (c.sym \notin Mods => \A m \in c.chord : BitOf[m] \in p.mask)
    PROVE  /\ Leads("uinput", u, KeyFrame(c), p, Left(c, p.down), Bits(Left(c, p.down)))
           /\ c.op = "Type" =>
              Leads("uinput", u, TextFrame(c), p, Left(c, p.down), Bits(Left(c, p.down)))
<1> DEFINE Press == Struck(c, TRUE)
           Release == Struck(c, FALSE)
           keys == p.down \cup Own(c)
           k == Left(c, p.down)
<1>1. c.op # "Release" => Leads("uinput", u, Press, p, keys, Bits(keys))
  <2>1. ASSUME c.op # "Release"
        PROVE  Leads("uinput", u, Press, p, keys, Derived("uinput", keys, p.mask))
    BY <2>1, StruckDown
  <2> QED BY <2>1 DEF Derived
<1>2. ASSUME NEW z, Ready("uinput", u, z)
      PROVE  Leads("uinput", u, Release, z, z.down \ Own(c), Bits(z.down \ Own(c)))
  <2>1. Leads("uinput", u, Release, z, z.down \ Own(c), Derived("uinput", z.down \ Own(c), z.mask))
    BY <1>2, StruckUp
  <2> QED BY <2>1 DEF Derived
<1>3. keys \ Own(c) = p.down \ Own(c)
  OBVIOUS
<1>4. k = IF c.op = "Press" THEN keys ELSE p.down \ Own(c)
  BY DEF Left
<1> HIDE DEF Press, Release, keys, k
<1>5. ASSUME c.op # "Release"
      PROVE  Leads("uinput", u, Press \o Release, p, p.down \ Own(c), Bits(p.down \ Own(c)))
  <2>1. ASSUME NEW q, Ready("uinput", u, q), q.down = keys, q.mask = Bits(keys)
        PROVE  Leads("uinput", u, Release, q, p.down \ Own(c), Bits(p.down \ Own(c)))
    BY <1>2, <1>3, <2>1
  <2> QED BY <1>1, <1>5, <2>1, LeadsBoth
<1>6. KeyFrame(c) = (IF c.op = "Release" THEN <<>> ELSE Press)
                      \o (IF c.op = "Press" THEN <<>> ELSE Release)
  BY DEF KeyFrame, Press, Release
<1>7. TextFrame(c) = Press \o Release
  BY DEF TextFrame, Press, Release
<1>8. CASE c.op = "Press"
  <2>1. \A q : Ready("uinput", u, q) /\ q.down = keys /\ q.mask = Bits(keys) =>
           Leads("uinput", u, <<>>, q, keys, Bits(keys))
    BY LeadsNowhere
  <2>2. Leads("uinput", u, Press \o <<>>, p, keys, Bits(keys))
    BY <1>1, <1>8, <2>1, LeadsBoth
  <2>3. KeyFrame(c) = Press \o <<>> /\ k = keys
    BY <1>4, <1>6, <1>8
  <2>4. Leads("uinput", u, KeyFrame(c), p, k, Bits(k))
    BY <2>2, <2>3
  <2> QED BY <1>8, <2>4 DEF k
<1>9. CASE c.op = "Release"
  <2>1. KeyFrame(c) = <<>> \o Release /\ k = p.down \ Own(c)
    BY <1>4, <1>6, <1>9
  <2>2. Leads("uinput", u, Release, p, k, Bits(k))
    BY <1>2, <2>1
  <2>3. PICK q : /\ Run("uinput", u, Release, p, q) /\ Ready("uinput", u, q) /\ Apart(p, q)
                 /\ q.down = k /\ q.mask = Bits(k)
    BY <2>2 DEF Leads
  <2>4. Run("uinput", u, <<>> \o Release, p, q)
    BY <2>3, RunNone, RunBoth
  <2>5. Leads("uinput", u, KeyFrame(c), p, k, Bits(k))
    BY <2>1, <2>3, <2>4 DEF Leads
  <2> QED BY <1>9, <2>5 DEF k
<1>10. CASE c.op \notin {"Press", "Release"}
  <2>1. KeyFrame(c) = Press \o Release /\ k = p.down \ Own(c)
    BY <1>4, <1>6, <1>10
  <2>2. Leads("uinput", u, KeyFrame(c), p, k, Bits(k)) /\ Leads("uinput", u, TextFrame(c), p, k, Bits(k))
    BY <1>5, <1>7, <1>10, <2>1
  <2> QED BY <2>2 DEF k
<1> QED BY <1>8, <1>9, <1>10

------------------------------------------------------------------------------
(* What is due after a call.                                               *)

LEMMA ModifierKeys ==
    ASSUME NEW m \in Mods
    PROVE  /\ m \in DOMAIN Layout /\ Layout[m].level = 0
           /\ \A s \in DOMAIN Layout : Layout[s].code = Layout[m].code => s = m
           /\ Layout[m].code \notin Foreign \cup (Leaves \ Mods)
BY KeyboardAssumption

LEMMA InBits ==
    ASSUME NEW keys, NEW b PROVE b \in Bits(keys) <=> \E m \in Mods : BitOf[m] = b /\ Layout[m].code \in keys
BY DEF Bits

\* Of the modifiers a call moves the keys of its own, and Shift.
LEMMA OwnModifiers ==
    ASSUME NEW c, c.sym \in DOMAIN Layout, NEW m \in Mods
    PROVE  /\ Layout[m].code \in Own(c) => m = c.sym \/ (Layout[c.sym].level = 1 /\ BitOf[m] = "Shift")
           /\ m = c.sym => Layout[m].code \in Own(c)
<1>1. Layout[m].code = Layout[c.sym].code => m = c.sym
  BY ModifierKeys
<1>2. Layout[c.sym].level = 1 => "Shift_L" \in DOMAIN Layout /\ BitOf["Shift_L"] = "Shift"
  BY KeyboardAssumption
<1>3. Layout[c.sym].level = 1 /\ Layout[m].code = Layout["Shift_L"].code => m = "Shift_L"
  BY <1>2, ModifierKeys
<1> QED BY <1>1, <1>2, <1>3 DEF Own

LEMMA MatchesLeft ==
    ASSUME NEW c, c.sym \in DOMAIN Layout, NEW untold, NEW after, untold \subseteq after,
           Layout[c.sym].level = 1 => "Shift" \in after,
           NEW keys, NEW bits, Matches(untold, keys, bits)
    PROVE  Matches(after, Left(c, keys), LeftMods(c, bits))
<1>1. ASSUME NEW b \in LeftMods(c, bits), b \notin after PROVE b \in Bits(Left(c, keys))
  <2>1. ASSUME b \in bits PROVE \E m \in Mods : BitOf[m] = b /\ Layout[m].code \in keys
    BY <1>1, <2>1, InBits DEF Matches
  <2>2. CASE c.op = "Press"
    <3>1. Left(c, keys) = keys \cup Own(c) /\ LeftMods(c, bits) = bits \cup Bit(c.sym)
      BY <2>2 DEF Left, LeftMods
    <3>2. CASE b \in bits
      BY <2>1, <3>1, <3>2, InBits
    <3>3. CASE b \in Bit(c.sym)
      <4>1. c.sym \in Mods /\ BitOf[c.sym] = b
        BY <3>3 DEF Bit
      <4> QED BY <3>1, <4>1, InBits, OwnModifiers
    <3> QED BY <1>1, <3>1, <3>2, <3>3
  <2>3. CASE c.op # "Press"
    <3>1. Left(c, keys) = keys \ Own(c) /\ LeftMods(c, bits) = bits \ Bit(c.sym)
      BY <2>3 DEF Left, LeftMods
    <3>2. PICK m \in Mods : BitOf[m] = b /\ Layout[m].code \in keys
      BY <1>1, <2>1, <3>1
    <3>3. m # c.sym
      BY <1>1, <3>1, <3>2 DEF Bit
    <3>4. Layout[m].code \notin Own(c)
      BY <1>1, <3>2, <3>3, OwnModifiers
    <3> QED BY <3>1, <3>2, <3>4, InBits
  <2> QED BY <2>2, <2>3
<1>2. ASSUME NEW b \in Bits(Left(c, keys)), b \notin after, b \notin Twofold
      PROVE  b \in LeftMods(c, bits)
  <2>1. PICK m \in Mods : BitOf[m] = b /\ Layout[m].code \in Left(c, keys)
    BY <1>2, InBits
  <2>2. ASSUME Layout[m].code \in keys PROVE b \in bits
    BY <1>2, <2>1, <2>2, InBits DEF Matches
  <2>3. Layout[m].code \in Own(c) => m = c.sym
    BY <1>2, <2>1, OwnModifiers
  <2>4. CASE c.op = "Press"
    <3>1. Left(c, keys) = keys \cup Own(c) /\ LeftMods(c, bits) = bits \cup Bit(c.sym)
      BY <2>4 DEF Left, LeftMods
    <3>2. m = c.sym => b \in Bit(c.sym)
      BY <2>1 DEF Bit
    <3> QED BY <2>1, <2>2, <2>3, <3>1, <3>2
  <2>5. CASE c.op # "Press"
    <3>1. Left(c, keys) = keys \ Own(c) /\ LeftMods(c, bits) = bits \ Bit(c.sym)
      BY <2>5 DEF Left, LeftMods
    <3>2. m # c.sym
      BY <2>1, <3>1, OwnModifiers
    <3>3. b \notin Bit(c.sym)
      BY <1>2, <2>1, <3>2 DEF Bit, Twofold
    <3> QED BY <2>1, <2>2, <3>1, <3>3
  <2> QED BY <2>4, <2>5
<1> QED BY <1>1, <1>2 DEF Matches

\* Where the modifiers are derived from the keys they match.
LEMMA MatchesDerived == ASSUME NEW untold, NEW keys PROVE Matches(untold, keys, Bits(keys))
BY DEF Matches

LEMMA FreedTail ==
    ASSUME NEW cs \in Seq(CallSet), cs # <<>>
    PROVE  /\ \A i \in Nat : i >= 1 => Freed(Tail(cs), i) = Freed(cs, i + 1)
           /\ \A m \in Freed(cs, 1) : m \in Freed(cs, 2) \/ Frees(Head(cs), m)
<1>1. Len(cs) \in Nat /\ Len(cs) >= 1 /\ Head(cs) = cs[1] /\ Len(Tail(cs)) = Len(cs) - 1
      /\ \A j \in 1..Len(Tail(cs)) : Tail(cs)[j] = cs[j + 1]
  OBVIOUS
<1>2. ASSUME NEW i \in Nat, i >= 1 PROVE Freed(Tail(cs), i) = Freed(cs, i + 1)
  <2>1. ASSUME NEW m \in Mods, NEW j \in i..Len(Tail(cs)), Frees(Tail(cs)[j], m)
        PROVE  \E k \in (i + 1)..Len(cs) : Frees(cs[k], m)
    <3>1. j + 1 \in (i + 1)..Len(cs) /\ Tail(cs)[j] = cs[j + 1]
      BY <1>1, <1>2
    <3> QED BY <2>1, <3>1
  <2>2. ASSUME NEW m \in Mods, NEW k \in (i + 1)..Len(cs), Frees(cs[k], m)
        PROVE  \E j \in i..Len(Tail(cs)) : Frees(Tail(cs)[j], m)
    <3>1. k - 1 \in i..Len(Tail(cs)) /\ k - 1 \in 1..Len(Tail(cs)) /\ (k - 1) + 1 = k
      BY <1>1, <1>2
    <3>2. Tail(cs)[k - 1] = cs[k]
      BY <1>1, <3>1
    <3> QED BY <2>2, <3>1, <3>2
  <2> QED BY <2>1, <2>2 DEF Freed
<1>3. ASSUME NEW m \in Freed(cs, 1) PROVE m \in Freed(cs, 2) \/ Frees(Head(cs), m)
  <2>1. m \in Mods /\ \E j \in 1..Len(cs) : Frees(cs[j], m)
    BY <1>3 DEF Freed
  <2>2. PICK j \in 1..Len(cs) : Frees(cs[j], m)
    BY <2>1
  <2>3. j = 1 \/ j \in 2..Len(cs)
    BY <1>1
  <2> QED BY <1>1, <2>1, <2>2, <2>3 DEF Freed
<1> QED BY <1>2, <1>3

\* A call leaves nothing down that is not yet to be released.
LEMMA PassingTail ==
    ASSUME NEW cs \in Seq(CallSet), cs # <<>>, NEW keys, NEW bits, Passing(cs, keys, bits),
           NEW after, NEW mods,
           \A k \in after : \/ k \in keys /\ (Head(cs).op = "Release" => k # Layout[Head(cs).sym].code)
                            \/ Head(cs).op = "Press" /\ k = Layout[Head(cs).sym].code,
           \A b \in mods : \/ b \in bits /\ (Head(cs).op = "Release" /\ Head(cs).sym \in Mods
                                                => b # BitOf[Head(cs).sym])
                           \/ Head(cs).op = "Press" /\ b = BitOf[Head(cs).sym]
    PROVE  Passing(Tail(cs), after, mods)
<1> DEFINE c == Head(cs)
<1>1. Len(cs) \in Nat /\ Len(cs) >= 1 /\ c = cs[1] /\ Len(Tail(cs)) = Len(cs) - 1
      /\ \A j \in 1..Len(Tail(cs)) : Tail(cs)[j] = cs[j + 1]
  OBVIOUS
<1>2. Freed(Tail(cs), 1) = Freed(cs, 2)
  <2>1. 1 \in Nat /\ 1 >= 1 /\ 1 + 1 = 2
    OBVIOUS
  <2> QED BY <2>1, FreedTail
<1>3. c.op = "Press" => c.sym \in Freed(cs, 2)
  <2>1. 1 \in 1..Len(cs) /\ 1 + 1 = 2
    BY <1>1
  <2>2. cs[1].op = "Press" => cs[1].sym \in Freed(cs, 1 + 1)
    BY <2>1 DEF Passing
  <2> QED BY <1>1, <2>1, <2>2
<1>4. ASSUME NEW m \in Freed(cs, 1), c.op # "Release" \/ c.sym # m PROVE m \in Freed(cs, 2)
  <2>1. ~Frees(c, m)
    BY <1>4 DEF Frees
  <2> QED BY <2>1, FreedTail
<1>5. ASSUME NEW k \in after PROVE \E m \in Freed(cs, 2) : k = Layout[m].code
  <2>1. CASE k \in keys /\ (c.op = "Release" => k # Layout[c.sym].code)
    <3>1. PICK m \in Freed(cs, 1) : k = Layout[m].code
      BY <2>1 DEF Passing
    <3>2. m \in Freed(cs, 2)
      BY <1>4, <2>1, <3>1
    <3> QED BY <3>1, <3>2
  <2>2. CASE c.op = "Press" /\ k = Layout[c.sym].code
    BY <1>3, <2>2
  <2> QED BY <1>5, <2>1, <2>2
<1>6. ASSUME NEW b \in mods PROVE \E m \in Freed(cs, 2) : b = BitOf[m]
  <2>1. CASE b \in bits /\ (c.op = "Release" /\ c.sym \in Mods => b # BitOf[c.sym])
    <3>1. PICK m \in Freed(cs, 1) : b = BitOf[m]
      BY <2>1 DEF Passing
    <3>2. m \in Mods
      BY <3>1 DEF Freed
    <3>3. m \in Freed(cs, 2)
      BY <1>4, <2>1, <3>1, <3>2
    <3> QED BY <3>1, <3>3
  <2>2. CASE c.op = "Press" /\ b = BitOf[c.sym]
    BY <1>3, <2>2
  <2> QED BY <1>6, <2>1, <2>2
<1>7. ASSUME NEW i \in 1..Len(Tail(cs)), Tail(cs)[i].op = "Press"
      PROVE  Tail(cs)[i].sym \in Freed(Tail(cs), i + 1)
  <2>1. i + 1 \in 1..Len(cs) /\ Tail(cs)[i] = cs[i + 1] /\ i + 1 \in Nat /\ i + 1 >= 1
    BY <1>1
  <2>2. cs[i + 1].sym \in Freed(cs, (i + 1) + 1)
    BY <1>7, <2>1 DEF Passing
  <2>3. Freed(Tail(cs), i + 1) = Freed(cs, (i + 1) + 1)
    BY <2>1, FreedTail
  <2> QED BY <2>1, <2>2, <2>3
<1> QED BY <1>2, <1>5, <1>6, <1>7 DEF Passing

LEMMA DueHead ==
    ASSUME NEW cs, NEW bits, Due(cs, bits), cs # <<>>
    PROVE  /\ cs \in Seq(CallSet) /\ Head(cs) \in CallSet
           /\ Head(cs).op = "Type" => Head(cs).sym \notin Mods /\ Head(cs).chord = {}
           /\ Head(cs).soft => Head(cs).op = "Release" /\ Head(cs).sym \in Mods
           /\ Reads(Head(cs)) => \A m \in Head(cs).chord : BitOf[m] \in bits
<1>1. cs \in Seq(CallSet)
  BY DEF Due
<1>2. Head(cs) \in CallSet /\ Head(cs) = cs[1] /\ 1 \in 1..Len(cs)
  BY <1>1
<1>3. \A j : j \notin 1..(1 - 1)
  OBVIOUS
<1>4. Reads(cs[1]) => \A m \in cs[1].chord : BitOf[m] \in bits
  BY <1>2, <1>3 DEF Due
<1> QED BY <1>1, <1>2, <1>4 DEF Due

LEMMA DueTail ==
    ASSUME NEW cs, NEW bits, Due(cs, bits), cs # <<>>, NEW after,
           Head(cs).op = "Press" /\ Head(cs).sym \in Mods =>
               bits \subseteq after /\ BitOf[Head(cs).sym] \in after
    PROVE  Due(Tail(cs), after)
<1> DEFINE t == Tail(cs)
<1>1. cs \in Seq(CallSet)
  BY DEF Due
<1>2. t \in Seq(CallSet) /\ Len(cs) \in Nat /\ Len(cs) >= 1 /\ Head(cs) = cs[1] /\ Len(t) = Len(cs) - 1
      /\ \A j \in 1..Len(t) : t[j] = cs[j + 1]
  BY <1>1
<1> HIDE DEF t
<1>3. ASSUME NEW i \in 1..Len(t)
      PROVE  /\ t[i].op = "Type" => t[i].sym \notin Mods /\ t[i].chord = {}
             /\ t[i].soft => t[i].op = "Release" /\ t[i].sym \in Mods
  <2>1. i + 1 \in 1..Len(cs) /\ t[i] = cs[i + 1]
    BY <1>2
  <2> QED BY <2>1 DEF Due
<1>4. ASSUME NEW i \in 1..Len(t), Reads(t[i])
      PROVE  /\ \A j \in 1..(i - 1) : t[j].op = "Press" /\ t[j].sym \in Mods
             /\ \A m \in t[i].chord : BitOf[m] \in after \/ \E j \in 1..(i - 1) : t[j].sym = m
  <2>1. i + 1 \in 1..Len(cs) /\ t[i] = cs[i + 1] /\ (i + 1) - 1 = i
    BY <1>2
  <2>2. /\ \A j \in 1..i : cs[j].op = "Press" /\ cs[j].sym \in Mods
        /\ \A m \in cs[i + 1].chord : BitOf[m] \in bits \/ \E j \in 1..i : cs[j].sym = m
    <3>1. PICK k \in 1..Len(cs) : k = i + 1
      BY <2>1
    <3>2. Reads(cs[k])
      BY <1>4, <2>1, <3>1
    <3>3. /\ \A j \in 1..(k - 1) : cs[j].op = "Press" /\ cs[j].sym \in Mods
          /\ \A m \in cs[k].chord : BitOf[m] \in bits \/ \E j \in 1..(k - 1) : cs[j].sym = m
      BY <3>2 DEF Due
    <3>4. k - 1 = i
      BY <2>1, <3>1
    <3> QED BY <3>1, <3>3, <3>4
  <2>3. ASSUME NEW j \in 1..(i - 1) PROVE j + 1 \in 1..i /\ t[j] = cs[j + 1]
    BY <1>2
  <2>4. 1 \in 1..i
    BY <1>2
  <2>5. bits \subseteq after /\ BitOf[cs[1].sym] \in after
    BY <1>2, <2>2, <2>4
  <2>6. ASSUME NEW m \in t[i].chord, BitOf[m] \notin after
        PROVE  \E j \in 1..(i - 1) : t[j].sym = m
    <3>1. PICK j \in 1..i : cs[j].sym = m
      BY <2>1, <2>2, <2>5, <2>6
    <3>2. j # 1
      BY <2>5, <2>6, <3>1
    <3>3. j - 1 \in 1..(i - 1) /\ (j - 1) + 1 = j
      BY <1>2, <3>2
    <3>4. t[j - 1] = cs[j]
      BY <2>3, <3>3
    <3> QED BY <3>1, <3>3, <3>4
  <2>7. \A j \in 1..(i - 1) : t[j].op = "Press" /\ t[j].sym \in Mods
    BY <2>2, <2>3
  <2> QED BY <2>6, <2>7
<1>5. Due(t, after)
  BY <1>2, <1>3, <1>4 DEF Due
<1> QED BY <1>5 DEF t

LEMMA NothingDue == ASSUME NEW bits PROVE Due(<<>>, bits)
<1>1. <<>> \in Seq(CallSet) /\ Len(<<>>) = 0
  OBVIOUS
<1> QED BY <1>1 DEF Due

\* Finish puts the sync of the call behind its requests.
Sync(rest) == [req |-> "sync", rest |-> rest]

Finishes(u, s, p, keys, bits, map, rest) ==
    \E q : /\ Run("wlroots", u, s, p, q) /\ Ready("wlroots", u, q)
           /\ q.down = keys /\ q.mask = bits /\ q.keymap = map /\ q.calls = rest

LEMMA FinishRun ==
    ASSUME NEW u, NEW p, NEW y, NEW w, NEW rest, Run("wlroots", u, w, p, y),
           Ready("wlroots", u, y)
    PROVE  Finishes(u, w \o <<Sync(rest)>>, p, y.down, y.mask, y.keymap, rest)
<1> DEFINE r == Sync(rest)
           q == Step("wlroots", r, y)
<1>1. r.req = "sync" /\ r.rest = rest
  BY DEF Sync
<1> HIDE DEF r
<1>2. q.down = y.down /\ q.mask = y.mask /\ q.keymap = y.keymap /\ q.reading = y.reading
  BY <1>1 DEF Step
<1>3. q.calls = rest
  BY <1>1 DEF Step
<1>4. ReadOk("wlroots", u, q.reading)
  BY <1>2 DEF Ready
<1>5. Run("wlroots", u, <<r>>, y, q)
  BY <1>4, RunOne
<1> HIDE DEF q
<1>6. Run("wlroots", u, w \o <<r>>, p, q)
  BY <1>5, RunBoth
<1>7. Ready("wlroots", u, q)
  BY <1>2 DEF Ready
<1> QED BY <1>2, <1>3, <1>6, <1>7 DEF r, Finishes

\* A character under a keymap made for it leaves nothing but the keymap, if it
\* is not restored.
LEMMA TransientRun ==
    ASSUME NEW u, NEW p, Ready("wlroots", u, p), NEW char, NEW restored \in BOOLEAN, restored \/ u
    PROVE  \E q : /\ Run("wlroots", u, Transient(char, restored), p, q) /\ Ready("wlroots", u, q)
                  /\ q.down = p.down \ {char} /\ q.mask = p.mask /\ q.calls = p.calls
                  /\ restored => q.keymap = "default"
<1> DEFINE b == "wlroots"
           put == Keymap("text")
           press == Key(char, TRUE, "text", char, {})
           release == Key(char, FALSE, "text", char, {})
           back == Keymap("default")
           p1 == Step(b, put, p)
           p2 == Step(b, press, p1)
           p3 == Step(b, release, p2)
           p4 == Step(b, back, p3)
<1>1. put.req = "keymap" /\ put.map = "text" /\ back.req = "keymap" /\ back.map = "default"
  BY DEF Keymap
<1>2. /\ press.req = "key" /\ press.on = TRUE /\ press.code = char /\ press.map = "text"
      /\ press.want = char /\ press.chord = {}
      /\ release.req = "key" /\ release.on = FALSE /\ release.code = char
  BY DEF Key
<1> HIDE DEF put, press, release, back
<1>3. p1.down = p.down /\ p1.mask = p.mask /\ p1.calls = p.calls /\ p1.keymap = "text"
      /\ p1.reading = p.reading
  BY <1>1 DEF Step
<1> HIDE DEF p1
<1>4. p2.down = p.down \cup {char} /\ p2.mask = p.mask /\ p2.calls = p.calls /\ p2.keymap = "text"
  BY <1>2, <1>3 DEF Step, Pressed
<1>5. p2.reading = p1.reading \/ p2.reading = Reading(press, "text", p.mask)
  BY <1>2, <1>3 DEF Step
<1>6. ReadOk(b, u, p.reading) /\ b \in {"wlroots", "uinput"}
  BY DEF Ready
<1>7. ReadOk(b, u, Reading(press, "text", p.mask))
  <2> DEFINE rd == Reading(press, "text", p.mask)
  <2>1. rd.want = char /\ rd.got = char /\ rd.chord = {} /\ rd.under = p.mask
    BY <1>2 DEF Reading
  <2> HIDE DEF rd
  <2>2. ReadOk(b, u, rd)
    BY <2>1 DEF ReadOk
  <2> QED BY <2>2 DEF rd
<1> HIDE DEF p2
<1>8. p3.down = p.down \ {char} /\ p3.mask = p.mask /\ p3.calls = p.calls /\ p3.keymap = "text"
  BY <1>2, <1>4 DEF Step, Pressed
<1>9. p3.reading = p2.reading
  BY <1>2 DEF Step, Seen
<1> HIDE DEF p3
<1>10. p4.down = p3.down /\ p4.mask = p3.mask /\ p4.calls = p3.calls /\ p4.keymap = "default"
       /\ p4.reading = p3.reading
  BY <1>1 DEF Step
<1> HIDE DEF p4
<1>11. ReadOk(b, u, p1.reading) /\ ReadOk(b, u, p2.reading) /\ ReadOk(b, u, p3.reading)
       /\ ReadOk(b, u, p4.reading)
  BY <1>3, <1>5, <1>6, <1>7, <1>9, <1>10
<1>12. Run(b, u, <<back>>, p3, p4)
  BY <1>11, RunOne DEF p4
<1>13. Run(b, u, <<put, press, release>>, p, p3)
  BY <1>11, RunThree DEF p1, p2, p3
<1>15. Transient(char, restored) = <<put, press, release>> \o (IF restored THEN <<back>> ELSE <<>>)
  BY DEF Transient, put, press, release, back
<1>16. CASE restored
  <2>1. Run(b, u, <<put, press, release>> \o <<back>>, p, p4)
    BY <1>12, <1>13, RunBoth
  <2>2. Ready(b, u, p4)
    BY <1>10, <1>11 DEF Ready
  <2> QED BY <1>8, <1>10, <1>15, <1>16, <2>1, <2>2
<1>17. CASE ~restored
  <2>1. Run(b, u, <<put, press, release>> \o <<>>, p, p3)
    BY <1>13, RunNone, RunBoth
  <2>2. Ready(b, u, p3)
    BY <1>11, <1>17 DEF Ready
  <2> QED BY <1>8, <1>15, <1>17, <2>1, <2>2
<1> QED BY <1>16, <1>17

LEMMA PassingLeft ==
    ASSUME NEW cs \in Seq(CallSet), cs # <<>>, NEW keys, NEW bits, Passing(cs, keys, bits),
           Head(cs).sym \in DOMAIN Layout
    PROVE  Passing(Tail(cs), Left(Head(cs), keys), LeftMods(Head(cs), bits))
<1> DEFINE c == Head(cs)
<1>1. ASSUME c.op = "Press" PROVE Own(c) = {Layout[c.sym].code}
  <2>1. 1 \in 1..Len(cs) /\ c = cs[1]
    OBVIOUS
  <2>2. c.sym \in Mods
    BY <1>1, <2>1 DEF Passing, Freed
  <2>3. Layout[c.sym].level # 1
    BY <2>2, ModifierKeys
  <2> QED BY <2>3 DEF Own
<1>2. Layout[c.sym].code \in Own(c)
  BY DEF Own
<1>3. \A k \in Left(c, keys) : \/ k \in keys /\ (c.op = "Release" => k # Layout[c.sym].code)
                               \/ c.op = "Press" /\ k = Layout[c.sym].code
  <2>1. CASE c.op = "Press"
    BY <1>1, <2>1 DEF Left
  <2>2. CASE c.op # "Press"
    BY <1>2, <2>2 DEF Left
  <2> QED BY <2>1, <2>2
<1>4. \A b \in LeftMods(c, bits) : \/ b \in bits /\ (c.op = "Release" /\ c.sym \in Mods => b # BitOf[c.sym])
                                   \/ c.op = "Press" /\ b = BitOf[c.sym]
  <2>1. CASE c.op = "Press"
    BY <2>1 DEF LeftMods, Bit
  <2>2. CASE c.op # "Press"
    BY <2>2 DEF LeftMods, Bit
  <2> QED BY <2>1, <2>2
<1> QED BY <1>3, <1>4, PassingTail

\* Where the modifiers are derived from the keys, the keys are all there is.
LEMMA PassingDerived ==
    ASSUME NEW cs, NEW keys, NEW bits, Passing(cs, keys, bits) PROVE Passing(cs, keys, Bits(keys))
<1>1. ASSUME NEW b \in Bits(keys) PROVE b \in {BitOf[m] : m \in Freed(cs, 1)}
  <2>1. PICK n \in Mods : BitOf[n] = b /\ Layout[n].code \in keys
    BY <1>1, InBits
  <2>2. PICK m \in Freed(cs, 1) : Layout[n].code = Layout[m].code
    BY <2>1 DEF Passing
  <2>3. m \in Mods
    BY <2>2 DEF Freed
  <2>4. m = n
    BY <2>2, <2>3, ModifierKeys
  <2> QED BY <2>1, <2>2, <2>4
<1> QED BY <1>1 DEF Passing

------------------------------------------------------------------------------
(* Steps.                                                                  *)

LEMMA ReadIs == KeysymRead <=> ReadOk(backend, Unrestored, reading)
BY DEF KeysymRead, OtherLevel, ReadOk, Unrestored

\* When nothing is on its way the compositor is where it ends.
LEMMA NowEnds == ASSUME Reckoned, line = <<>> PROVE Ends(Now)
<1>1. PICK p : Run(backend, Unrestored, line, Now, p) /\ Ends(p)
  BY DEF Reckoned
<1>2. p = Now
  BY <1>1, RunOver
<1> QED BY <1>1, <1>2

LEMMA ServeReckons ==
    ASSUME Inv, Reckoned, backend = "wlroots", backend' = backend, Serve  PROVE Reckoned'
<1> DEFINE c == Head(calls)
           u == Unrestored
<1>1. calls # <<>> /\ line = <<>> /\ count' = count /\ down' = down /\ mask' = mask
      /\ keymap' = keymap /\ reading' = reading /\ holding' = holding
  BY DEF Serve
<1>2. DoKey(c) \/ DoTransient(c) \/ Refuse(c)
  BY DEF Serve
<1>3. calls' = calls
  BY <1>2 DEF DoKey, DoTransient, Refuse, Finish
<1>4. Now' = Now
  BY <1>1, <1>3 DEF Now
<1>5. Ends(Now)
  BY <1>1, NowEnds
<1>6. Now.down = down /\ Now.mask = mask /\ Now.keymap = keymap /\ Now.calls = calls
  BY DEF Now
<1>7. /\ Ready("wlroots", u, Now) /\ Due(calls, mask) /\ Matches(Untold, down, mask)
      /\ mask = depressed
      /\ ~holding /\ mishaps \subseteq {"unadvertised"} => keymap = "default" /\ Passing(calls, down, mask)
  BY <1>1, <1>5, <1>6 DEF Ends, Todo
<1>8. mishaps \subseteq mishaps'
  BY <1>2 DEF DoKey, DoTransient, Refuse
<1>9. Unrestored => Unrestored'
  BY <1>8 DEF Unrestored
<1>10. KeysymRead'
  BY <1>1, <1>9 DEF Reckoned, KeysymRead, OtherLevel, Unrestored
<1>11. ASSUME NEW q, Run("wlroots", Unrestored', line', Now, q), Ready("wlroots", Unrestored', q),
              Due(q.calls, q.mask), Matches(Untold', q.down, q.mask), q.mask = depressed',
              ~holding /\ mishaps' \subseteq {"unadvertised"} =>
                  q.keymap = "default" /\ Passing(q.calls, q.down, q.mask)
       PROVE  Reckoned'
  <2>1. Ends(q)'
    BY <1>1, <1>11 DEF Ends, Todo
  <2>2. Run(backend, Unrestored, line, Now, q)'
    BY <1>4, <1>11
  <2>3. (\E p : Run(backend, Unrestored, line, Now, p) /\ Ends(p))'
    BY <2>1, <2>2
  <2> QED BY <1>10, <2>3 DEF Reckoned
<1>12. c \in CallSet /\ calls \in Seq(CallSet)
       /\ (c.op = "Type" => c.sym \notin Mods)
       /\ (c.soft => c.op = "Release" /\ c.sym \in Mods)
       /\ (Reads(c) => \A m \in c.chord : BitOf[m] \in mask)
  BY <1>1, <1>7, DueHead
<1>13. CASE DoKey(c)
  <2>1. c.op \in {"Press", "Release", "PressRelease"} /\ c.sym \in DOMAIN Layout
        /\ Finish(KeyRequests(c), Tail(calls)) /\ depressed' = LeftMods(c, depressed)
    BY <1>13 DEF DoKey, KeyRequests, LeftMods
  <2>2. mishaps' = IF Layout[c.sym].level = 1 THEN mishaps \cup {"unadvertised"} ELSE mishaps
    BY <1>13 DEF DoKey
  <2>3. Unrestored' = u
    BY <2>2 DEF Unrestored
  <2>4. Leads("wlroots", u, KeyRequests(c), Now, Left(c, down), LeftMods(c, depressed))
    BY <1>6, <1>7, <1>12, <2>1, KeyRequestsRun
  <2>5. PICK y : /\ Run("wlroots", u, KeyRequests(c), Now, y) /\ Ready("wlroots", u, y) /\ Apart(Now, y)
                 /\ y.down = Left(c, down) /\ y.mask = LeftMods(c, depressed)
    BY <2>4 DEF Leads
  <2>6. PICK q : /\ Run("wlroots", u, line', Now, q) /\ Ready("wlroots", u, q)
                 /\ q.down = y.down /\ q.mask = y.mask /\ q.keymap = y.keymap /\ q.calls = Tail(calls)
    <3>1. line' = KeyRequests(c) \o <<Sync(Tail(calls))>>
      BY <2>1 DEF Finish, Sync
    <3>2. Finishes(u, KeyRequests(c) \o <<Sync(Tail(calls))>>, Now, y.down, y.mask, y.keymap, Tail(calls))
      BY <2>5, FinishRun
    <3> QED BY <3>1, <3>2 DEF Finishes
  <2>7. c.op = "Press" /\ c.sym \in Mods => mask \subseteq q.mask /\ BitOf[c.sym] \in q.mask
    BY <1>7, <2>5, <2>6 DEF LeftMods, Bit
  <2>8. Due(q.calls, q.mask)
    BY <1>1, <1>7, <2>6, <2>7, DueTail
  <2>9. Untold \subseteq Untold' /\ (Layout[c.sym].level = 1 => "Shift" \in Untold')
    BY <2>2 DEF Untold
  <2>10. Matches(Untold', q.down, q.mask)
    BY <1>7, <2>1, <2>5, <2>6, <2>9, MatchesLeft
  <2>11. ASSUME ~holding, mishaps' \subseteq {"unadvertised"}
         PROVE  q.keymap = "default" /\ Passing(q.calls, q.down, q.mask)
    <3>1. keymap = "default" /\ Passing(calls, down, mask)
      BY <1>7, <1>8, <2>11
    <3>2. Passing(Tail(calls), Left(c, down), LeftMods(c, mask))
      BY <1>1, <1>12, <2>1, <3>1, PassingLeft
    <3> QED BY <1>6, <1>7, <2>5, <2>6, <3>1, <3>2 DEF Apart
  <2> QED BY <1>11, <2>1, <2>3, <2>5, <2>6, <2>8, <2>10, <2>11
<1>14. CASE DoTransient(c)
  <2>1. c.op \in {"Type", "PressRelease"} /\ (c.op # "Type" => c.sym \in Foreign)
    BY <1>14 DEF DoTransient
  <2>2. PICK restored \in BOOLEAN :
           /\ Finish(Transient(c.sym, restored), Tail(calls))
           /\ mishaps' = IF restored THEN mishaps ELSE mishaps \cup {"unrestored"}
    BY <1>14 DEF DoTransient
  <2>3. depressed' = depressed
    BY <1>14 DEF DoTransient
  <2>4. restored \/ Unrestored'
    BY <2>2 DEF Unrestored
  <2>5. Ready("wlroots", Unrestored', Now)
    BY <1>7, <1>9 DEF Ready, ReadOk
  <2>6. PICK y : /\ Run("wlroots", Unrestored', Transient(c.sym, restored), Now, y)
                 /\ Ready("wlroots", Unrestored', y)
                 /\ y.down = down \ {c.sym} /\ y.mask = mask
                 /\ restored => y.keymap = "default"
    BY <1>6, <2>4, <2>5, TransientRun
  <2>7. PICK q : /\ Run("wlroots", Unrestored', line', Now, q) /\ Ready("wlroots", Unrestored', q)
                 /\ q.down = y.down /\ q.mask = y.mask /\ q.keymap = y.keymap /\ q.calls = Tail(calls)
    <3>1. line' = Transient(c.sym, restored) \o <<Sync(Tail(calls))>>
      BY <2>2 DEF Finish, Sync
    <3>2. Finishes(Unrestored', Transient(c.sym, restored) \o <<Sync(Tail(calls))>>, Now,
                   y.down, y.mask, y.keymap, Tail(calls))
      BY <2>6, FinishRun
    <3> QED BY <3>1, <3>2 DEF Finishes
  <2>8. Due(q.calls, q.mask)
    BY <1>1, <1>7, <2>1, <2>7, DueTail
  <2>9. Untold' = Untold
    BY <2>2 DEF Untold
  <2>10. Bits(down \ {c.sym}) = Bits(down)
    <3>1. c.sym \in Foreign \cup (Leaves \ Mods)
      BY <1>12, <2>1 DEF CallSet
    <3>2. \A m \in Mods : Layout[m].code # c.sym
      BY <3>1, ModifierKeys
    <3> QED BY <3>2 DEF Bits
  <2>11. Matches(Untold', q.down, q.mask)
    BY <1>7, <2>6, <2>7, <2>9, <2>10 DEF Matches
  <2>12. ASSUME ~holding, mishaps' \subseteq {"unadvertised"}
         PROVE  q.keymap = "default" /\ Passing(q.calls, q.down, q.mask)
    <3>1. keymap = "default" /\ Passing(calls, down, mask)
      BY <1>7, <1>8, <2>12
    <3>2. restored
      BY <2>2, <2>12
    <3>3. Passing(Tail(calls), down \ {c.sym}, mask)
      BY <1>1, <1>12, <2>1, <3>1, PassingTail
    <3> QED BY <2>6, <2>7, <3>2, <3>3
  <2> QED BY <1>7, <1>11, <2>3, <2>6, <2>7, <2>8, <2>11, <2>12
<1>15. CASE Refuse(c)
  <2>1. ~c.soft
    BY <1>12, <1>15, ModifierKeys DEF Refuse
  <2>2. Finish(<<>>, <<>>) /\ mishaps' = mishaps \cup {"refused"} /\ depressed' = depressed
    BY <1>15, <2>1 DEF Refuse
  <2>3. Unrestored' = u /\ Untold' = Untold
    BY <2>2 DEF Unrestored, Untold
  <2>4. PICK q : /\ Run("wlroots", u, line', Now, q) /\ Ready("wlroots", u, q)
                 /\ q.down = down /\ q.mask = mask /\ q.calls = <<>>
    <3>1. Finishes(u, <<>> \o <<Sync(<<>>)>>, Now, Now.down, Now.mask, Now.keymap, <<>>)
      BY <1>7, RunNone, FinishRun
    <3>2. line' = <<>> \o <<Sync(<<>>)>>
      BY <2>2 DEF Finish, Sync
    <3> QED BY <1>6, <3>1, <3>2 DEF Finishes
  <2>5. Due(q.calls, q.mask)
    BY <2>4, NothingDue
  <2> QED BY <1>7, <1>11, <2>2, <2>3, <2>4, <2>5
<1> QED BY <1>2, <1>13, <1>14, <1>15

\* The state that is reached is the same before and after the compositor reads
\* what is first.
LEMMA HeadRead ==
    ASSUME Reckoned, line # <<>>, line' = Tail(line), backend' = backend,
           Now' = Step(backend, Head(line), Now),
           UNCHANGED <<count, depressed, holding, mishaps>>, backend = "uinput" => calls' = calls,
           backend = "uinput" => keymap' = "default" /\ mask' = Bits(down)'
    PROVE  Reckoned'
<1> DEFINE z == Step(backend, Head(line), Now)
           u == Unrestored
<1>1. PICK p : Run(backend, u, line, Now, p) /\ Ends(p)
  BY DEF Reckoned
<1>2. ReadOk(backend, u, z.reading) /\ Run(backend, u, Tail(line), z, p)
  BY <1>1, RunHead
<1>3. u' = u /\ Untold' = Untold
  BY DEF Unrestored, Untold
<1> HIDE DEF z, u
<1>4. Now' = z
  BY DEF z
<1>5. reading' = z.reading
  <2>1. (Now.reading)' = reading'
    BY DEF Now
  <2> QED BY <1>4, <2>1
<1>6. KeysymRead'
  <2>1. ReadOk(backend, Unrestored, reading)'
    BY <1>2, <1>3, <1>5 DEF u
  <2>2. (KeysymRead <=> ReadOk(backend, Unrestored, reading))'
    BY ReadIs, PTL
  <2> QED BY <2>1, <2>2
<1>7. Run(backend, Unrestored, line, Now, p)'
  BY <1>2, <1>3, <1>4 DEF u
<1>8. Ends(p)'
  <2>1. Todo(p)' = Todo(p)
    <3>1. CASE backend = "wlroots"
      BY <3>1 DEF Todo
    <3>2. CASE backend = "uinput"
      BY <3>2 DEF Todo
    <3> QED BY <3>1, <3>2 DEF Reckoned
  <2> QED BY <1>1, <1>3, <2>1 DEF Ends, u
<1>9. (\E q : Run(backend, Unrestored, line, Now, q) /\ Ends(q))'
  BY <1>7, <1>8
<1>10. backend' \in {"wlroots", "uinput"} /\ (backend' = "uinput" => keymap' = "default" /\ mask' = Bits(down)')
  BY DEF Reckoned
<1> QED BY <1>6, <1>9, <1>10 DEF Reckoned

LEMMA ApplyReckons ==
    ASSUME Reckoned, backend = "wlroots", backend' = backend, ApplyRequest PROVE Reckoned'
<1> DEFINE r == Head(line)
<1>1. Now' = Step("wlroots", r, Now)
  <2> DEFINE z == Step("wlroots", r, Now)
  <2>1. /\ Now.down = down /\ Now.mask = mask /\ Now.keymap = keymap /\ Now.reading = reading
        /\ Now.calls = calls
    BY DEF Now
  <2>2. Now' = [down |-> down', mask |-> mask', keymap |-> keymap', reading |-> reading', calls |-> calls']
    BY DEF Now
  <2>3. CASE r.req = "modifiers"
    <3>1. mask' = r.bits /\ UNCHANGED <<calls, down, keymap, reading>>
      BY <2>3 DEF ApplyRequest
    <3>2. z = [down |-> down, mask |-> r.bits, keymap |-> keymap, calls |-> calls, reading |-> reading]
      BY <2>1, <2>3 DEF Step
    <3> QED BY <2>2, <3>1, <3>2
  <2>4. CASE r.req = "keymap"
    <3>1. keymap' = r.map /\ UNCHANGED <<calls, down, mask, reading>>
      BY <2>4 DEF ApplyRequest
    <3>2. z = [down |-> down, mask |-> mask, keymap |-> r.map, calls |-> calls, reading |-> reading]
      BY <2>1, <2>4 DEF Step
    <3> QED BY <2>2, <3>1, <3>2
  <2>5. CASE r.req = "key"
    <3>1. UNCHANGED <<calls, mask, keymap>> /\ down' = Pressed(r, down)
      BY <2>5 DEF ApplyRequest, Pressed
    <3>2. reading' = IF Seen("wlroots", r, Now) THEN Reading(r, keymap, mask) ELSE reading
      BY <2>5 DEF ApplyRequest, Seen
    <3>3. z = [down |-> Pressed(r, down), mask |-> mask, keymap |-> keymap, calls |-> calls,
               reading |-> IF Seen("wlroots", r, Now) THEN Reading(r, keymap, mask) ELSE reading]
      BY <2>1, <2>5 DEF Step
    <3> QED BY <2>2, <3>1, <3>2, <3>3
  <2>6. CASE r.req = "sync"
    <3>1. calls' = r.rest /\ UNCHANGED <<down, mask, keymap, reading>>
      BY <2>6 DEF ApplyRequest
    <3>2. z = [down |-> down, mask |-> mask, keymap |-> keymap, calls |-> r.rest, reading |-> reading]
      BY <2>1, <2>6 DEF Step
    <3> QED BY <2>2, <3>1, <3>2
  <2> QED BY <2>3, <2>4, <2>5, <2>6 DEF ApplyRequest
<1>2. line # <<>> /\ line' = Tail(line) /\ UNCHANGED <<count, depressed, holding, mishaps>>
  BY DEF ApplyRequest
<1> QED BY <1>1, <1>2, HeadRead

LEMMA ReadReckons ==
    ASSUME Reckoned, backend = "uinput", ReadEvent, UNCHANGED <<depressed, keymap, backend>>
    PROVE  Reckoned'
<1> DEFINE r == Head(line)
           z == Step("uinput", r, Now)
<1>1. line # <<>> /\ line' = Tail(line) /\ UNCHANGED <<count, calls, holding, mishaps>>
  BY DEF ReadEvent
<1>2. down' = Pressed(r, down) /\ mask' = Bits(Pressed(r, down)) /\ keymap' = "default"
  BY DEF ReadEvent, Pressed, Reckoned
<1>3. reading' = IF Seen("uinput", r, Now) THEN Reading(r, keymap, mask) ELSE reading
  BY DEF ReadEvent, Seen, Now, Reckoned
<1>4. /\ Now.down = down /\ Now.mask = mask /\ Now.keymap = keymap /\ Now.reading = reading
      /\ Now.calls = <<>>
  BY DEF Now
<1>5. Now' = [down |-> down', mask |-> mask', keymap |-> keymap', reading |-> reading', calls |-> <<>>]
  BY DEF Now
<1>6. z = [down |-> Pressed(r, down), mask |-> Bits(Pressed(r, down)), keymap |-> keymap, calls |-> <<>>,
           reading |-> IF Seen("uinput", r, Now) THEN Reading(r, keymap, mask) ELSE reading]
  BY <1>4 DEF Step
<1>7. Now' = z
  BY <1>2, <1>3, <1>5, <1>6
<1>8. mask' = Bits(down)'
  BY <1>2 DEF Bits
<1> QED BY <1>1, <1>2, <1>7, <1>8, HeadRead

LEMMA WriteReckons ==
    ASSUME Reckoned, backend = "uinput", WriteCall, UNCHANGED <<depressed, keymap, backend>>
    PROVE  Reckoned'
<1> DEFINE c == Head(calls)
           u == Unrestored
<1>1. calls # <<>> /\ UNCHANGED <<count, down, mask, reading, holding>>
  BY DEF WriteCall
<1>2. \/ c.op # "Type" /\ c.sym \in DOMAIN Layout /\ Write(KeyFrame(c))
      \/ c.op = "Type" /\ Write(TextFrame(c))
      \/ NotFound(c)
  BY DEF WriteCall
<1>3. Now' = Now
  BY <1>1 DEF Now
<1>4. PICK p : Run("uinput", u, line, Now, p) /\ Ends(p)
  BY DEF Reckoned
<1>5. /\ Ready("uinput", u, p) /\ p.mask = Bits(p.down) /\ p.keymap = "default"
      /\ Due(calls, p.mask) /\ Matches(Untold, p.down, p.mask)
      /\ ~holding /\ mishaps \subseteq {"unadvertised"} => Passing(calls, p.down, p.mask)
  BY <1>4 DEF Ends, Todo, Ready
<1>6. mishaps \subseteq mishaps' /\ Unrestored' = u /\ Untold' = Untold
  BY <1>2 DEF Write, NotFound, Unrestored, Untold
<1>7. KeysymRead'
  BY <1>1, <1>6 DEF Reckoned, KeysymRead, OtherLevel, Unrestored
<1>8. keymap' = "default" /\ mask' = Bits(down)'
  BY <1>1 DEF Reckoned, Bits
<1>9. ASSUME NEW q, Run("uinput", u, line', Now, q), Ready("uinput", u, q),
             Due(calls', q.mask), Matches(Untold, q.down, q.mask),
             ~holding /\ mishaps' \subseteq {"unadvertised"} => Passing(calls', q.down, q.mask)
      PROVE  Reckoned'
  <2>1. q.keymap = "default"
    BY <1>9 DEF Ready
  <2>2. Ends(q)'
    BY <1>1, <1>6, <1>9, <2>1 DEF Ends, Todo
  <2>3. Run(backend, Unrestored, line, Now, q)'
    BY <1>3, <1>6, <1>9
  <2>4. (\E z : Run(backend, Unrestored, line, Now, z) /\ Ends(z))'
    BY <2>2, <2>3
  <2> QED BY <1>7, <1>8, <2>4 DEF Reckoned
<1>10. c \in CallSet /\ calls \in Seq(CallSet)
       /\ (c.op = "Type" => c.chord = {})
       /\ (c.soft => c.op = "Release" /\ c.sym \in Mods)
       /\ (Reads(c) => \A m \in c.chord : BitOf[m] \in p.mask)
  BY <1>1, <1>5, DueHead
<1> HIDE DEF c, u
<1>11. ASSUME c.sym \in DOMAIN Layout, NEW frame, Write(frame),
              Leads("uinput", u, frame, p, Left(c, p.down), Bits(Left(c, p.down)))
       PROVE  Reckoned'
  <2>1. PICK q : /\ Run("uinput", u, frame, p, q) /\ Ready("uinput", u, q)
                 /\ q.down = Left(c, p.down) /\ q.mask = Bits(q.down)
    BY <1>11 DEF Leads
  <2>2. line' = line \o frame /\ calls' = Tail(calls) /\ mishaps' = mishaps
    BY <1>11 DEF Write
  <2>3. Run("uinput", u, line', Now, q)
    BY <1>4, <2>1, <2>2, RunBoth
  <2>4. c.op = "Press" /\ c.sym \in Mods => p.mask \subseteq q.mask /\ BitOf[c.sym] \in q.mask
    <3>1. SUFFICES ASSUME c.op = "Press", c.sym \in Mods
                   PROVE  p.mask \subseteq q.mask /\ BitOf[c.sym] \in q.mask
      OBVIOUS
    <3>2. q.down = p.down \cup Own(c)
      BY <2>1, <3>1 DEF Left
    <3>3. p.mask \subseteq q.mask
      BY <1>5, <2>1, <3>2, BitsGrow
    <3>4. Layout[c.sym].code \in q.down
      BY <3>2 DEF Own
    <3> QED BY <2>1, <3>1, <3>3, <3>4, InBits
  <2>5. Due(calls', q.mask)
    BY <1>1, <1>5, <2>2, <2>4, DueTail DEF c
  <2>6. Matches(Untold, q.down, q.mask)
    BY <2>1, MatchesDerived
  <2>7. ASSUME ~holding, mishaps' \subseteq {"unadvertised"} PROVE Passing(calls', q.down, q.mask)
    <3>1. Passing(calls, p.down, p.mask)
      BY <1>5, <1>6, <2>7
    <3>2. Passing(Tail(calls), Left(c, p.down), LeftMods(c, p.mask))
      BY <1>1, <1>10, <1>11, <3>1, PassingLeft DEF c
    <3> QED BY <2>1, <2>2, <3>2, PassingDerived
  <2> QED BY <1>9, <2>1, <2>3, <2>5, <2>6, <2>7
<1>12. ASSUME c.sym \in DOMAIN Layout
       PROVE  /\ c.op # "Type" =>
                 Leads("uinput", u, KeyFrame(c), p, Left(c, p.down), Bits(Left(c, p.down)))
              /\ c.op = "Type" =>
                 Leads("uinput", u, TextFrame(c), p, Left(c, p.down), Bits(Left(c, p.down)))
  <2>1. c.op # "Release" => (c.sym \notin Mods => \A m \in c.chord : BitOf[m] \in p.mask)
    BY <1>10 DEF Reads, CallSet
  <2> QED BY <1>5, <1>10, <1>12, <2>1, FrameRun
<1>13. CASE c.op # "Type" /\ c.sym \in DOMAIN Layout /\ Write(KeyFrame(c))
  BY <1>11, <1>12, <1>13
<1>14. CASE c.op = "Type" /\ Write(TextFrame(c))
  <2>1. CASE c.sym \in DOMAIN Layout
    BY <1>11, <1>12, <1>14, <2>1
  <2>2. CASE c.sym \notin DOMAIN Layout
    <3>1. line' = line \o <<>> /\ calls' = Tail(calls) /\ mishaps' = mishaps
      BY <1>14, <2>2 DEF Write, TextFrame
    <3>2. Run("uinput", u, line', Now, p)
      BY <1>4, <3>1, RunNone, RunBoth
    <3>3. Due(calls', p.mask)
      BY <1>1, <1>5, <1>14, <3>1, DueTail DEF c
    <3>4. ASSUME ~holding, mishaps' \subseteq {"unadvertised"} PROVE Passing(calls', p.down, p.mask)
      <4>1. Passing(calls, p.down, p.mask)
        BY <1>5, <1>6, <3>4
      <4> QED BY <1>1, <1>10, <1>14, <3>1, <4>1, PassingTail DEF c
    <3> QED BY <1>5, <1>9, <3>2, <3>3, <3>4
  <2> QED BY <2>1, <2>2
<1>15. CASE NotFound(c)
  <2>1. ~c.soft
    BY <1>10, <1>15, ModifierKeys DEF NotFound
  <2>2. calls' = <<>> /\ mishaps' = mishaps \cup {"refused"} /\ line' = line
    BY <1>15, <2>1 DEF NotFound
  <2>3. Due(calls', p.mask)
    BY <2>2, NothingDue
  <2> QED BY <1>4, <1>5, <1>9, <2>2, <2>3
<1> QED BY <1>2, <1>13, <1>14, <1>15 DEF c

------------------------------------------------------------------------------
(* The calls of a command.                                                 *)

Joins(S, a, b, s) ==
    /\ s \in Seq(S) /\ Len(s) = Len(a) + Len(b)
    /\ \A i \in 1..Len(a) : s[i] = a[i]
    /\ \A i \in 1..Len(b) : s[Len(a) + i] = b[i]

LEMMA TwoParts ==
    ASSUME NEW S, NEW a \in Seq(S), NEW b \in Seq(S) PROVE Joins(S, a, b, a \o b)
<1>1. a \o b \in Seq(S)
  OBVIOUS
<1>2. Len(a \o b) = Len(a) + Len(b) /\ Len(a) \in Nat /\ Len(b) \in Nat
  OBVIOUS
<1>3. ASSUME NEW i \in 1..Len(a) PROVE (a \o b)[i] = a[i]
  OBVIOUS
<1>4. ASSUME NEW i \in 1..Len(b) PROVE (a \o b)[Len(a) + i] = b[i]
  <2>1. Len(a) + i \in (Len(a) + 1)..(Len(a) + Len(b)) /\ (Len(a) + i) - Len(a) = i
    BY <1>2
  <2>2. \A k \in (Len(a) + 1)..(Len(a) + Len(b)) : (a \o b)[k] = b[k - Len(a)]
    OBVIOUS
  <2> QED BY <2>1, <2>2
<1> QED BY <1>1, <1>2, <1>3, <1>4 DEF Joins

JoinsThree(S, a, b, c, s) ==
    /\ s \in Seq(S) /\ Len(s) = (Len(a) + Len(b)) + Len(c)
    /\ \A i \in 1..Len(a) : s[i] = a[i]
    /\ \A i \in 1..Len(b) : s[Len(a) + i] = b[i]
    /\ \A i \in 1..Len(c) : s[(Len(a) + Len(b)) + i] = c[i]

LEMMA ThreeParts ==
    ASSUME NEW S, NEW a \in Seq(S), NEW b \in Seq(S), NEW c \in Seq(S)
    PROVE  JoinsThree(S, a, b, c, (a \o b) \o c)
<1> DEFINE t == a \o b
           s == t \o c
<1>1. Len(a) \in Nat /\ Len(b) \in Nat /\ Len(c) \in Nat
  OBVIOUS
<1>2. t \in Seq(S) /\ Len(t) = Len(a) + Len(b) /\ (\A i \in 1..Len(a) : t[i] = a[i])
      /\ (\A i \in 1..Len(b) : t[Len(a) + i] = b[i])
  <2>1. Joins(S, a, b, t)
    BY TwoParts
  <2> HIDE DEF t
  <2> QED BY <2>1 DEF Joins
<1> HIDE DEF t
<1>3. s \in Seq(S) /\ Len(s) = Len(t) + Len(c) /\ (\A i \in 1..Len(t) : s[i] = t[i])
      /\ (\A i \in 1..Len(c) : s[Len(t) + i] = c[i])
  <2>1. Joins(S, t, c, s)
    BY <1>2, TwoParts
  <2> HIDE DEF s
  <2> QED BY <2>1 DEF Joins
<1> HIDE DEF s
<1>4. \A i \in 1..Len(a) : i \in 1..Len(t)
  BY <1>1, <1>2
<1>5. \A i \in 1..Len(b) : Len(a) + i \in 1..Len(t)
  BY <1>1, <1>2
<1>6. s \in Seq(S) /\ Len(s) = (Len(a) + Len(b)) + Len(c)
  BY <1>2, <1>3
<1>7. \A i \in 1..Len(a) : s[i] = a[i]
  BY <1>2, <1>3, <1>4
<1>8. \A i \in 1..Len(b) : s[Len(a) + i] = b[i]
  BY <1>2, <1>3, <1>5
<1>9. \A i \in 1..Len(c) : s[(Len(a) + Len(b)) + i] = c[i]
  BY <1>2, <1>3
<1>10. JoinsThree(S, a, b, c, s)
  BY <1>6, <1>7, <1>8, <1>9 DEF JoinsThree
<1> QED BY <1>10 DEF s, t

LEMMA CallIs ==
    ASSUME NEW op, NEW sym, NEW soft, NEW chord
    PROVE  LET c == Call(op, sym, soft, chord)
           IN  /\ c.op = op /\ c.sym = sym /\ c.soft = soft /\ c.chord = chord
               /\ (/\ op \in {"Press", "Release", "PressRelease", "Type"} /\ sym \in Mods \cup Leaves
                   /\ soft \in BOOLEAN /\ chord \in SUBSET Mods) => c \in CallSet
BY DEF Call, CallSet

\* The calls s apply op to each of syms.
Applies(s, op, syms, chord) ==
    /\ s \in Seq(CallSet) /\ Len(s) = Len(syms)
    /\ \A i \in 1..Len(syms) : s[i] = Call(op, syms[i], FALSE, chord)

LEMMA ApplyIs ==
    ASSUME NEW op \in {"Press", "Release", "PressRelease"}, NEW syms \in Seq(Mods \cup Leaves),
           NEW chord \in SUBSET Mods
    PROVE  Applies(Apply(op, syms, chord), op, syms, chord)
<1> DEFINE s == Apply(op, syms, chord)
<1>1. Len(syms) \in Nat /\ \A i \in 1..Len(syms) : syms[i] \in Mods \cup Leaves
  OBVIOUS
<1>2. s = [i \in 1..Len(syms) |-> Call(op, syms[i], FALSE, chord)]
  BY DEF Apply
<1> HIDE DEF s
<1>3. \A i \in 1..Len(syms) : s[i] = Call(op, syms[i], FALSE, chord)
  BY <1>2
<1>4. \A i \in 1..Len(syms) : s[i] \in CallSet
  <2> SUFFICES ASSUME NEW i \in 1..Len(syms) PROVE Call(op, syms[i], FALSE, chord) \in CallSet
    BY <1>3
  <2>1. syms[i] \in Mods \cup Leaves
    BY <1>1
  <2> QED BY <2>1, CallIs
<1>5. s \in [1..Len(syms) -> CallSet]
  BY <1>2, <1>3, <1>4
<1>6. s \in Seq(CallSet) /\ Len(s) = Len(syms)
  BY <1>1, <1>5
<1>7. Applies(s, op, syms, chord)
  BY <1>3, <1>6 DEF Applies
<1> QED BY <1>7 DEF s

\* What run_key makes of a chord: k modifiers are pressed, then `call` is made of
\* its key, then l modifiers are released, the last one first.
ChordCalls(cs, ms, leaf, k, call, l) ==
    /\ cs \in Seq(CallSet) /\ Len(cs) = (k + 1) + l
    /\ \A i \in 1..k : cs[i] = Call("Press", ms[i], FALSE, ToSet(ms))
    /\ cs[k + 1] = Call(call, leaf, FALSE, ToSet(ms))
    /\ \A i \in 1..l : cs[(k + 1) + i] = Call("Release", ms[(Len(ms) - i) + 1], FALSE, ToSet(ms))

LEMMA CallsAre ==
    ASSUME NEW n \in Nat, NEW ms \in [1..n -> Mods], NEW leaf \in Leaves
    PROVE  /\ ChordCalls(Calls("key", ms, leaf), ms, leaf, n, "PressRelease", n)
           /\ ChordCalls(Calls("keydown", ms, leaf), ms, leaf, n, "Press", 0)
           /\ ChordCalls(Calls("keyup", ms, leaf), ms, leaf, 0, "Release", n)
<1> DEFINE chord == ToSet(ms)
           back == Reverse(ms)
           one == <<leaf>>
           pressed == Apply("Press", ms, chord)
           released == Apply("Release", back, chord)
           struck(k) == Apply(k, one, chord)
<1>1. ms \in Seq(Mods) /\ ms \in Seq(Mods \cup Leaves) /\ Len(ms) = n
  OBVIOUS
<1>2. chord \in SUBSET Mods
  BY DEF ToSet
<1>3. back \in Seq(Mods \cup Leaves) /\ Len(back) = n /\ \A i \in 1..n : back[i] = ms[(n - i) + 1]
  <2>1. back = [i \in 1..n |-> ms[(n - i) + 1]]
    BY <1>1 DEF Reverse
  <2>2. \A i \in 1..n : (n - i) + 1 \in 1..n
    OBVIOUS
  <2>3. back \in [1..n -> Mods \cup Leaves]
    BY <2>1, <2>2
  <2> QED BY <2>1, <2>3
<1>4. one \in Seq(Mods \cup Leaves) /\ Len(one) = 1 /\ one[1] = leaf
  OBVIOUS
<1> HIDE DEF chord, back, one
<1>5. /\ pressed \in Seq(CallSet) /\ Len(pressed) = n
      /\ \A i \in 1..n : pressed[i] = Call("Press", ms[i], FALSE, chord)
  <2>1. Applies(pressed, "Press", ms, chord)
    BY <1>1, <1>2, ApplyIs
  <2> HIDE DEF pressed
  <2> QED BY <1>1, <2>1 DEF Applies
<1>6. /\ released \in Seq(CallSet) /\ Len(released) = n
      /\ \A i \in 1..n : released[i] = Call("Release", ms[(n - i) + 1], FALSE, chord)
  <2>1. Applies(released, "Release", back, chord)
    BY <1>2, <1>3, ApplyIs
  <2> HIDE DEF released
  <2>2. /\ released \in Seq(CallSet) /\ Len(released) = n
        /\ \A i \in 1..n : released[i] = Call("Release", back[i], FALSE, chord)
    BY <1>3, <2>1 DEF Applies
  <2> QED BY <1>3, <2>2
<1>7. ASSUME NEW k \in {"Press", "Release", "PressRelease"}
      PROVE  struck(k) \in Seq(CallSet) /\ Len(struck(k)) = 1 /\ struck(k)[1] = Call(k, leaf, FALSE, chord)
  <2>1. Applies(struck(k), k, one, chord)
    BY <1>2, <1>4, ApplyIs
  <2> HIDE DEF struck
  <2>2. 1 \in 1..Len(one)
    BY <1>4
  <2> QED BY <1>4, <2>1, <2>2 DEF Applies
<1>8. /\ Calls("key", ms, leaf) = (pressed \o struck("PressRelease")) \o released
      /\ Calls("keydown", ms, leaf) = pressed \o struck("Press")
      /\ Calls("keyup", ms, leaf) = struck("Release") \o released
  BY DEF Calls, chord, back, one
<1>12. ToSet(ms) = chord /\ Len(ms) = n
  BY <1>1 DEF chord
<1> HIDE DEF pressed, released, struck
<1>9. ChordCalls(Calls("key", ms, leaf), ms, leaf, n, "PressRelease", n)
  <2> DEFINE mid == struck("PressRelease")
             cs == Calls("key", ms, leaf)
  <2>1. mid \in Seq(CallSet) /\ Len(mid) = 1 /\ mid[1] = Call("PressRelease", leaf, FALSE, chord)
    BY <1>7
  <2>2. cs = (pressed \o mid) \o released
    BY <1>8
  <2> HIDE DEF mid, cs
  <2>3. JoinsThree(CallSet, pressed, mid, released, cs)
    BY <1>5, <1>6, <2>1, <2>2, ThreeParts
  <2>4. /\ cs \in Seq(CallSet) /\ Len(cs) = (n + 1) + n
        /\ \A i \in 1..n : cs[i] = pressed[i]
        /\ \A i \in 1..1 : cs[n + i] = mid[i]
        /\ \A i \in 1..n : cs[(n + 1) + i] = released[i]
    BY <1>5, <1>6, <2>1, <2>3 DEF JoinsThree
  <2>5. \A i \in 1..n : cs[i] = Call("Press", ms[i], FALSE, chord)
    BY <1>5, <2>4
  <2>6. \A i \in 1..n : cs[(n + 1) + i] = Call("Release", ms[(n - i) + 1], FALSE, chord)
    BY <1>6, <2>4
  <2>7. ChordCalls(cs, ms, leaf, n, "PressRelease", n)
    <3>1. cs[n + 1] = Call("PressRelease", leaf, FALSE, chord)
      <4>1. cs[n + 1] = mid[1]
        BY <2>4
      <4> QED BY <2>1, <4>1
    <3> QED BY <1>12, <2>4, <2>5, <2>6, <3>1 DEF ChordCalls
  <2> QED BY <2>7 DEF cs
<1>10. ChordCalls(Calls("keydown", ms, leaf), ms, leaf, n, "Press", 0)
  <2> DEFINE mid == struck("Press")
             cs == Calls("keydown", ms, leaf)
  <2>1. mid \in Seq(CallSet) /\ Len(mid) = 1 /\ mid[1] = Call("Press", leaf, FALSE, chord)
    BY <1>7
  <2>2. cs = pressed \o mid
    BY <1>8
  <2> HIDE DEF mid, cs
  <2>3. Joins(CallSet, pressed, mid, cs)
    BY <1>5, <2>1, <2>2, TwoParts
  <2>4. /\ cs \in Seq(CallSet) /\ Len(cs) = (n + 1) + 0 /\ (\A i \in 1..n : cs[i] = pressed[i])
        /\ \A i \in 1..1 : cs[n + i] = mid[i]
    BY <1>5, <2>1, <2>3 DEF Joins
  <2>5. \A i \in 1..n : cs[i] = Call("Press", ms[i], FALSE, chord)
    BY <1>5, <2>4
  <2>6. ChordCalls(cs, ms, leaf, n, "Press", 0)
    <3>1. cs[n + 1] = Call("Press", leaf, FALSE, chord)
      <4>1. cs[n + 1] = mid[1]
        BY <2>4
      <4> QED BY <2>1, <4>1
    <3>2. 1..0 = {}
      OBVIOUS
    <3> QED BY <1>12, <2>4, <2>5, <3>1, <3>2 DEF ChordCalls
  <2> QED BY <2>6 DEF cs
<1>11. ChordCalls(Calls("keyup", ms, leaf), ms, leaf, 0, "Release", n)
  <2> DEFINE mid == struck("Release")
             cs == Calls("keyup", ms, leaf)
  <2>1. mid \in Seq(CallSet) /\ Len(mid) = 1 /\ mid[1] = Call("Release", leaf, FALSE, chord)
    BY <1>7
  <2>2. cs = mid \o released
    BY <1>8
  <2> HIDE DEF mid, cs
  <2>3. Joins(CallSet, mid, released, cs)
    BY <1>6, <2>1, <2>2, TwoParts
  <2>4. /\ cs \in Seq(CallSet) /\ Len(cs) = (0 + 1) + n /\ (\A i \in 1..1 : cs[i] = mid[i])
        /\ \A i \in 1..n : cs[(0 + 1) + i] = released[i]
    BY <1>6, <2>1, <2>3 DEF Joins
  <2>5. \A i \in 1..n : cs[(0 + 1) + i] = Call("Release", ms[(n - i) + 1], FALSE, chord)
    BY <1>6, <2>4
  <2>6. ChordCalls(cs, ms, leaf, 0, "Release", n)
    <3>1. cs[0 + 1] = Call("Release", leaf, FALSE, chord)
      <4>1. cs[0 + 1] = mid[1]
        BY <2>4
      <4> QED BY <2>1, <4>1
    <3>2. 1..0 = {}
      OBVIOUS
    <3> QED BY <1>12, <2>4, <2>5, <3>1, <3>2 DEF ChordCalls
  <2> QED BY <2>6 DEF cs
<1> QED BY <1>9, <1>10, <1>11

\* The modifiers of a chord go down before its key; `key` releases them all.
LEMMA ChordDue ==
    ASSUME NEW n \in Nat, NEW ms \in [1..n -> Mods], NEW leaf \in Leaves, NEW cs, NEW bits,
           NEW k \in {0, n}, NEW l \in {0, n}, NEW call \in {"Press", "Release", "PressRelease"},
           call # "Release" => k = n, ChordCalls(cs, ms, leaf, k, call, l)
    PROVE  /\ Due(cs, bits)
           /\ call = "PressRelease" /\ l = n => Passing(cs, {}, {})
<1> DEFINE chord == ToSet(ms)
<1>1. /\ cs \in Seq(CallSet) /\ Len(cs) = (k + 1) + l
      /\ \A i \in 1..k : cs[i] = Call("Press", ms[i], FALSE, chord)
      /\ cs[k + 1] = Call(call, leaf, FALSE, chord)
      /\ \A i \in 1..l : cs[(k + 1) + i] = Call("Release", ms[(n - i) + 1], FALSE, chord)
  <2>1. Len(ms) = n
    OBVIOUS
  <2> QED BY <2>1 DEF ChordCalls
<1>2. k \in Nat /\ l \in Nat
  OBVIOUS
<1>4. \A i \in 1..n : ms[i] \in Mods
  OBVIOUS
<1>5. chord = {ms[i] : i \in 1..n}
  BY DEF ToSet
<1> HIDE DEF chord
<1>6. ASSUME NEW i \in 1..k
      PROVE  cs[i].op = "Press" /\ cs[i].sym = ms[i] /\ ms[i] \in Mods /\ cs[i].soft = FALSE
  <2>1. i \in 1..n
    BY <1>2
  <2>2. cs[i] = Call("Press", ms[i], FALSE, chord)
    BY <1>1
  <2> QED BY <1>4, <2>1, <2>2 DEF Call
<1>7. cs[k + 1].op = call /\ cs[k + 1].sym = leaf /\ cs[k + 1].soft = FALSE
      /\ cs[k + 1].chord = chord
  BY <1>1 DEF Call
<1>8. ASSUME NEW i \in 1..l
      PROVE  /\ cs[(k + 1) + i].op = "Release" /\ cs[(k + 1) + i].sym = ms[(n - i) + 1]
             /\ cs[(k + 1) + i].soft = FALSE
  <2>1. cs[(k + 1) + i] = Call("Release", ms[(n - i) + 1], FALSE, chord)
    BY <1>1
  <2> QED BY <2>1 DEF Call
<1>9. ASSUME NEW i \in 1..Len(cs)
      PROVE  i \in 1..k \/ i = k + 1 \/ \E j \in 1..l : i = (k + 1) + j
  <2>1. CASE i > k + 1
    <3>1. i - (k + 1) \in 1..l /\ i = (k + 1) + (i - (k + 1))
      BY <1>1, <1>2, <2>1
    <3> QED BY <3>1
  <2> QED BY <1>1, <1>2, <2>1
<1>10. ASSUME NEW i \in 1..Len(cs)
       PROVE  ~cs[i].soft /\ cs[i].op # "Type" /\ (Reads(cs[i]) => i = k + 1)
  <2>1. CASE i \in 1..k
    BY <1>6, <2>1 DEF Reads
  <2>2. CASE i = k + 1
    BY <1>7, <2>2
  <2>3. CASE \E j \in 1..l : i = (k + 1) + j
    <3>1. PICK j \in 1..l : i = (k + 1) + j
      BY <2>3
    <3>2. cs[(k + 1) + j].op = "Release" /\ cs[(k + 1) + j].soft = FALSE
      BY <1>8
    <3>3. cs[i].op = "Release" /\ cs[i].soft = FALSE
      BY <3>1, <3>2
    <3> QED BY <3>3 DEF Reads
  <2> QED BY <1>9, <2>1, <2>2, <2>3
<1>11. ASSUME NEW i \in 1..Len(cs), Reads(cs[i])
       PROVE  /\ \A j \in 1..(i - 1) : cs[j].op = "Press" /\ cs[j].sym \in Mods
              /\ \A m \in cs[i].chord : BitOf[m] \in bits \/ \E j \in 1..(i - 1) : cs[j].sym = m
  <2>1. i = k + 1 /\ i - 1 = k
    BY <1>2, <1>10, <1>11
  <2>2. k = n
    BY <1>7, <1>11, <2>1 DEF Reads
  <2>3. ASSUME NEW m \in cs[i].chord PROVE \E j \in 1..(i - 1) : cs[j].sym = m
    <3>1. PICK j \in 1..n : ms[j] = m
      BY <1>5, <1>7, <2>1, <2>3
    <3> QED BY <1>6, <2>1, <2>2, <3>1
  <2> QED BY <1>6, <2>1, <2>3
<1>12. Due(cs, bits)
  BY <1>1, <1>10, <1>11 DEF Due
<1>13. ASSUME call = "PressRelease", l = n PROVE Passing(cs, {}, {})
  <2>1. k = n /\ l = n /\ Len(cs) = (n + 1) + n
    BY <1>1, <1>13
  <2>2. ASSUME NEW i \in 1..Len(cs), cs[i].op = "Press" PROVE cs[i].sym \in Freed(cs, i + 1)
    <3>1. i \in 1..n
      <4>1. i # k + 1
        BY <1>7, <1>13, <2>2
      <4>2. ~\E j \in 1..l : i = (k + 1) + j
        BY <1>8, <2>2
      <4> QED BY <1>9, <2>1, <4>1, <4>2
    <3>2. cs[i].sym = ms[i] /\ ms[i] \in Mods
      BY <1>6, <2>1, <3>1
    <3> DEFINE h == (n + 1) - i
    <3>3. h \in 1..l /\ (n - h) + 1 = i
      BY <2>1, <3>1
    <3>4. cs[(k + 1) + h].op = "Release" /\ cs[(k + 1) + h].sym = ms[i]
      <4>1. cs[(k + 1) + h].op = "Release" /\ cs[(k + 1) + h].sym = ms[(n - h) + 1]
        BY <1>8, <3>3
      <4> QED BY <3>3, <4>1
    <3>5. (k + 1) + h \in (i + 1)..Len(cs)
      BY <2>1, <3>1
    <3> HIDE DEF h
    <3>6. Frees(cs[(k + 1) + h], ms[i])
      BY <3>4 DEF Frees
    <3> QED BY <3>2, <3>5, <3>6 DEF Freed
  <2> QED BY <2>2 DEF Passing
<1> QED BY <1>12, <1>13

LEMMA CallsDue ==
    ASSUME NEW n \in Nat, NEW ms \in [1..n -> Mods], NEW leaf \in Leaves,
           NEW op \in {"key", "keydown", "keyup"}, NEW bits
    PROVE  /\ Due(Calls(op, ms, leaf), bits)
           /\ op = "key" => Passing(Calls(op, ms, leaf), {}, {})
<1>1. n \in {0, n} /\ 0 \in {0, n}
  OBVIOUS
<1>2. Due(Calls("key", ms, leaf), bits) /\ Passing(Calls("key", ms, leaf), {}, {})
  BY <1>1, CallsAre, ChordDue
<1>3. Due(Calls("keydown", ms, leaf), bits)
  BY <1>1, CallsAre, ChordDue
<1>4. Due(Calls("keyup", ms, leaf), bits)
  BY <1>1, CallsAre, ChordDue
<1> QED BY <1>2, <1>3, <1>4

\* The calls of clear_modifiers.
Clears == [i \in DOMAIN SetToSeq(Mods) |-> Call("Release", SetToSeq(Mods)[i], TRUE, {})]

LEMMA ClearDue == ASSUME NEW bits PROVE Due(Clears, bits) /\ Passing(Clears, {}, {})
<1> DEFINE n == Cardinality(Mods)
           f == SetToSeq(Mods)
           cs == Clears
<1>1. n \in Nat /\ ExistsBijection(1..n, Mods)
  BY KeyboardAssumption, FS_CardinalityType
<1>2. f \in [1..n -> Mods]
  <2>1. \E g \in [1..n -> Mods] : IsInjective(g)
    BY <1>1 DEF ExistsBijection, Bijection, Injection
  <2> QED BY <2>1 DEF SetToSeq
<1> HIDE DEF n, f
<1>3. cs = [i \in 1..n |-> Call("Release", f[i], TRUE, {})]
  BY <1>2 DEF Clears, f
<1>4. \A i \in 1..n : f[i] \in Mods
  BY <1>2
<1> HIDE DEF cs
<1>5. ASSUME NEW i \in 1..n
      PROVE  cs[i] \in CallSet /\ cs[i].op = "Release" /\ cs[i].sym \in Mods
  <2>1. cs[i] = Call("Release", f[i], TRUE, {}) /\ f[i] \in Mods
    BY <1>3, <1>4
  <2>2. Call("Release", f[i], TRUE, {}) \in CallSet
    <3>1. f[i] \in Mods \cup Leaves /\ {} \in SUBSET Mods /\ TRUE \in BOOLEAN
      BY <2>1
    <3> QED BY <3>1 DEF Call, CallSet
  <2>3. Call("Release", f[i], TRUE, {}).op = "Release" /\ Call("Release", f[i], TRUE, {}).sym = f[i]
    BY DEF Call
  <2> QED BY <2>1, <2>2, <2>3
<1>6. cs \in [1..n -> CallSet]
  BY <1>3, <1>5
<1>7. cs \in Seq(CallSet) /\ Len(cs) = n
  BY <1>1, <1>6
<1>8. Due(cs, bits)
  BY <1>5, <1>7 DEF Due, Reads
<1>9. Passing(cs, {}, {})
  BY <1>5, <1>7 DEF Passing
<1> QED BY <1>8, <1>9 DEF cs

LEMMA TypeDue ==
    ASSUME NEW s \in Leaves \ Mods, NEW bits
    PROVE  LET cs == <<Call("Type", s, FALSE, {})>> IN Due(cs, bits) /\ Passing(cs, {}, {})
<1> DEFINE c == Call("Type", s, FALSE, {})
           cs == <<c>>
<1>1. c \in CallSet /\ c.op = "Type" /\ c.sym = s /\ c.chord = {} /\ c.soft = FALSE
  BY DEF Call, CallSet
<1> HIDE DEF c
<1>2. cs \in Seq(CallSet) /\ Len(cs) = 1 /\ cs[1] = c
  BY <1>1
<1> HIDE DEF cs
<1>3. Due(cs, bits)
  BY <1>1, <1>2 DEF Due, Reads
<1>4. Passing(cs, {}, {})
  BY <1>1, <1>2 DEF Passing
<1> QED BY <1>3, <1>4 DEF cs, c

------------------------------------------------------------------------------
(* Commands, the end of the process, and the invariants.                   *)

LEMMA IssueReckons ==
    ASSUME Inv, Reckoned, UNCHANGED <<depressed, keymap, backend>>, NEW new, Issue(new),
           \A bits : Due(new, bits),
           ~holding' => ~holding /\ Passing(new, {}, {})
    PROVE  Reckoned'
<1>1. /\ calls = <<>> /\ count < MaxCommands /\ calls' = new
      /\ UNCHANGED <<line, down, mask, reading, mishaps>>
  BY DEF Issue
<1>2. Unrestored' = Unrestored /\ Untold' = Untold
  BY <1>1 DEF Unrestored, Untold
<1>3. KeysymRead'
  BY <1>1 DEF Reckoned, KeysymRead, OtherLevel
<1>4. backend' \in {"wlroots", "uinput"} /\ (backend' = "uinput" => keymap' = "default" /\ mask' = Bits(down)')
  BY <1>1 DEF Reckoned, Bits
<1>5. ASSUME NEW keys, NEW bits, Passing(<<>>, keys, bits) PROVE keys = {} /\ bits = {}
  <2>1. Freed(<<>>, 1) = {}
    BY DEF Freed
  <2> QED BY <1>5, <2>1 DEF Passing
<1>6. PICK p : Run(backend, Unrestored, line, Now, p) /\ Ends(p)
  BY DEF Reckoned
<1>7. CASE backend = "wlroots"
  <2>1. line = <<>> /\ line' = <<>>
    BY <1>1, <1>7 DEF Inv, InProgress
  <2>2. p = Now
    BY <1>6, <2>1, RunOver
  <2>3. PICK q : q = Now'
    OBVIOUS
  <2>4. q.down = p.down /\ q.mask = p.mask /\ q.keymap = p.keymap /\ q.reading = p.reading
        /\ q.calls = new /\ p.calls = <<>> /\ p.mask = mask
    BY <1>1, <1>7, <2>2, <2>3 DEF Now
  <2>5. Run(backend, Unrestored, line, Now, q)'
    BY <2>1, <2>3, RunNone
  <2>6. Ready(backend', Unrestored', q)
    BY <1>2, <1>6, <2>4 DEF Ends, Ready
  <2>7. mask = depressed
    <3>1. count # MaxCommands
      BY <1>1, KeyboardAssumption
    <3> QED BY <1>6, <1>7, <2>4, <3>1 DEF Ends
  <2>8. ASSUME ~holding', mishaps' \subseteq {"unadvertised"}
        PROVE  q.keymap = "default" /\ Passing(q.calls, q.down, q.mask)
    <3>1. p.keymap = "default" /\ Passing(<<>>, p.down, p.mask)
      BY <1>1, <1>6, <1>7, <2>4, <2>8 DEF Ends, Todo
    <3>2. p.down = {} /\ p.mask = {}
      BY <1>5, <3>1
    <3> QED BY <2>4, <2>8, <3>1, <3>2
  <2>9. Matches(Untold', q.down, q.mask)
    BY <1>2, <1>6, <2>4 DEF Ends
  <2>10. Due(q.calls, q.mask)
    BY <2>4
  <2>11. Ends(q)'
    BY <1>7, <2>4, <2>6, <2>7, <2>8, <2>9, <2>10 DEF Ends, Todo
  <2>12. (\E z : Run(backend, Unrestored, line, Now, z) /\ Ends(z))'
    BY <2>5, <2>11
  <2> QED BY <1>3, <1>4, <2>12 DEF Reckoned
<1>8. CASE backend = "uinput"
  <2>1. Now' = Now
    BY <1>1, <1>8 DEF Now
  <2>2. Run(backend, Unrestored, line, Now, p)'
    BY <1>1, <1>2, <1>6, <2>1
  <2>3. Ready(backend', Unrestored', p) /\ Matches(Untold', p.down, p.mask)
    BY <1>2, <1>6 DEF Ends
  <2>4. ASSUME ~holding', mishaps' \subseteq {"unadvertised"}
        PROVE  p.keymap = "default" /\ Passing(new, p.down, p.mask)
    <3>1. p.keymap = "default" /\ Passing(<<>>, p.down, p.mask)
      BY <1>1, <1>6, <1>8, <2>4 DEF Ends, Todo
    <3>2. p.down = {} /\ p.mask = {}
      BY <1>5, <3>1
    <3> QED BY <2>4, <3>1, <3>2
  <2>5. Ends(p)'
    BY <1>1, <1>8, <2>3, <2>4 DEF Ends, Todo
  <2>6. (\E z : Run(backend, Unrestored, line, Now, z) /\ Ends(z))'
    BY <2>2, <2>5
  <2> QED BY <1>3, <1>4, <2>6 DEF Reckoned
<1> QED BY <1>7, <1>8 DEF Reckoned

LEMMA ExitReckons ==
    ASSUME Inv, Reckoned, UNCHANGED <<depressed, keymap, backend>>, Exit PROVE Reckoned'
<1>1. /\ calls = <<>> /\ calls' = <<>> /\ line' = <<>> /\ down' = {} /\ mask' = {}
      /\ count' = MaxCommands /\ UNCHANGED <<reading, holding>>
      /\ mishaps \subseteq mishaps' /\ mishaps' \subseteq mishaps \cup {"lost"}
  BY DEF Exit
<1>2. Unrestored' = Unrestored
  BY <1>1 DEF Unrestored
<1>3. KeysymRead'
  BY <1>1, <1>2 DEF Reckoned, KeysymRead, OtherLevel, Unrestored
<1>4. \A keys : keys = {} => Bits(keys) = {}
  BY DEF Bits
<1>5. /\ backend' \in {"wlroots", "uinput"}
      /\ (backend' = "uinput" => keymap' = "default" /\ mask' = Bits(down)')
  <2>1. Bits(down)' = {}
    BY <1>1 DEF Bits
  <2> QED BY <1>1, <2>1 DEF Reckoned
<1>6. PICK p : Run(backend, Unrestored, line, Now, p) /\ Ends(p)
  BY DEF Reckoned
<1>7. PICK q : q = Now'
  OBVIOUS
<1>8. q.down = {} /\ q.mask = {} /\ q.keymap = keymap /\ q.reading = reading /\ q.calls = <<>>
  BY <1>1, <1>7 DEF Now
<1>9. Run(backend, Unrestored, line, Now, q)'
  BY <1>1, <1>7, RunNone
<1>10. (keymap = "default" \/ Unrestored)
       /\ (~holding /\ mishaps \subseteq {"unadvertised"} => keymap = "default")
  <2>1. CASE backend = "uinput"
    BY <2>1 DEF Reckoned
  <2>2. CASE backend = "wlroots"
    <3>1. line = <<>>
      BY <1>1, <2>2 DEF Inv, InProgress
    <3>2. p = Now /\ Now.keymap = keymap
      BY <1>6, <3>1, RunOver DEF Now
    <3> QED BY <1>6, <3>2 DEF Ends, Ready
  <2> QED BY <2>1, <2>2 DEF Reckoned
<1>11. Ready(backend', Unrestored', q)
  <2>1. ReadOk(backend, Unrestored, q.reading)
    BY <1>8, ReadIs DEF Reckoned
  <2>2. backend \in {"wlroots", "uinput"} /\ (backend = "uinput" => keymap = "default")
    BY DEF Reckoned
  <2>3. q.mask = Bits(q.down)
    BY <1>4, <1>8
  <2> QED BY <1>2, <1>8, <1>10, <2>1, <2>2, <2>3 DEF Ready
<1>12. Todo(q)' = <<>>
  <2>1. CASE backend = "wlroots"
    BY <1>8, <2>1 DEF Todo
  <2>2. CASE backend # "wlroots"
    BY <1>1, <2>2 DEF Todo
  <2> QED BY <2>1, <2>2
<1>13. Due(<<>>, q.mask)
  BY NothingDue
<1>14. Matches(Untold', q.down, q.mask)
  <2>1. q.mask = Bits(q.down)
    BY <1>4, <1>8
  <2> QED BY <2>1, MatchesDerived
<1>15. Passing(<<>>, q.down, q.mask)
  BY <1>8 DEF Passing
<1>16. Ends(q)'
  BY <1>1, <1>8, <1>10, <1>11, <1>12, <1>13, <1>14, <1>15 DEF Ends
<1>17. (\E z : Run(backend, Unrestored, line, Now, z) /\ Ends(z))'
  BY <1>9, <1>16
<1> QED BY <1>3, <1>5, <1>17 DEF Reckoned

LEMMA CommandReckons ==
    ASSUME Inv, Reckoned, UNCHANGED <<depressed, keymap, backend>>, Command PROVE Reckoned'
<1>1. CASE Exit
  BY <1>1, ExitReckons
<1>2. ASSUME NEW op \in Ops, KeyCommand(op) PROVE Reckoned'
  <2>1. op \in {"key", "keydown", "keyup"} /\ holding' = (holding \/ op # "key")
    BY <1>2 DEF KeyCommand
  <2>2. PICK n \in 0..MaxMods : \E ms \in [1..n -> Mods], leaf \in Leaves : Issue(Calls(op, ms, leaf))
    BY <1>2 DEF KeyCommand
  <2>8. PICK ms \in [1..n -> Mods], leaf \in Leaves : Issue(Calls(op, ms, leaf))
    BY <2>2
  <2>3. n \in Nat
    BY KeyboardAssumption
  <2>4. \A bits : Due(Calls(op, ms, leaf), bits)
    BY <2>1, <2>3, CallsDue
  <2>5. op = "key" => Passing(Calls(op, ms, leaf), {}, {})
    BY <2>1, <2>3, CallsDue
  <2> DEFINE new == Calls(op, ms, leaf)
  <2> HIDE DEF new
  <2>6. Issue(new) /\ (\A bits : Due(new, bits)) /\ (op = "key" => Passing(new, {}, {}))
    BY <2>4, <2>5, <2>8 DEF new
  <2>7. ~holding' => ~holding /\ Passing(new, {}, {})
    BY <2>1, <2>6
  <2> QED BY <2>6, <2>7, IssueReckons
<1>3. ASSUME NEW op \in Ops, TypeCommand(op) PROVE Reckoned'
  <2>1. PICK s \in Leaves \ Mods : Issue(<<Call("Type", s, FALSE, {})>>)
    BY <1>3 DEF TypeCommand
  <2> DEFINE new == <<Call("Type", s, FALSE, {})>>
  <2>2. (\A bits : Due(new, bits)) /\ Passing(new, {}, {})
    BY TypeDue
  <2>3. holding' = holding
    BY <1>3 DEF TypeCommand
  <2>4. Issue(new)
    BY <2>1
  <2> HIDE DEF new
  <2> QED BY <2>2, <2>3, <2>4, IssueReckons
<1>4. ASSUME NEW op \in Ops, ClearCommand(op) PROVE Reckoned'
  <2>1. Issue(Clears) /\ holding' = holding
    BY <1>4 DEF ClearCommand, Clears
  <2> QED BY <2>1, ClearDue, IssueReckons
<1> QED BY <1>1, <1>2, <1>3, <1>4 DEF Command

LEMMA StepReckons == Inv /\ Reckoned /\ [Next]_vars => Reckoned'
<1> SUFFICES ASSUME Inv, Reckoned, [Next]_vars PROVE Reckoned'
  OBVIOUS
<1>1. CASE Command /\ UNCHANGED <<depressed, keymap, backend>>
  BY <1>1, CommandReckons
<1>2. CASE backend = "wlroots" /\ Serve /\ UNCHANGED backend
  BY <1>2, ServeReckons
<1>3. CASE backend = "wlroots" /\ ApplyRequest /\ UNCHANGED backend
  BY <1>3, ApplyReckons
<1>4. CASE backend = "uinput" /\ WriteCall /\ UNCHANGED <<depressed, keymap, backend>>
  BY <1>4, WriteReckons
<1>5. CASE backend = "uinput" /\ ReadEvent /\ UNCHANGED <<depressed, keymap, backend>>
  BY <1>5, ReadReckons
<1>6. CASE UNCHANGED vars
  <2>1. UNCHANGED <<count, calls, line, down, mask, reading, holding, mishaps, depressed, keymap, backend>>
    BY <1>6 DEF vars, ends
  <2>2. Now' = Now /\ Unrestored' = Unrestored /\ Untold' = Untold
    BY <2>1 DEF Now, Unrestored, Untold
  <2>3. PICK p : Run(backend, Unrestored, line, Now, p) /\ Ends(p)
    BY DEF Reckoned
  <2>4. Run(backend, Unrestored, line, Now, p)'
    BY <2>1, <2>2, <2>3
  <2>5. Todo(p)' = Todo(p)
    BY <2>1 DEF Todo
  <2>6. Ends(p)'
    BY <2>1, <2>2, <2>3, <2>5 DEF Ends
  <2>7. (\E z : Run(backend, Unrestored, line, Now, z) /\ Ends(z))'
    BY <2>4, <2>6
  <2>8. KeysymRead'
    BY <2>1 DEF Reckoned, KeysymRead, OtherLevel
  <2>9. backend' = "uinput" => keymap' = "default" /\ mask' = Bits(down)'
    BY <2>1 DEF Reckoned, Bits
  <2> QED BY <2>1, <2>7, <2>8, <2>9 DEF Reckoned
<1> QED BY <1>1, <1>2, <1>3, <1>4, <1>5, <1>6 DEF Next, WlrNext, UinputNext

LEMMA InitReckons == Init => Reckoned
<1> SUFFICES ASSUME Init PROVE Reckoned
  OBVIOUS
<1>1. /\ count = 0 /\ calls = <<>> /\ line = <<>> /\ down = {} /\ mask = {} /\ reading = Nothing
      /\ holding = FALSE /\ mishaps = {} /\ depressed = {} /\ keymap = "default"
      /\ backend \in {"wlroots", "uinput"}
  BY DEF Init, EndsInit, WlrInit
<1>2. ReadOk(backend, Unrestored, reading)
  <2>1. reading.chord = {} /\ reading.got = reading.want
    BY <1>1 DEF Nothing
  <2> QED BY <2>1 DEF ReadOk
<1>3. KeysymRead
  BY <1>2, ReadIs
<1>4. Bits(down) = {}
  BY <1>1 DEF Bits
<1>5. PICK p : p = Now
  OBVIOUS
<1>6. p.down = {} /\ p.mask = {} /\ p.keymap = "default" /\ p.reading = reading /\ p.calls = <<>>
  BY <1>1, <1>5 DEF Now
<1>7. Run(backend, Unrestored, line, Now, p)
  BY <1>1, <1>5, RunNone
<1>8. p.mask = Bits(p.down)
  BY <1>1, <1>4, <1>6
<1>9. Ready(backend, Unrestored, p)
  BY <1>1, <1>2, <1>6, <1>8 DEF Ready
<1>10. Todo(p) = <<>>
  BY <1>1, <1>6 DEF Todo
<1>11. Due(<<>>, p.mask) /\ Passing(<<>>, p.down, p.mask)
  BY <1>6, NothingDue DEF Passing
<1>12. Matches(Untold, p.down, p.mask)
  BY <1>8, MatchesDerived
<1>13. Ends(p)
  BY <1>1, <1>6, <1>9, <1>10, <1>11, <1>12 DEF Ends
<1> QED BY <1>1, <1>3, <1>4, <1>7, <1>13 DEF Reckoned

LEMMA IdleEnds ==
    ASSUME Reckoned, Idle
    PROVE  /\ Matches(Untold, down, mask)
           /\ ~holding /\ mishaps \subseteq {"unadvertised"} =>
                 down = {} /\ mask = {} /\ keymap = "default"
<1>1. Ends(Now)
  BY NowEnds DEF Idle
<1>2. Now.down = down /\ Now.mask = mask /\ Now.keymap = keymap
  BY DEF Now
<1>3. Todo(Now) = <<>>
  BY DEF Todo, Now, Idle
<1>4. ASSUME ~holding, mishaps \subseteq {"unadvertised"}
      PROVE  down = {} /\ mask = {} /\ keymap = "default"
  <2>1. Now.keymap = "default" /\ Passing(<<>>, down, mask)
    BY <1>1, <1>2, <1>3, <1>4 DEF Ends
  <2>2. Freed(<<>>, 1) = {}
    BY DEF Freed
  <2> QED BY <1>2, <2>1, <2>2 DEF Passing
<1> QED BY <1>1, <1>2, <1>4 DEF Ends

LEMMA AlwaysReckoned == Spec => [](Inv /\ Reckoned)
<1>1. Inv /\ Reckoned /\ [Next]_vars => (Inv /\ Reckoned)'
  BY StepKeeps, StepReckons
<1>2. Init => Inv /\ Reckoned
  BY InitHolds, InitReckons
<1> QED BY <1>1, <1>2, PTL DEF Spec

\* On either backend, once all is read, the modifiers in force are those of the
\* keys that are down, whatever chords were pressed, held, refused or cut short.
THEOREM MaskIsThatOfTheKeys == Spec => []MaskTracksKeys
<1>1. Reckoned => MaskTracksKeys
  <2>1. ASSUME Reckoned, Idle PROVE Matches(Untold, down, mask)
    BY <2>1, IdleEnds
  <2> QED BY <2>1 DEF MaskTracksKeys, Matches, Untold
<1> QED BY <1>1, AlwaysReckoned, PTL

\* Every key is read as the keysym it was struck for, or as the other symbol of
\* its key, and under the modifiers of its chord, however far the compositor is
\* behind and whichever commands came before it.
THEOREM EveryKeyIsRead == Spec => []KeysymRead
<1>1. Reckoned => KeysymRead
  BY DEF Reckoned
<1> QED BY <1>1, AlwaysReckoned, PTL

\* A process that has failed at nothing, and holds nothing on purpose, leaves no
\* key down, no modifier in force, and the keymap it found.
THEOREM CommandsCleanUp == Spec => []NothingLeft
<1>1. Reckoned => NothingLeft
  BY IdleEnds DEF NothingLeft
<1> QED BY <1>1, AlwaysReckoned, PTL
==============================================================================
