--------------------------- MODULE WlrPointerProofs ---------------------------
(***************************************************************************)
(* Proofs about WlrPointer: every output has one xdg_output object, in     *)
(* whichever order the registry announces the outputs and the manager, and *)
(* however many outputs are plugged in; a move that succeeds has put the   *)
(* cursor where it was asked to; and a list is of the outputs as they were *)
(* during the call.                                                        *)
(***************************************************************************)
EXTENDS WlrPointer, FiniteSetTheorems, TLAPS

IsSeq(s) == \E S : s \in Seq(S)

\* The requests for an object, the objects that exist, and the outputs marked as
\* attached are the same.
Xdg(r) == {k \in DOMAIN r : r[k].rq = "xdg"}
Once(r, d, on) ==
    /\ IsInjective(d)
    /\ \A k, l \in Xdg(r) : r[k].id = r[l].id => k = l
    /\ \A k \in Xdg(r), j \in DOMAIN d : d[j] # r[k].id
    /\ \A i : i \in on <=> (\E j \in DOMAIN d : d[j] = i) \/ \E k \in Xdg(r) : r[k].id = i

\* An output that is being announced is not known yet; n is the highest id so far.
Outputs(w) == {k \in DOMAIN w : w[k].ev = "output"}
Fresh(w, known, n) ==
    /\ known \subseteq 1..n
    /\ \A k \in Outputs(w) : w[k].id \in (1..n) \ known
    /\ \A k, l \in Outputs(w) : w[k].id = w[l].id => k = l

\* The manager is announced before the next roundtrip is over.
ManagerAhead(w) ==
    \E k \in 1..Len(w) : w[k].ev = "manager" /\ \A j \in 1..(k - 1) : w[j].ev # "done"
NoManager(w) == \A k \in 1..Len(w) : w[k].ev # "manager"

Attached == {i \in DOMAIN mirror : mirror[i].attached}
Highest == Cardinality(Connectors) + changes

Entries(m) ==
    \E S : m \in [DOMAIN m -> [name : S, mode : S, scale : S, logical : S, attached : BOOLEAN]]

\* Until the manager is there the worker is at its first roundtrip, and attaches
\* nothing; the step that ends that roundtrip attaches all that came before it.
Managed ==
    /\ offered \in BOOLEAN /\ manager \in BOOLEAN /\ (manager => offered)
    /\ offered \/ NoManager(wire)
    /\ ~manager => Attached = {}
    /\ offered /\ ~manager => task.op = "registry" /\ ~done /\ ManagerAhead(wire)
    /\ offered /\ task.op # "registry" => Attached = DOMAIN mirror

IInv ==
    /\ IsSeq(requests) /\ IsSeq(wire) /\ IsSeq(described)
    /\ Entries(mirror) /\ changes \in Nat
    /\ Once(requests, described, Attached)
    /\ Fresh(wire, DOMAIN mirror, Highest)
    /\ Managed

------------------------------------------------------------------------------
(* Sequences.                                                              *)

\* The parts of s are a and b.
Joins(a, b, s) ==
    /\ IsSeq(s) /\ Len(a) \in Nat /\ Len(b) \in Nat /\ Len(s) = Len(a) + Len(b)
    /\ DOMAIN s = 1..Len(s) /\ DOMAIN a = 1..Len(a) /\ DOMAIN b = 1..Len(b)
    /\ \A i \in 1..Len(a) : s[i] = a[i]
    /\ \A i \in 1..Len(b) : s[Len(a) + i] = b[i]

LEMMA TwoParts == ASSUME NEW a, NEW b, IsSeq(a), IsSeq(b) PROVE Joins(a, b, a \o b)
<1>1. PICK A0 : a \in Seq(A0)
  BY DEF IsSeq
<1>2. PICK B0 : b \in Seq(B0)
  BY DEF IsSeq
<1> DEFINE S == A0 \cup B0
<1>3. a \in Seq(S) /\ b \in Seq(S)
  BY <1>1, <1>2
<1> HIDE DEF S
<1>4. a \o b \in Seq(S)
  BY <1>3
<1>5. Len(a \o b) = Len(a) + Len(b) /\ Len(a) \in Nat /\ Len(b) \in Nat
  BY <1>3
<1>6. DOMAIN (a \o b) = 1..Len(a \o b) /\ DOMAIN a = 1..Len(a) /\ DOMAIN b = 1..Len(b)
  BY <1>3, <1>4
<1>7. ASSUME NEW i \in 1..Len(a) PROVE (a \o b)[i] = a[i]
  BY <1>3
<1>8. ASSUME NEW i \in 1..Len(b) PROVE (a \o b)[Len(a) + i] = b[i]
  <2>1. Len(a) + i \in (Len(a) + 1)..(Len(a) + Len(b)) /\ (Len(a) + i) - Len(a) = i
    BY <1>5
  <2>2. \A k \in (Len(a) + 1)..(Len(a) + Len(b)) : (a \o b)[k] = b[k - Len(a)]
    BY <1>3
  <2> QED BY <2>1, <2>2
<1>9. IsSeq(a \o b)
  BY <1>4 DEF IsSeq
<1> QED BY <1>5, <1>6, <1>7, <1>8, <1>9 DEF Joins

\* All but the first.
Drops(s, t) ==
    /\ IsSeq(t) /\ Len(s) \in Nat /\ Len(s) >= 1 /\ Len(t) = Len(s) - 1 /\ Len(t) \in Nat
    /\ DOMAIN s = 1..Len(s) /\ DOMAIN t = 1..Len(t) /\ Head(s) = s[1]
    /\ \A i \in 1..Len(t) : t[i] = s[i + 1]

LEMMA AllButFirst == ASSUME NEW s, IsSeq(s), s # <<>> PROVE Drops(s, Tail(s))
<1>1. PICK S : s \in Seq(S)
  BY DEF IsSeq
<1>2. Tail(s) \in Seq(S) /\ Len(s) \in Nat /\ Len(s) >= 1 /\ Len(Tail(s)) = Len(s) - 1
      /\ Len(Tail(s)) \in Nat
  BY <1>1
<1>3. DOMAIN s = 1..Len(s) /\ DOMAIN Tail(s) = 1..Len(Tail(s)) /\ Head(s) = s[1]
  BY <1>1, <1>2
<1>4. \A i \in 1..Len(Tail(s)) : Tail(s)[i] = s[i + 1]
  BY <1>1, <1>2
<1>5. IsSeq(Tail(s))
  BY <1>2 DEF IsSeq
<1> QED BY <1>2, <1>3, <1>4, <1>5 DEF Drops

LEMMA OneIsSeq == ASSUME NEW e PROVE IsSeq(<<e>>) /\ Len(<<e>>) = 1 /\ <<e>>[1] = e
<1>1. <<e>> \in Seq({e})
  OBVIOUS
<1> QED BY <1>1 DEF IsSeq

LEMMA NoneIsSeq == IsSeq(<<>>) /\ Len(<<>>) = 0
<1>1. <<>> \in Seq({})
  OBVIOUS
<1> QED BY <1>1 DEF IsSeq

LEMMA AppendIsJoin == ASSUME NEW s, IsSeq(s), NEW e PROVE Append(s, e) = s \o <<e>>
<1>1. PICK S : s \in Seq(S)
  BY DEF IsSeq
<1>2. s \in Seq(S \cup {e})
  BY <1>1
<1> QED BY <1>2

------------------------------------------------------------------------------
(* Requests.                                                               *)

LEMMA XdgJoins ==
    ASSUME NEW r, NEW t, NEW s, Joins(r, t, s)
    PROVE  /\ \A k \in Xdg(s) : \/ k \in Xdg(r) /\ s[k] = r[k]
                                \/ \E l \in Xdg(t) : k = Len(r) + l /\ s[k] = t[l]
           /\ \A k \in Xdg(r) : k \in Xdg(s) /\ s[k] = r[k]
           /\ \A l \in Xdg(t) : Len(r) + l \in Xdg(s) /\ s[Len(r) + l] = t[l]
<1>1. ASSUME NEW k \in Xdg(s)
      PROVE  \/ k \in Xdg(r) /\ s[k] = r[k]
             \/ \E l \in Xdg(t) : k = Len(r) + l /\ s[k] = t[l]
  <2>1. k \in 1..Len(s) /\ s[k].rq = "xdg"
    BY DEF Xdg, Joins
  <2>2. CASE k \in 1..Len(r)
    BY <2>1, <2>2 DEF Xdg, Joins
  <2>3. CASE k \notin 1..Len(r)
    <3> DEFINE l == k - Len(r)
    <3>1. l \in 1..Len(t) /\ k = Len(r) + l
      BY <2>1, <2>3 DEF Joins
    <3> HIDE DEF l
    <3>2. s[k] = t[l]
      BY <3>1 DEF Joins
    <3>3. l \in Xdg(t)
      BY <2>1, <3>1, <3>2 DEF Xdg, Joins
    <3> QED BY <3>1, <3>2, <3>3
  <2> QED BY <2>2, <2>3
<1>2. ASSUME NEW k \in Xdg(r) PROVE k \in Xdg(s) /\ s[k] = r[k]
  <2>1. k \in 1..Len(r) /\ r[k].rq = "xdg"
    BY DEF Xdg, Joins
  <2>2. k \in 1..Len(s) /\ s[k] = r[k]
    BY <2>1 DEF Joins
  <2> QED BY <2>1, <2>2 DEF Xdg, Joins
<1>3. ASSUME NEW l \in Xdg(t) PROVE Len(r) + l \in Xdg(s) /\ s[Len(r) + l] = t[l]
  <2>1. l \in 1..Len(t) /\ t[l].rq = "xdg"
    BY DEF Xdg, Joins
  <2>2. Len(r) + l \in 1..Len(s) /\ s[Len(r) + l] = t[l]
    BY <2>1 DEF Joins
  <2> QED BY <2>1, <2>2 DEF Xdg, Joins
<1> QED BY <1>1, <1>2, <1>3

\* Requests for objects of outputs that have none yet.
LEMMA OnceAsked ==
    ASSUME NEW r, NEW t, NEW s, Joins(r, t, s), NEW d, NEW on, Once(r, d, on),
           \A k, l \in Xdg(t) : t[k].id = t[l].id => k = l, \A k \in Xdg(t) : t[k].id \notin on
    PROVE  Once(s, d, on \cup {t[k].id : k \in Xdg(t)})
<1> DEFINE more == on \cup {t[k].id : k \in Xdg(t)}
<1>1. ASSUME NEW k \in Xdg(s)
      PROVE  \/ k \in Xdg(r) /\ s[k] = r[k]
             \/ \E l \in Xdg(t) : k = Len(r) + l /\ s[k] = t[l]
  BY XdgJoins
<1>2. \A k \in Xdg(r) : k \in Xdg(s) /\ s[k] = r[k]
  BY XdgJoins
<1>3. \A l \in Xdg(t) : Len(r) + l \in Xdg(s) /\ s[Len(r) + l] = t[l]
  BY XdgJoins
<1>4. \A k \in Xdg(r) : r[k].id \in on
  BY DEF Once
<1>5. \A k \in Xdg(r), l \in Xdg(t) : r[k].id # t[l].id
  BY <1>4
<1>6. ASSUME NEW k \in Xdg(s), NEW l \in Xdg(s), s[k].id = s[l].id PROVE k = l
  <2>1. CASE k \in Xdg(r) /\ s[k] = r[k] /\ l \in Xdg(r) /\ s[l] = r[l]
    BY <1>6, <2>1 DEF Once
  <2>2. CASE \E a \in Xdg(t) : k = Len(r) + a /\ s[k] = t[a]
    <3>1. PICK a \in Xdg(t) : k = Len(r) + a /\ s[k] = t[a]
      BY <2>2
    <3>2. PICK b \in Xdg(t) : l = Len(r) + b /\ s[l] = t[b]
      BY <1>1, <1>5, <1>6, <3>1
    <3>3. a = b
      BY <1>6, <3>1, <3>2
    <3> QED BY <3>1, <3>2, <3>3
  <2>3. CASE \E b \in Xdg(t) : l = Len(r) + b /\ s[l] = t[b]
    <3>1. PICK b \in Xdg(t) : l = Len(r) + b /\ s[l] = t[b]
      BY <2>3
    <3>2. PICK a \in Xdg(t) : k = Len(r) + a /\ s[k] = t[a]
      BY <1>1, <1>5, <1>6, <3>1
    <3>3. a = b
      BY <1>6, <3>1, <3>2
    <3> QED BY <3>1, <3>2, <3>3
  <2> QED BY <1>1, <2>1, <2>2, <2>3
<1>7. ASSUME NEW k \in Xdg(s), NEW j \in DOMAIN d PROVE d[j] # s[k].id
  <2>1. CASE k \in Xdg(r) /\ s[k] = r[k]
    BY <2>1 DEF Once
  <2>2. CASE \E l \in Xdg(t) : k = Len(r) + l /\ s[k] = t[l]
    <3>1. d[j] \in on
      BY DEF Once
    <3> QED BY <2>2, <3>1
  <2> QED BY <1>1, <2>1, <2>2
<1>8. ASSUME NEW i
      PROVE  i \in more <=> (\E j \in DOMAIN d : d[j] = i) \/ \E k \in Xdg(s) : s[k].id = i
  <2>1. ASSUME i \in on PROVE (\E j \in DOMAIN d : d[j] = i) \/ \E k \in Xdg(s) : s[k].id = i
    BY <1>2, <2>1 DEF Once
  <2>2. ASSUME i \in {t[k].id : k \in Xdg(t)} PROVE \E k \in Xdg(s) : s[k].id = i
    BY <1>3, <2>2
  <2>3. ASSUME NEW j \in DOMAIN d, d[j] = i PROVE i \in on
    BY <2>3 DEF Once
  <2>4. ASSUME NEW k \in Xdg(s), s[k].id = i PROVE i \in more
    <3>1. CASE k \in Xdg(r) /\ s[k] = r[k]
      BY <1>4, <2>4, <3>1
    <3>2. CASE \E l \in Xdg(t) : k = Len(r) + l /\ s[k] = t[l]
      BY <2>4, <3>2
    <3> QED BY <1>1, <3>1, <3>2
  <2> QED BY <2>1, <2>2, <2>3, <2>4
<1> HIDE DEF more
<1>9. IsInjective(d)
  BY DEF Once
<1>10. Once(s, d, more)
  BY <1>6, <1>7, <1>8, <1>9 DEF Once
<1> QED BY <1>10 DEF more

\* The compositor makes the object that is asked for.
LEMMA OnceMade ==
    ASSUME NEW r, NEW s, Drops(r, s), NEW d, IsSeq(d), NEW on, Once(r, d, on)
    PROVE  /\ Head(r).rq = "xdg" => Once(s, Append(d, Head(r).id), on)
           /\ Head(r).rq # "xdg" => Once(s, d, on)
<1>1. \A k \in Xdg(s) : k + 1 \in Xdg(r) /\ s[k] = r[k + 1] /\ k \in Nat /\ k >= 1
  BY DEF Xdg, Drops
<1>2. ASSUME NEW k \in Xdg(r)
      PROVE  (k = 1 /\ Head(r).rq = "xdg") \/ (k - 1 \in Xdg(s) /\ s[k - 1] = r[k])
  <2>1. k \in 1..Len(r) /\ r[k].rq = "xdg"
    BY DEF Xdg, Drops
  <2>2. CASE k = 1
    BY <2>1, <2>2 DEF Drops
  <2>3. CASE k # 1
    <3>1. k - 1 \in 1..Len(s) /\ (k - 1) + 1 = k
      BY <2>1, <2>3 DEF Drops
    <3>2. s[k - 1] = r[k]
      BY <3>1 DEF Drops
    <3> QED BY <2>1, <3>1, <3>2 DEF Xdg, Drops
  <2> QED BY <2>2, <2>3
<1>3. \A k, l \in Xdg(s) : s[k].id = s[l].id => k = l
  <2> SUFFICES ASSUME NEW k \in Xdg(s), NEW l \in Xdg(s), s[k].id = s[l].id PROVE k = l
    OBVIOUS
  <2>1. k + 1 = l + 1
    BY <1>1 DEF Once
  <2> QED BY <1>1, <2>1
<1>4. \A k \in Xdg(s), j \in DOMAIN d : d[j] # s[k].id
  BY <1>1 DEF Once
<1>5. ASSUME Head(r).rq # "xdg" PROVE Once(s, d, on)
  <2>1. \A i : (\E k \in Xdg(r) : r[k].id = i) <=> (\E k \in Xdg(s) : s[k].id = i)
    BY <1>1, <1>2, <1>5
  <2>2. \A i : i \in on <=> (\E j \in DOMAIN d : d[j] = i) \/ \E k \in Xdg(s) : s[k].id = i
    BY <2>1 DEF Once
  <2> QED BY <1>3, <1>4, <2>2 DEF Once
<1>6. ASSUME Head(r).rq = "xdg" PROVE Once(s, Append(d, Head(r).id), on)
  <2> DEFINE h == Head(r).id
             e == Append(d, h)
  <2>1. Joins(d, <<h>>, e)
    <3>1. e = d \o <<h>>
      BY AppendIsJoin
    <3> QED BY <3>1, OneIsSeq, TwoParts
  <2>2. Len(<<h>>) = 1 /\ <<h>>[1] = h
    OBVIOUS
  <2>3. DOMAIN d = 1..Len(d) /\ DOMAIN e = 1..(Len(d) + 1) /\ Len(d) \in Nat
        /\ (\A j \in DOMAIN d : e[j] = d[j]) /\ e[Len(d) + 1] = h
    BY <2>1, <2>2 DEF Joins
  <2>4. 1 \in Xdg(r) /\ r[1].id = h
    BY <1>6 DEF Xdg, Drops
  <2> HIDE DEF e, h
  <2>5. \A j \in DOMAIN d : d[j] # h
    BY <2>4 DEF Once
  <2>6. ASSUME NEW k \in Xdg(s) PROVE s[k].id # h
    <3>1. k + 1 # 1 /\ k + 1 \in Xdg(r) /\ s[k] = r[k + 1]
      BY <1>1
    <3> QED BY <2>4, <3>1 DEF Once
  <2>7. ASSUME NEW j \in DOMAIN e PROVE (j \in DOMAIN d /\ e[j] = d[j]) \/ (j = Len(d) + 1 /\ e[j] = h)
    BY <2>3
  <2>8. IsInjective(e)
    <3> SUFFICES ASSUME NEW i \in DOMAIN e, NEW j \in DOMAIN e, e[i] = e[j] PROVE i = j
      BY DEF IsInjective
    <3>1. \A a, b \in DOMAIN d : d[a] = d[b] => a = b
      BY DEF Once, IsInjective
    <3> QED BY <2>5, <2>7, <3>1
  <2>9. \A k \in Xdg(s), j \in DOMAIN e : e[j] # s[k].id
    BY <1>4, <2>6, <2>7
  <2>10. ASSUME NEW i
         PROVE  i \in on <=> (\E j \in DOMAIN e : e[j] = i) \/ \E k \in Xdg(s) : s[k].id = i
    <3>1. i \in on <=> (\E j \in DOMAIN d : d[j] = i) \/ \E k \in Xdg(r) : r[k].id = i
      BY DEF Once
    <3>2. (\E j \in DOMAIN e : e[j] = i) <=> i = h \/ \E j \in DOMAIN d : d[j] = i
      BY <2>3, <2>7
    <3>3. (\E k \in Xdg(r) : r[k].id = i) <=> i = h \/ \E k \in Xdg(s) : s[k].id = i
      BY <1>1, <1>2, <2>4
    <3> QED BY <3>1, <3>2, <3>3
  <2>11. Once(s, e, on)
    BY <1>3, <2>8, <2>9, <2>10 DEF Once
  <2> QED BY <2>11 DEF e, h
<1> QED BY <1>5, <1>6

\* Requests for no object.
Plain(t) == \A k \in DOMAIN t : t[k].rq # "xdg"

LEMMA OncePlain ==
    ASSUME NEW r, IsSeq(r), NEW t, IsSeq(t), Plain(t), NEW d, NEW on, Once(r, d, on)
    PROVE  IsSeq(r \o t) /\ Once(r \o t, d, on)
<1>1. Joins(r, t, r \o t)
  BY TwoParts
<1>2. Xdg(t) = {}
  BY DEF Plain, Xdg
<1> DEFINE s == r \o t
           more == {t[k].id : k \in Xdg(t)}
<1>3. on \cup more = on
  BY <1>2
<1> HIDE DEF s, more
<1>4. Joins(r, t, s)
  BY <1>1 DEF s
<1>5. Once(s, d, on \cup more)
  BY <1>2, <1>4, OnceAsked DEF more
<1> QED BY <1>3, <1>4, <1>5 DEF s, Joins

------------------------------------------------------------------------------
(* Events.                                                                 *)

\* Events that announce no output.
Quiet(t) == \A k \in DOMAIN t : t[k].ev # "output" /\ t[k].ev # "manager"

LEMMA FreshQuiet ==
    ASSUME NEW w, IsSeq(w), NEW t, IsSeq(t), Quiet(t), NEW known, NEW n \in Nat, NEW m \in Nat,
           n <= m, Fresh(w, known, n)
    PROVE  /\ IsSeq(w \o t) /\ Fresh(w \o t, known, m)
           /\ NoManager(w) => NoManager(w \o t)
           /\ ManagerAhead(w) => ManagerAhead(w \o t)
<1> DEFINE s == w \o t
<1>1. Joins(w, t, s)
  BY TwoParts
<1> HIDE DEF s
<1>2. ASSUME NEW k \in 1..Len(s) PROVE k \in 1..Len(w) \/ \E l \in 1..Len(t) : k = Len(w) + l /\ s[k] = t[l]
  <2>1. CASE k \notin 1..Len(w)
    <3>1. k - Len(w) \in 1..Len(t) /\ k = Len(w) + (k - Len(w))
      BY <1>1, <2>1 DEF Joins
    <3>2. PICK l \in 1..Len(t) : k = Len(w) + l
      BY <3>1
    <3>3. s[Len(w) + l] = t[l]
      BY <1>1 DEF Joins
    <3> QED BY <3>2, <3>3
  <2> QED BY <2>1
<1>3. ASSUME NEW k \in 1..Len(s), s[k].ev \in {"output", "manager"} PROVE k \in 1..Len(w) /\ s[k] = w[k]
  <2>1. \A l \in 1..Len(t) : t[l].ev # "output" /\ t[l].ev # "manager"
    BY <1>1 DEF Quiet, Joins
  <2>2. k \in 1..Len(w)
    BY <1>2, <1>3, <2>1
  <2> QED BY <1>1, <2>2 DEF Joins
<1>4. \A k \in Outputs(s) : k \in Outputs(w) /\ s[k] = w[k]
  BY <1>1, <1>3 DEF Outputs, Joins
<1>5. \A i : i \in 1..n => i \in 1..m
  OBVIOUS
<1>6. Fresh(s, known, m)
  <2>1. known \subseteq 1..m
    BY <1>5 DEF Fresh
  <2>2. \A k \in Outputs(s) : s[k].id \in (1..m) \ known
    BY <1>4, <1>5 DEF Fresh
  <2>3. \A k, l \in Outputs(s) : s[k].id = s[l].id => k = l
    BY <1>4 DEF Fresh
  <2> QED BY <2>1, <2>2, <2>3 DEF Fresh
<1>7. NoManager(w) => NoManager(s)
  BY <1>3 DEF NoManager
<1>8. ASSUME ManagerAhead(w) PROVE ManagerAhead(s)
  <2>1. PICK k \in 1..Len(w) : w[k].ev = "manager" /\ \A j \in 1..(k - 1) : w[j].ev # "done"
    BY <1>8 DEF ManagerAhead
  <2>2. k \in 1..Len(s) /\ s[k] = w[k] /\ \A j \in 1..(k - 1) : s[j] = w[j]
    BY <1>1 DEF Joins
  <2> QED BY <2>1, <2>2 DEF ManagerAhead
<1> QED BY <1>1, <1>6, <1>7, <1>8 DEF s, Joins

\* Another output is announced, under the next id.
LEMMA FreshPlugged ==
    ASSUME NEW w, IsSeq(w), NEW e, e.ev = "output", NEW known, NEW n \in Nat, e.id = n + 1,
           Fresh(w, known, n)
    PROVE  /\ IsSeq(Append(w, e)) /\ Fresh(Append(w, e), known, n + 1)
           /\ NoManager(w) => NoManager(Append(w, e))
           /\ ManagerAhead(w) => ManagerAhead(Append(w, e))
<1> DEFINE s == Append(w, e)
           one == <<e>>
<1>1. Joins(w, one, s)
  BY AppendIsJoin, OneIsSeq, TwoParts
<1>2. Len(one) = 1 /\ one[1] = e
  OBVIOUS
<1> HIDE DEF s, one
<1>3. Len(w) \in Nat /\ IsSeq(s) /\ Len(s) = Len(w) + 1 /\ s[Len(w) + 1] = e
      /\ (\A k \in 1..Len(w) : s[k] = w[k]) /\ DOMAIN s = 1..Len(s) /\ DOMAIN w = 1..Len(w)
  BY <1>1, <1>2 DEF Joins
<1>4. \A k \in 1..Len(s) : k \in 1..Len(w) \/ k = Len(w) + 1
  BY <1>3
<1>5. ASSUME NEW k \in Outputs(s)
      PROVE  (k \in Outputs(w) /\ s[k] = w[k]) \/ (k = Len(w) + 1 /\ s[k].id = n + 1)
  BY <1>3, <1>4 DEF Outputs
<1>6. \A k \in Outputs(w) : w[k].id \in (1..n) \ known /\ w[k].id # n + 1 /\ w[k].id \in 1..(n + 1)
  BY DEF Fresh
<1>7. n + 1 \notin known /\ n + 1 \in 1..(n + 1) /\ known \subseteq 1..(n + 1)
  BY DEF Fresh
<1>8. \A k, l \in Outputs(s) : s[k].id = s[l].id => k = l
  <2>1. \A k, l \in Outputs(w) : w[k].id = w[l].id => k = l
    BY DEF Fresh
  <2> QED BY <1>5, <1>6, <2>1
<1>9. \A k \in Outputs(s) : s[k].id \in (1..(n + 1)) \ known
  BY <1>5, <1>6, <1>7
<1>10. Fresh(s, known, n + 1)
  BY <1>7, <1>8, <1>9 DEF Fresh
<1>11. NoManager(w) => NoManager(s)
  BY <1>3, <1>4 DEF NoManager
<1>12. ASSUME ManagerAhead(w) PROVE ManagerAhead(s)
  <2>1. PICK k \in 1..Len(w) : w[k].ev = "manager" /\ \A j \in 1..(k - 1) : w[j].ev # "done"
    BY <1>12 DEF ManagerAhead
  <2>2. k \in 1..Len(s) /\ s[k] = w[k] /\ \A j \in 1..(k - 1) : s[j] = w[j]
    BY <1>3
  <2> QED BY <2>1, <2>2 DEF ManagerAhead
<1> QED BY <1>3, <1>10, <1>11, <1>12 DEF s

\* The worker reads the first event.
LEMMA FreshRead ==
    ASSUME NEW w, NEW s, Drops(w, s), NEW known, NEW n \in Nat, Fresh(w, known, n)
    PROVE  /\ Head(w).ev = "output" => Head(w).id \notin known /\ Fresh(s, known \cup {Head(w).id}, n)
           /\ Fresh(s, known, n)
           /\ NoManager(w) => NoManager(s) /\ Head(w).ev # "manager"
           /\ ManagerAhead(w) /\ Head(w).ev # "manager" => Head(w).ev # "done" /\ ManagerAhead(s)
<1>1. \A k \in Outputs(s) : k + 1 \in Outputs(w) /\ s[k] = w[k + 1] /\ k \in Nat /\ k >= 1
  BY DEF Outputs, Drops
<1>2. \A k, l \in Outputs(s) : s[k].id = s[l].id => k = l
  <2> SUFFICES ASSUME NEW k \in Outputs(s), NEW l \in Outputs(s), s[k].id = s[l].id PROVE k = l
    OBVIOUS
  <2>1. k + 1 = l + 1
    BY <1>1 DEF Fresh
  <2> QED BY <1>1, <2>1
<1>3. \A k \in Outputs(s) : s[k].id \in (1..n) \ known
  BY <1>1 DEF Fresh
<1>4. Fresh(s, known, n)
  BY <1>2, <1>3 DEF Fresh
<1>5. ASSUME Head(w).ev = "output"
      PROVE  Head(w).id \notin known /\ Fresh(s, known \cup {Head(w).id}, n)
  <2>1. 1 \in Outputs(w) /\ Head(w) = w[1]
    BY <1>5 DEF Outputs, Drops
  <2>2. Head(w).id \in (1..n) \ known
    BY <2>1 DEF Fresh
  <2>3. ASSUME NEW k \in Outputs(s) PROVE s[k].id # Head(w).id
    <3>1. k + 1 # 1 /\ k + 1 \in Outputs(w) /\ s[k] = w[k + 1]
      BY <1>1
    <3> QED BY <2>1, <3>1 DEF Fresh
  <2>4. known \cup {Head(w).id} \subseteq 1..n
    BY <2>2 DEF Fresh
  <2>5. \A k \in Outputs(s) : s[k].id \in (1..n) \ (known \cup {Head(w).id})
    BY <1>3, <2>3
  <2> QED BY <1>2, <2>2, <2>4, <2>5 DEF Fresh
<1>6. ASSUME NoManager(w) PROVE NoManager(s) /\ Head(w).ev # "manager"
  <2>1. \A k \in 1..Len(w) : w[k].ev # "manager"
    BY <1>6 DEF NoManager
  <2>2. ASSUME NEW k \in 1..Len(s) PROVE s[k].ev # "manager"
    <3>1. k + 1 \in 1..Len(w) /\ s[k] = w[k + 1]
      BY DEF Drops
    <3> QED BY <2>1, <3>1
  <2>3. 1 \in 1..Len(w) /\ Head(w) = w[1]
    BY DEF Drops
  <2> QED BY <2>1, <2>2, <2>3 DEF NoManager
<1>7. ASSUME ManagerAhead(w), Head(w).ev # "manager" PROVE Head(w).ev # "done" /\ ManagerAhead(s)
  <2>1. PICK k \in 1..Len(w) : w[k].ev = "manager" /\ \A j \in 1..(k - 1) : w[j].ev # "done"
    BY <1>7 DEF ManagerAhead
  <2>2. k # 1 /\ Head(w) = w[1] /\ Len(w) \in Nat
    BY <1>7, <2>1 DEF Drops
  <2>3. 1 \in 1..(k - 1)
    BY <2>2
  <2>4. Head(w).ev # "done"
    BY <2>1, <2>2, <2>3
  <2> DEFINE h == k - 1
  <2>5. h \in 1..Len(s) /\ h + 1 = k
    BY <2>2 DEF Drops
  <2>6. s[h].ev = "manager"
    <3>1. s[h] = w[h + 1]
      BY <2>5 DEF Drops
    <3> QED BY <2>1, <2>5, <3>1
  <2>7. ASSUME NEW j \in 1..(h - 1) PROVE s[j].ev # "done"
    <3>1. j \in 1..Len(s) /\ j + 1 \in 1..(k - 1)
      BY <2>5 DEF Drops
    <3>2. s[j] = w[j + 1]
      BY <3>1 DEF Drops
    <3> QED BY <2>1, <3>1, <3>2
  <2>8. \E i \in 1..Len(s) : s[i].ev = "manager" /\ \A j \in 1..(i - 1) : s[j].ev # "done"
    BY <2>5, <2>6, <2>7
  <2> QED BY <2>4, <2>8 DEF ManagerAhead
<1> QED BY <1>4, <1>5, <1>6, <1>7

LEMMA FreshLater ==
    ASSUME NEW w, NEW known, NEW n \in Nat, NEW m \in Nat, n <= m, Fresh(w, known, n)
    PROVE  Fresh(w, known, m)
<1>1. \A i : i \in 1..n => i \in 1..m
  OBVIOUS
<1> QED BY <1>1 DEF Fresh

------------------------------------------------------------------------------
(* Steps.                                                                  *)

LEMMA Count == Cardinality(Connectors) \in Nat
BY PointerAssumption, FS_CardinalityType

\* Steps of the desktop and the compositor.
LEMMA OutsideKeeps ==
    ASSUME IInv, UNCHANGED <<mirror, manager, task, done, offered>>, changes' \in Nat,
           IsSeq(requests'), IsSeq(described'), IsSeq(wire'), Once(requests', described', Attached),
           Fresh(wire', DOMAIN mirror, Highest'),
           NoManager(wire) => NoManager(wire'), ManagerAhead(wire) => ManagerAhead(wire')
    PROVE  IInv'
<1>1. Attached' = Attached
  BY DEF Attached
<1>2. Entries(mirror')
  BY DEF IInv
<1>3. Managed'
  BY <1>1 DEF IInv, Managed
<1> QED BY <1>1, <1>2, <1>3 DEF IInv

LEMMA DesktopKeeps == ASSUME IInv, DesktopChanges PROVE IInv'
<1>1. UNCHANGED <<mirror, manager, task, done, offered, requests>>
  BY DEF DesktopChanges, worker
<1>2. PICK c \in Connectors : Plug(c) \/ Unplug(c) \/ Modeset(c)
  BY DEF DesktopChanges
<1>3. described' = described /\ changes' = changes + 1
  BY <1>2 DEF Plug, Unplug, Modeset, Change
<1>4. Highest \in Nat /\ Highest' \in Nat /\ Highest' = Highest + 1 /\ changes' \in Nat
  BY <1>3, Count DEF IInv, Highest
<1>5. IsSeq(requests') /\ IsSeq(described') /\ Once(requests', described', Attached)
  BY <1>1, <1>3 DEF IInv
<1>6. IsSeq(wire) /\ Fresh(wire, DOMAIN mirror, Highest)
  BY DEF IInv
<1>7. Fresh(wire, DOMAIN mirror, Highest')
  BY <1>4, <1>6, FreshLater
<1>8. CASE Plug(c)
  <2> DEFINE e == Global(desktop'[c].id)
  <2>1. desktop'[c].id = Highest + 1
    <3>1. Cardinality(Connectors) + changes' = Highest + 1
      BY <1>4 DEF Highest
    <3>2. PICK mode \in Modes, scale \in Scales :
             desktop' = [d \in DOMAIN desktop \cup {c} |->
                 IF d = c THEN [id |-> Cardinality(Connectors) + changes', mode |-> mode,
                                scale |-> scale] ELSE desktop[d]]
      BY <1>8 DEF Plug
    <3> QED BY <3>1, <3>2
  <2>2. e.ev = "output" /\ e.id = Highest + 1
    BY <2>1 DEF Global
  <2>3. wire' = Append(wire, e)
    BY <1>8 DEF Plug
  <2> HIDE DEF e
  <2>4. /\ IsSeq(Append(wire, e)) /\ Fresh(Append(wire, e), DOMAIN mirror, Highest + 1)
        /\ NoManager(wire) => NoManager(Append(wire, e))
        /\ ManagerAhead(wire) => ManagerAhead(Append(wire, e))
    BY <1>4, <1>6, <2>2, FreshPlugged
  <2> QED BY <1>1, <1>4, <1>5, <2>3, <2>4, OutsideKeeps
<1>9. CASE Unplug(c)
  <2>1. wire' = wire
    BY <1>9 DEF Unplug
  <2> QED BY <1>1, <1>4, <1>5, <1>6, <1>7, <2>1, OutsideKeeps
<1>10. CASE Modeset(c)
  <2> DEFINE a == IF desktop[c].id \in bound THEN <<Info(c)'>> ELSE <<>>
             b == IF Contains(described, desktop[c].id) THEN <<LogicalSize(c)'>> ELSE <<>>
  <2>1. wire' = (wire \o a) \o b
    BY <1>10 DEF Modeset
  <2>2. Info(c)'.ev = "info" /\ LogicalSize(c)'.ev = "logical"
    BY DEF Info, LogicalSize
  <2>3. \A e : e.ev \notin {"output", "manager"} => IsSeq(<<e>>) /\ Quiet(<<e>>)
    BY OneIsSeq DEF Quiet
  <2>4. IsSeq(<<>>) /\ Quiet(<<>>)
    BY NoneIsSeq DEF Quiet
  <2>5. IsSeq(a) /\ Quiet(a) /\ IsSeq(b) /\ Quiet(b)
    <3> DEFINE i == Info(c)'
               l == LogicalSize(c)'
    <3>1. i.ev = "info" /\ l.ev = "logical"
      BY <2>2
    <3> HIDE DEF i, l
    <3>2. IsSeq(<<i>>) /\ Quiet(<<i>>) /\ IsSeq(<<l>>) /\ Quiet(<<l>>)
      BY <2>3, <3>1
    <3> QED BY <2>4, <3>2 DEF i, l
  <2> HIDE DEF a, b
  <2>6. /\ IsSeq(wire \o a) /\ Fresh(wire \o a, DOMAIN mirror, Highest')
        /\ NoManager(wire) => NoManager(wire \o a)
        /\ ManagerAhead(wire) => ManagerAhead(wire \o a)
    BY <1>4, <1>6, <2>5, FreshQuiet
  <2> DEFINE w == wire \o a
  <2> HIDE DEF w
  <2>7. /\ IsSeq(w \o b) /\ Fresh(w \o b, DOMAIN mirror, Highest')
        /\ NoManager(w) => NoManager(w \o b)
        /\ ManagerAhead(w) => ManagerAhead(w \o b)
    <3>1. Highest' <= Highest' /\ IsSeq(w) /\ Fresh(w, DOMAIN mirror, Highest')
      BY <1>4, <2>6 DEF w
    <3> QED BY <1>4, <2>5, <3>1, FreshQuiet
  <2>8. wire' = w \o b
    BY <2>1 DEF w
  <2>9. /\ NoManager(wire) => NoManager(wire')
        /\ ManagerAhead(wire) => ManagerAhead(wire')
    BY <2>6, <2>7, <2>8 DEF w
  <2> QED BY <1>1, <1>4, <1>5, <2>7, <2>8, <2>9, OutsideKeeps
<1> QED BY <1>2, <1>8, <1>9, <1>10

LEMMA HandleKeeps == ASSUME IInv, Handle PROVE IInv'
<1> DEFINE r == Head(requests)
<1>1. requests # <<>> /\ requests' = Tail(requests)
      /\ UNCHANGED <<mirror, manager, task, done, offered, changes>>
  BY DEF Handle, worker, bounds
<1>2. Drops(requests, Tail(requests))
  BY <1>1, AllButFirst DEF IInv
<1>3. /\ r.rq = "xdg" => Once(requests', Append(described, r.id), Attached)
      /\ r.rq # "xdg" => Once(requests', described, Attached)
  BY <1>1, <1>2, OnceMade DEF IInv
<1>4. \/ r.rq = "xdg" /\ described' = Append(described, r.id)
      \/ r.rq # "xdg" /\ described' = described
  BY DEF Handle
<1>5. Once(requests', described', Attached)
  BY <1>3, <1>4
<1>6. IsSeq(described')
  <2>1. \A h : IsSeq(Append(described, h))
    <3> TAKE h
    <3>1. Append(described, h) = described \o <<h>>
      BY AppendIsJoin DEF IInv
    <3>2. Joins(described, <<h>>, described \o <<h>>)
      BY OneIsSeq, TwoParts DEF IInv
    <3> QED BY <3>1, <3>2 DEF Joins
  <2> QED BY <1>4, <2>1 DEF IInv
<1>7. Highest' = Highest /\ Highest \in Nat /\ changes' \in Nat
  BY <1>1, Count DEF Highest, IInv
<1>8. wire' = wire \/ \E e : e.ev \notin {"output", "manager"} /\ wire' = Append(wire, e)
  <2>1. Info(Of(r.id)).ev = "info" /\ LogicalSize(Of(r.id)).ev = "logical"
    BY DEF Info, LogicalSize
  <2>2. [ev |-> "done"].ev = "done"
    OBVIOUS
  <2> QED BY <2>1, <2>2 DEF Handle
<1>9. /\ IsSeq(wire') /\ Fresh(wire', DOMAIN mirror, Highest)
      /\ NoManager(wire) => NoManager(wire')
      /\ ManagerAhead(wire) => ManagerAhead(wire')
  <2>1. CASE wire' = wire
    BY <2>1 DEF IInv
  <2>2. CASE \E e : e.ev \notin {"output", "manager"} /\ wire' = Append(wire, e)
    <3>1. PICK e : e.ev \notin {"output", "manager"} /\ wire' = Append(wire, e)
      BY <2>2
    <3> DEFINE t == <<e>>
    <3>2. IsSeq(t) /\ Quiet(t) /\ wire' = wire \o t
      BY <3>1, OneIsSeq, AppendIsJoin DEF Quiet, IInv
    <3> HIDE DEF t
    <3>3. Highest <= Highest
      BY <1>7
    <3> QED BY <1>7, <3>2, <3>3, FreshQuiet DEF IInv
  <2> QED BY <1>8, <2>1, <2>2
<1>10. IsSeq(requests')
  BY <1>1, <1>2 DEF Drops
<1> QED BY <1>1, <1>5, <1>6, <1>7, <1>9, <1>10, OutsideKeeps

\* An event that leaves the outputs as they are.
LEMMA ReadQuietKeeps ==
    ASSUME IInv, wire # <<>>, wire' = Tail(wire), UNCHANGED <<requests, described, task, changes, offered>>,
           Head(wire).ev = "manager" => manager', manager => manager',
           ~manager /\ manager' => Head(wire).ev = "manager", manager' \in BOOLEAN,
           done' = done \/ Head(wire).ev = "done",
           Entries(mirror'), DOMAIN mirror' = DOMAIN mirror, Attached' = Attached
    PROVE  IInv'
<1>1. Drops(wire, Tail(wire))
  BY AllButFirst DEF IInv
<1>2. Highest' = Highest /\ Highest \in Nat
  BY Count DEF Highest, IInv
<1>3. /\ Fresh(wire', DOMAIN mirror, Highest)
      /\ NoManager(wire) => NoManager(wire') /\ Head(wire).ev # "manager"
      /\ ManagerAhead(wire) /\ Head(wire).ev # "manager" => Head(wire).ev # "done" /\ ManagerAhead(wire')
  BY <1>1, <1>2, FreshRead DEF IInv
<1>4. Managed'
  <2>1. (manager => offered)' /\ (offered \/ NoManager(wire))'
    BY <1>3 DEF IInv, Managed
  <2>2. ~manager' => Attached' = {}
    BY DEF IInv, Managed
  <2>3. offered' /\ task'.op # "registry" => Attached' = DOMAIN mirror'
    BY DEF IInv, Managed
  <2>4. ASSUME offered', ~manager' PROVE task'.op = "registry" /\ ~done' /\ ManagerAhead(wire')
    <3>1. offered /\ ~manager /\ Head(wire).ev # "manager"
      BY <2>4
    <3> QED BY <1>3, <3>1 DEF IInv, Managed
  <2> QED BY <2>1, <2>2, <2>3, <2>4 DEF IInv, Managed
<1>5. IsSeq(wire')
  BY <1>1 DEF Drops
<1> QED BY <1>2, <1>3, <1>4, <1>5 DEF IInv

LEMMA OutputKeeps ==
    ASSUME IInv, wire # <<>>, wire' = Tail(wire), UNCHANGED <<described, task, changes, offered>>,
           Head(wire).ev = "output", OnOutput(Head(wire))
    PROVE  IInv'
<1> DEFINE e == Head(wire)
           bind == [rq |-> "bind", id |-> e.id]
           xdg == [rq |-> "xdg", id |-> e.id]
           t == <<bind>> \o (IF manager THEN <<xdg>> ELSE <<>>)
           more == IF manager THEN {e.id} ELSE {}
<1>1. Drops(wire, Tail(wire))
  BY AllButFirst DEF IInv
<1>2. Highest' = Highest /\ Highest \in Nat
  BY Count DEF Highest, IInv
<1>3. /\ e.id \notin DOMAIN mirror /\ Fresh(wire', DOMAIN mirror \cup {e.id}, Highest)
      /\ NoManager(wire) => NoManager(wire')
      /\ ManagerAhead(wire) => ManagerAhead(wire')
  BY <1>1, <1>2, FreshRead DEF IInv
<1>4. mirror' = [i \in DOMAIN mirror \cup {e.id} |-> IF i = e.id THEN Entry ELSE mirror[i]]
      /\ requests' = requests \o t /\ UNCHANGED <<manager, done>>
  BY DEF OnOutput, Ask
<1>5. Entry.attached = manager /\ manager \in BOOLEAN
  BY DEF Entry, IInv, Managed
<1>6. DOMAIN mirror' = DOMAIN mirror \cup {e.id}
      /\ mirror'[e.id] = Entry /\ \A i \in DOMAIN mirror : mirror'[i] = mirror[i]
  BY <1>3, <1>4
<1>7. Attached' = Attached \cup more
  <2>1. \A i \in DOMAIN mirror : i \in Attached' <=> i \in Attached
    BY <1>6 DEF Attached
  <2>2. e.id \in Attached' <=> manager
    BY <1>5, <1>6 DEF Attached
  <2>3. Attached' \subseteq DOMAIN mirror \cup {e.id} /\ Attached \subseteq DOMAIN mirror
    BY <1>6 DEF Attached
  <2> QED BY <1>3, <2>1, <2>2, <2>3
<1>8. Entries(mirror')
  <2>1. PICK S : mirror \in [DOMAIN mirror -> [name : S, mode : S, scale : S, logical : S, attached : BOOLEAN]]
    BY DEF IInv, Entries
  <2> DEFINE S2 == S \cup {None, 0}
             R == [name : S2, mode : S2, scale : S2, logical : S2, attached : BOOLEAN]
  <2>2. Entry \in R
    BY <1>5 DEF Entry
  <2>3. \A i \in DOMAIN mirror : mirror[i] \in R
    BY <2>1
  <2> HIDE DEF R
  <2>4. mirror' \in [DOMAIN mirror' -> R]
    BY <1>4, <2>2, <2>3
  <2> QED BY <2>4 DEF Entries, R
<1>9. IsSeq(t) /\ (\A k \in Xdg(t) : t[k].id = e.id) /\ (\A k, l \in Xdg(t) : k = l)
      /\ {t[k].id : k \in Xdg(t)} = more
  <2> DEFINE b == IF manager THEN <<xdg>> ELSE <<>>
  <2>1. bind.rq = "bind" /\ xdg.rq = "xdg" /\ xdg.id = e.id
    OBVIOUS
  <2> HIDE DEF bind, xdg
  <2>2. IsSeq(<<bind>>) /\ Len(<<bind>>) = 1 /\ <<bind>>[1] = bind
    BY OneIsSeq
  <2>3. IsSeq(<<xdg>>) /\ Len(<<xdg>>) = 1 /\ <<xdg>>[1] = xdg
    BY OneIsSeq
  <2>4. IsSeq(b) /\ (manager => Len(b) = 1 /\ b[1] = xdg) /\ (~manager => Len(b) = 0)
    BY <2>3, NoneIsSeq
  <2> HIDE DEF b
  <2>5. Joins(<<bind>>, b, t)
    BY <2>2, <2>4, TwoParts DEF b
  <2> HIDE DEF t
  <2>6. IsSeq(t) /\ t[1] = bind /\ DOMAIN t = 1..Len(t) /\ (manager => Len(t) = 2 /\ t[2] = xdg)
        /\ (~manager => Len(t) = 1)
    <3>1. t[1] = bind
      BY <2>2, <2>5 DEF Joins
    <3>2. manager => t[1 + 1] = xdg
      BY <2>2, <2>4, <2>5 DEF Joins
    <3>3. Len(t) = 1 + Len(b) /\ IsSeq(t) /\ DOMAIN t = 1..Len(t)
      BY <2>2, <2>5 DEF Joins
    <3>4. 1 + 1 = 2 /\ 1 + 0 = 1
      OBVIOUS
    <3>5. manager => Len(t) = 2 /\ t[2] = xdg
      <4>1. HAVE manager
      <4>2. Len(b) = 1
        BY <2>4, <4>1
      <4>3. Len(t) = 2 /\ t[2] = xdg
        BY <3>2, <3>3, <3>4, <4>1, <4>2
      <4> QED BY <4>3
    <3>6. ~manager => Len(t) = 1
      <4>1. HAVE ~manager
      <4>2. Len(b) = 0
        BY <2>4, <4>1
      <4> QED BY <3>3, <3>4, <4>2
    <3> QED BY <3>1, <3>3, <3>5, <3>6
  <2>7. ~manager => Xdg(t) = {}
    BY <2>1, <2>6 DEF Xdg
  <2>8. manager => Xdg(t) = {2}
    BY <2>1, <2>6 DEF Xdg
  <2> QED BY <2>1, <2>6, <2>7, <2>8
<1> HIDE DEF e, t, more
<1>10. Once(requests', described', Attached') /\ IsSeq(requests')
  <2>1. Joins(requests, t, requests \o t)
    BY <1>9, TwoParts DEF IInv
  <2>2. e.id \notin Attached
    BY <1>3 DEF Attached
  <2>3. \A k \in Xdg(t) : t[k].id \notin Attached
    BY <1>9, <2>2
  <2>4. Once(requests \o t, described, Attached \cup {t[k].id : k \in Xdg(t)})
    BY <1>9, <2>1, <2>3, OnceAsked DEF IInv
  <2> QED BY <1>4, <1>7, <1>9, <2>1, <2>4 DEF Joins
<1>11. Managed'
  <2>1. (manager => offered)' /\ (offered \/ NoManager(wire))' /\ manager' \in BOOLEAN /\ offered' \in BOOLEAN
    BY <1>3, <1>4 DEF IInv, Managed
  <2>2. ~manager' => Attached' = {}
    BY <1>4, <1>7 DEF IInv, Managed, more
  <2>3. ASSUME offered', task'.op # "registry" PROVE Attached' = DOMAIN mirror'
    <3>1. manager /\ Attached = DOMAIN mirror
      BY <2>3 DEF IInv, Managed
    <3> QED BY <1>6, <1>7, <3>1 DEF more
  <2>4. offered' /\ ~manager' => task'.op = "registry" /\ ~done' /\ ManagerAhead(wire')
    BY <1>3, <1>4 DEF IInv, Managed
  <2> QED BY <2>1, <2>2, <2>3, <2>4 DEF Managed
<1>12. IsSeq(wire')
  BY <1>1 DEF Drops
<1>13. Fresh(wire', DOMAIN mirror', Highest')
  BY <1>2, <1>3, <1>6
<1> QED BY <1>8, <1>10, <1>11, <1>12, <1>13 DEF IInv

LEMMA ReadKeeps == ASSUME IInv, Read PROVE IInv'
<1> DEFINE e == Head(wire)
<1>1. wire # <<>> /\ wire' = Tail(wire) /\ UNCHANGED <<described, task, changes, offered>>
  BY DEF Read, compositor, bounds
<1>2. CASE e.ev = "output" /\ OnOutput(e)
  BY <1>1, <1>2, OutputKeeps
<1>3. CASE e.ev = "manager" /\ OnManager
  <2>1. manager' = TRUE /\ UNCHANGED <<mirror, done, requests>>
    BY <1>3 DEF OnManager
  <2>2. Entries(mirror') /\ DOMAIN mirror' = DOMAIN mirror /\ Attached' = Attached
    BY <2>1 DEF IInv, Attached
  <2> QED BY <1>1, <1>3, <2>1, <2>2, ReadQuietKeeps
<1>4. PICK S : mirror \in [DOMAIN mirror -> [name : S, mode : S, scale : S, logical : S, attached : BOOLEAN]]
  BY DEF IInv, Entries
<1>5. ASSUME NEW T, DOMAIN mirror' = DOMAIN mirror,
             \A i \in DOMAIN mirror : mirror'[i].attached = mirror[i].attached,
             mirror' \in [DOMAIN mirror' -> [name : T, mode : T, scale : T, logical : T, attached : BOOLEAN]]
      PROVE  Entries(mirror') /\ DOMAIN mirror' = DOMAIN mirror /\ Attached' = Attached
  BY <1>5 DEF Attached, Entries
<1>6. CASE e.ev = "info" /\ OnInfo(e)
  <2>1. mirror' = [mirror EXCEPT ![e.id].name = e.name, ![e.id].mode = e.mode, ![e.id].scale = e.scale]
        /\ UNCHANGED <<manager, done, requests>>
    BY <1>6 DEF OnInfo
  <2> DEFINE T == S \cup {e.name, e.mode, e.scale}
             R == [name : T, mode : T, scale : T, logical : T, attached : BOOLEAN]
  <2>2. DOMAIN mirror' = DOMAIN mirror
    BY <2>1
  <2>3. ASSUME NEW i \in DOMAIN mirror PROVE mirror'[i] \in R /\ mirror'[i].attached = mirror[i].attached
    <3>1. mirror[i] \in [name : S, mode : S, scale : S, logical : S, attached : BOOLEAN]
      BY <1>4
    <3>2. mirror[i] \in R
      BY <3>1
    <3>3. mirror'[i] = IF i = e.id THEN [mirror[i] EXCEPT !.name = e.name, !.mode = e.mode, !.scale = e.scale]
                       ELSE mirror[i]
      BY <1>4, <2>1
    <3> QED BY <3>1, <3>2, <3>3
  <2>4. mirror' \in [DOMAIN mirror' -> R]
    <3>1. mirror' = [i \in DOMAIN mirror' |-> mirror'[i]]
      BY <2>1
    <3> QED BY <2>2, <2>3, <3>1
  <2>5. Entries(mirror') /\ DOMAIN mirror' = DOMAIN mirror /\ Attached' = Attached
    BY <1>5, <2>2, <2>3, <2>4
  <2>6. manager \in BOOLEAN
    BY DEF IInv, Managed
  <2> QED BY <1>1, <1>6, <2>1, <2>5, <2>6, ReadQuietKeeps
<1>7. CASE e.ev = "logical" /\ OnLogical(e)
  <2>1. mirror' = [mirror EXCEPT ![e.id].logical = e.size] /\ UNCHANGED <<manager, done, requests>>
    BY <1>7 DEF OnLogical
  <2> DEFINE T == S \cup {e.size}
             R == [name : T, mode : T, scale : T, logical : T, attached : BOOLEAN]
  <2>2. DOMAIN mirror' = DOMAIN mirror
    BY <2>1
  <2>3. ASSUME NEW i \in DOMAIN mirror PROVE mirror'[i] \in R /\ mirror'[i].attached = mirror[i].attached
    <3>1. mirror[i] \in [name : S, mode : S, scale : S, logical : S, attached : BOOLEAN]
      BY <1>4
    <3>2. mirror[i] \in R
      BY <3>1
    <3>3. mirror'[i] = IF i = e.id THEN [mirror[i] EXCEPT !.logical = e.size] ELSE mirror[i]
      BY <1>4, <2>1
    <3> QED BY <3>1, <3>2, <3>3
  <2>4. mirror' \in [DOMAIN mirror' -> R]
    <3>1. mirror' = [i \in DOMAIN mirror' |-> mirror'[i]]
      BY <2>1
    <3> QED BY <2>2, <2>3, <3>1
  <2>5. Entries(mirror') /\ DOMAIN mirror' = DOMAIN mirror /\ Attached' = Attached
    BY <1>5, <2>2, <2>3, <2>4
  <2>6. manager \in BOOLEAN
    BY DEF IInv, Managed
  <2> QED BY <1>1, <1>7, <2>1, <2>5, <2>6, ReadQuietKeeps
<1>8. CASE e.ev = "done" /\ OnDone
  <2>1. done' = TRUE /\ UNCHANGED <<mirror, manager, requests>>
    BY <1>8 DEF OnDone
  <2>2. Entries(mirror') /\ DOMAIN mirror' = DOMAIN mirror /\ Attached' = Attached /\ manager \in BOOLEAN
    BY <2>1 DEF IInv, Attached, Managed
  <2> QED BY <1>1, <1>8, <2>1, <2>2, ReadQuietKeeps
<1> QED BY <1>2, <1>3, <1>6, <1>7, <1>8 DEF Read

------------------------------------------------------------------------------
(* The worker's own steps: each asks for a roundtrip, or for nothing.      *)

\* Requests for no object, and the roundtrip after them.
LEMMA OnceSynced ==
    ASSUME NEW r, IsSeq(r), NEW t, IsSeq(t), Plain(t), NEW d, NEW on, Once(r, d, on)
    PROVE  IsSeq(r \o Append(t, Sync)) /\ Once(r \o Append(t, Sync), d, on)
<1> DEFINE one == <<Sync>>
           s == t \o one
<1>1. IsSeq(one) /\ Len(one) = 1 /\ one[1] = Sync
  BY OneIsSeq
<1>2. Append(t, Sync) = s
  BY AppendIsJoin
<1> HIDE DEF one
<1>3. Joins(t, one, s)
  BY <1>1, TwoParts
<1> HIDE DEF s
<1>4. Sync.rq # "xdg"
  BY DEF Sync
<1>5. Plain(s)
  <2> SUFFICES ASSUME NEW k \in DOMAIN s PROVE s[k].rq # "xdg"
    BY DEF Plain
  <2>1. k \in 1..Len(s) /\ Len(s) = Len(t) + 1
    BY <1>1, <1>3 DEF Joins
  <2>2. CASE k \in 1..Len(t)
    BY <1>3, <2>2 DEF Joins, Plain
  <2>3. CASE k = Len(t) + 1
    <3>1. s[k] = one[1]
      BY <1>1, <1>3, <2>3 DEF Joins
    <3> QED BY <1>1, <1>4, <3>1
  <2>4. k \in 1..Len(t) \/ k = Len(t) + 1
    BY <1>3, <2>1 DEF Joins
  <2> QED BY <2>2, <2>3, <2>4
<1>6. IsSeq(r \o s) /\ Once(r \o s, d, on)
  BY <1>3, <1>5, OncePlain DEF Joins
<1> QED BY <1>2, <1>6

\* Once the outputs are attached, or if nothing ever is.
LEMMA LaterKeeps ==
    ASSUME IInv, IsSeq(requests'), Once(requests', described, Attached),
           UNCHANGED <<described, mirror, manager, wire, changes, offered>>,
           task.op # "registry" \/ ~offered, task'.op # "registry"
    PROVE  IInv'
<1>1. UNCHANGED <<Attached, Highest>>
  BY DEF Attached, Highest
<1>2. Managed'
  <2>1. manager \/ ~offered
    BY DEF IInv, Managed
  <2>2. offered => Attached = DOMAIN mirror
    BY DEF IInv, Managed
  <2> QED BY <1>1, <2>1, <2>2 DEF IInv, Managed
<1> QED BY <1>1, <1>2 DEF IInv

\* A finite set as a sequence: every member, once.
LEMMA EachOnce ==
    ASSUME NEW S, IsFiniteSet(S)
    PROVE  /\ SetToSeq(S) \in Seq(S) /\ DOMAIN SetToSeq(S) = 1..Len(SetToSeq(S))
           /\ IsInjective(SetToSeq(S))
           /\ \A i \in S : \E k \in DOMAIN SetToSeq(S) : SetToSeq(S)[k] = i
<1> DEFINE n == Cardinality(S)
           f == SetToSeq(S)
<1>1. n \in Nat /\ ExistsBijection(1..n, S)
  BY FS_CardinalityType
<1>2. PICK g : g \in Bijection(1..n, S)
  BY <1>1 DEF ExistsBijection
<1>3. g \in [1..n -> S] /\ IsInjective(g)
  BY <1>2 DEF Bijection, Injection
<1>4. f \in [1..n -> S] /\ IsInjective(f)
  BY <1>3 DEF SetToSeq
<1> HIDE DEF f
<1>5. f \in Injection(1..n, S)
  BY <1>4 DEF Injection
<1>6. IsFiniteSet(1..n) /\ Cardinality(1..n) = n
  <2>1. 1 \in Int /\ n \in Int /\ n - 1 + 1 = n
    BY <1>1
  <2>2. IsFiniteSet(1..n) /\ Cardinality(1..n) = IF 1 > n THEN 0 ELSE n - 1 + 1
    BY <2>1, FS_Interval
  <2>3. 1 > n => n = 0
    BY <1>1
  <2> QED BY <2>1, <2>2, <2>3
<1>7. f \in Surjection(1..n, S)
  BY <1>5, <1>6, FS_Injection
<1>8. \A i \in S : \E k \in 1..n : f[k] = i
  BY <1>7 DEF Surjection
<1> HIDE DEF n
<1>9. f \in Seq(S) /\ DOMAIN f = 1..Len(f) /\ DOMAIN f = 1..n
  BY <1>1, <1>4
<1> QED BY <1>4, <1>8, <1>9 DEF f

\* Requests for an object each, and the roundtrip after them.
Objects(ids) == [i \in DOMAIN ids |-> [rq |-> "xdg", id |-> ids[i]]]

LEMMA OnceFixed ==
    ASSUME NEW S, IsFiniteSet(S), NEW r, IsSeq(r), NEW d, NEW on, Once(r, d, on),
           \A i \in S : i \notin on
    PROVE  LET t == Append(Objects(SetToSeq(S)), Sync)
           IN IsSeq(r \o t) /\ Once(r \o t, d, on \cup S)
<1> DEFINE ids == SetToSeq(S)
           xs == Objects(ids)
           one == <<Sync>>
           t == xs \o one
           n == Len(ids)
<1>1. ids \in Seq(S) /\ DOMAIN ids = 1..n /\ IsInjective(ids)
      /\ \A i \in S : \E k \in DOMAIN ids : ids[k] = i
  BY EachOnce
<1>2. n \in Nat /\ \A k \in 1..n : ids[k] \in S
  BY <1>1
<1>3. \A k, l \in 1..n : ids[k] = ids[l] => k = l
  BY <1>1 DEF IsInjective
<1>4. \A i \in S : \E k \in 1..n : ids[k] = i
  BY <1>1
<1>5. xs = [i \in 1..n |-> [rq |-> "xdg", id |-> ids[i]]]
  BY <1>1 DEF Objects
<1> HIDE DEF ids, n
<1>6. \A k \in 1..n : xs[k].rq = "xdg" /\ xs[k].id = ids[k]
  BY <1>5
<1>7. IsSeq(xs) /\ Len(xs) = n
  <2> DEFINE R == [rq : {"xdg"}, id : S]
  <2>1. xs \in [1..n -> R]
    BY <1>2, <1>5
  <2> HIDE DEF R, xs
  <2>2. xs \in Seq(R) /\ Len(xs) = n
    BY <1>2, <2>1
  <2> QED BY <2>2 DEF IsSeq
<1> HIDE DEF xs
<1>8. IsSeq(one) /\ Len(one) = 1 /\ one[1] = Sync
  BY OneIsSeq
<1>9. Append(xs, Sync) = t
  BY <1>7, AppendIsJoin
<1> HIDE DEF one
<1>10. Joins(xs, one, t)
  BY <1>7, <1>8, TwoParts
<1> HIDE DEF t
<1>11. Sync.rq # "xdg"
  BY DEF Sync
<1>12. \A k \in 1..n : t[k] = xs[k]
  BY <1>7, <1>10 DEF Joins
<1>13. t[n + 1] = Sync /\ DOMAIN t = 1..(n + 1)
  <2>1. t[Len(xs) + 1] = one[1] /\ Len(t) = Len(xs) + Len(one) /\ DOMAIN t = 1..Len(t)
    BY <1>8, <1>10 DEF Joins
  <2> QED BY <1>7, <1>8, <2>1
<1>14. Xdg(t) = 1..n
  <2>1. ASSUME NEW k \in Xdg(t) PROVE k \in 1..n
    <3>1. k \in 1..(n + 1) /\ k # n + 1
      BY <1>11, <1>13 DEF Xdg
    <3> QED BY <1>2, <3>1
  <2>2. ASSUME NEW k \in 1..n PROVE k \in Xdg(t)
    <3>1. k \in DOMAIN t
      BY <1>2, <1>13
    <3>2. t[k].rq = "xdg"
      BY <1>6, <1>12
    <3> QED BY <3>1, <3>2 DEF Xdg
  <2> QED BY <2>1, <2>2
<1>15. \A k \in Xdg(t) : t[k].id = ids[k]
  BY <1>6, <1>12, <1>14
<1> DEFINE more == {t[k].id : k \in Xdg(t)}
<1>16. more = S
  <2>1. \A i \in more : i \in S
    BY <1>2, <1>14, <1>15
  <2>2. \A i \in S : i \in more
    BY <1>4, <1>14, <1>15
  <2> QED BY <2>1, <2>2
<1>17. \A k, l \in Xdg(t) : t[k].id = t[l].id => k = l
  BY <1>3, <1>14, <1>15
<1>18. \A k \in Xdg(t) : t[k].id \notin on
  BY <1>2, <1>14, <1>15
<1>19. Joins(r, t, r \o t)
  BY <1>10, TwoParts DEF Joins
<1>20. Once(r \o t, d, on \cup more)
  BY <1>17, <1>18, <1>19, OnceAsked
<1> HIDE DEF more
<1>21. IsSeq(r \o t) /\ Once(r \o t, d, on \cup S)
  BY <1>16, <1>19, <1>20 DEF Joins
<1> QED BY <1>9, <1>21 DEF xs, ids

LEMMA FixupKeeps ==
    ASSUME IInv, Fixup, manager, UNCHANGED <<compositor, wire, offered, bounds, seen>>
    PROVE  IInv'
<1> DEFINE ids == SetToSeq(Unattached)
           t == Append(Objects(ids), Sync)
<1>1. /\ task.op = "registry" /\ done /\ UNCHANGED <<manager, described, wire, offered, changes>>
      /\ task' = [op |-> "fixup"] /\ done' = FALSE /\ requests' = requests \o t
      /\ mirror' = [i \in DOMAIN mirror |-> [mirror[i] EXCEPT !.attached = TRUE]]
  BY DEF Fixup, Roundtrip, Ask, Objects, compositor, bounds
<1> HIDE DEF t
<1>2. Highest' = Highest /\ Highest \in Nat
  BY <1>1, Count DEF Highest, IInv
<1>3. IsFiniteSet(Unattached)
  <2>1. DOMAIN mirror \subseteq 1..Highest
    BY DEF IInv, Fresh
  <2>2. IsFiniteSet(1..Highest)
    BY <1>2, FS_Interval
  <2>3. Unattached \subseteq 1..Highest
    BY <2>1 DEF Unattached
  <2> QED BY <2>2, <2>3, FS_Subset
<1>4. PICK S : mirror \in [DOMAIN mirror -> [name : S, mode : S, scale : S, logical : S, attached : BOOLEAN]]
  BY DEF IInv, Entries
<1>5. \A i \in DOMAIN mirror : /\ mirror'[i] \in [name : S, mode : S, scale : S, logical : S, attached : BOOLEAN]
                               /\ mirror'[i].attached = TRUE
  BY <1>1, <1>4
<1>6. DOMAIN mirror' = DOMAIN mirror
  BY <1>1
<1>7. Entries(mirror')
  <2> DEFINE R == [name : S, mode : S, scale : S, logical : S, attached : BOOLEAN]
  <2>1. \A i \in DOMAIN mirror : mirror'[i] \in R
    BY <1>5
  <2> HIDE DEF R
  <2>2. mirror' \in [DOMAIN mirror' -> R]
    BY <1>1, <1>6, <2>1
  <2> QED BY <2>2 DEF Entries, R
<1>8. Attached' = DOMAIN mirror
  BY <1>5, <1>6 DEF Attached
<1>9. Attached' = Attached \cup Unattached
  BY <1>8 DEF Attached, Unattached
<1>10. \A i \in Unattached : i \notin Attached
  BY DEF Attached, Unattached
<1>11. IsSeq(requests') /\ Once(requests', described, Attached')
  <2>1. IsSeq(requests \o t) /\ Once(requests \o t, described, Attached \cup Unattached)
    BY <1>3, <1>10, OnceFixed DEF IInv, t
  <2> QED BY <1>1, <1>9, <2>1
<1>12. Managed'
  BY <1>1, <1>6, <1>8 DEF IInv, Managed
<1>13. Fresh(wire', DOMAIN mirror', Highest') /\ IsSeq(wire') /\ IsSeq(described') /\ changes' \in Nat
  BY <1>1, <1>2, <1>6 DEF IInv
<1> QED BY <1>1, <1>7, <1>11, <1>12, <1>13 DEF IInv

\* The requests for the objects that are missing.
LEMMA FixupAsks ==
    ASSUME IInv
    PROVE  /\ IsSeq(Objects(SetToSeq(Unattached)))
           /\ \A k \in DOMAIN Objects(SetToSeq(Unattached)) : Objects(SetToSeq(Unattached))[k].rq = "xdg"
<1> DEFINE ids == SetToSeq(Unattached)
           x == Objects(ids)
<1>1. x = [i \in DOMAIN ids |-> [rq |-> "xdg", id |-> ids[i]]]
  BY DEF Objects
<1>2. ids \in Seq(Unattached) /\ DOMAIN ids = 1..Len(ids)
  <2>1. Highest \in Nat /\ DOMAIN mirror \subseteq 1..Highest
    BY Count DEF IInv, Fresh, Highest
  <2>2. IsFiniteSet(1..Highest)
    BY <2>1, FS_Interval
  <2>3. Unattached \subseteq 1..Highest
    BY <2>1 DEF Unattached
  <2>4. IsFiniteSet(Unattached)
    BY <2>2, <2>3, FS_Subset
  <2> QED BY <2>4, EachOnce
<1> HIDE DEF x, ids
<1>3. \A k \in DOMAIN x : x[k].rq = "xdg"
  BY <1>1
<1>4. IsSeq(x)
  <2> DEFINE R == [rq : {"xdg"}, id : Unattached]
             n == Len(ids)
  <2>1. n \in Nat /\ x \in [1..n -> R]
    BY <1>1, <1>2
  <2> HIDE DEF R, n
  <2>2. x \in Seq(R)
    BY <2>1
  <2> QED BY <2>2 DEF IsSeq
<1> QED BY <1>3, <1>4 DEF x, ids

LEMMA StartKeeps == ASSUME IInv, Start PROVE IInv'
<1>1. UNCHANGED <<described, wire, offered, changes>>
  BY DEF Start, compositor, bounds
<1>2. CASE Fixup /\ manager
  BY <1>2, FixupKeeps DEF Start
<1>3. CASE (Fixup /\ ~manager) \/ CreateObjects
  <2>1. requests' = requests \o Append(<<>>, Sync) /\ UNCHANGED <<mirror, manager>>
        /\ task'.op # "registry" /\ done
    BY <1>3 DEF Fixup, CreateObjects, Roundtrip, Ask
  <2>2. task.op # "registry" \/ ~offered
    BY <1>3 DEF Fixup, CreateObjects, IInv, Managed
  <2>3. Plain(<<>>) /\ IsSeq(<<>>)
    BY NoneIsSeq DEF Plain
  <2>4. IsSeq(requests') /\ Once(requests', described, Attached)
    BY <2>1, <2>3, OnceSynced DEF IInv
  <2> QED BY <1>1, <2>1, <2>2, <2>4, LaterKeeps
<1>4. CASE Ready
  <2>1. UNCHANGED <<requests, mirror, manager>> /\ task.op = "create" /\ task'.op = "idle"
    BY <1>4 DEF Ready
  <2> QED BY <1>1, <2>1, LaterKeeps DEF IInv
<1> QED BY <1>2, <1>3, <1>4 DEF Start

\* A command asks for inputs, if for anything, and for the roundtrip.
Inputs(t) == \A k \in DOMAIN t : t[k].rq \in {"pointer", "motion", "relative", "button"}
Commands ==
    \E t : /\ IsSeq(t) /\ Inputs(t) /\ requests' = requests \o Append(t, Sync)
          /\ task'.op # "registry" /\ (task'.op = "list" => List)

LEMMA InputsJoin ==
    ASSUME NEW a, IsSeq(a), Inputs(a), NEW b, IsSeq(b), Inputs(b)
    PROVE  IsSeq(a \o b) /\ Inputs(a \o b)
<1> DEFINE s == a \o b
<1>1. Joins(a, b, s)
  BY TwoParts
<1> HIDE DEF s
<1>2. ASSUME NEW k \in DOMAIN s
      PROVE  (k \in DOMAIN a /\ s[k] = a[k]) \/ \E l \in DOMAIN b : s[k] = b[l]
  <2>1. CASE k \in DOMAIN a
    BY <1>1, <2>1 DEF Joins
  <2>2. CASE k \notin DOMAIN a
    <3>1. k - Len(a) \in DOMAIN b /\ k = Len(a) + (k - Len(a))
      BY <1>1, <2>2 DEF Joins
    <3>2. PICK l \in DOMAIN b : k = Len(a) + l
      BY <3>1
    <3>3. s[Len(a) + l] = b[l]
      BY <1>1 DEF Joins
    <3> QED BY <3>2, <3>3
  <2> QED BY <2>1, <2>2
<1>3. Inputs(s)
  BY <1>2 DEF Inputs
<1> QED BY <1>1, <1>3 DEF Joins, s

LEMMA IssueAsks == ASSUME Issue PROVE Commands
<1>1. CASE List
  <2>1. IsSeq(<<>>) /\ Inputs(<<>>)
    BY NoneIsSeq DEF Inputs
  <2> QED BY <1>1, <2>1 DEF List, Roundtrip, Ask, Commands
<1>2. ASSUME NEW kind \in Ops, Input(kind)
      PROVE Commands
  <2> DEFINE r == [rq |-> kind]
  <2>1. r.rq \in {"relative", "button"} /\ requests' = requests \o Append(<<r>>, Sync)
       /\ task'.op \in {"relative", "button"}
    BY <1>2 DEF Input, Roundtrip, Ask
  <2> HIDE DEF r
  <2>2. IsSeq(<<r>>) /\ Inputs(<<r>>)
    BY <2>1, OneIsSeq DEF Inputs
  <2> QED BY <2>1, <2>2 DEF Commands
<1>3. \A p, x, extent : IsSeq(<<Motion(p, x, extent)>>) /\ Inputs(<<Motion(p, x, extent)>>)
  <2> SUFFICES ASSUME NEW p, NEW x, NEW extent
               PROVE IsSeq(<<Motion(p, x, extent)>>) /\ Inputs(<<Motion(p, x, extent)>>)
    OBVIOUS
  <2> DEFINE m == Motion(p, x, extent)
  <2>1. m.rq = "motion"
    BY DEF Motion
  <2> HIDE DEF m
  <2>2. IsSeq(<<m>>) /\ Inputs(<<m>>)
    BY <2>1, OneIsSeq DEF Inputs
  <2> QED BY <2>2 DEF m
<1>4. ASSUME NEW x \in Coordinates, Move(x)
      PROVE Commands
  <2>1. PICK extent \in Extents : requests' = requests \o Append(<<Motion("default", x, extent)>>, Sync)
                                  /\ task'.op = "move"
    BY <1>4 DEF Move, Roundtrip, Ask
  <2> QED BY <1>3, <2>1 DEF Commands
<1>5. ASSUME NEW c \in Connectors, NEW x \in Coordinates, MoveToOutput(c, x)
      PROVE Commands
  <2>0. PICK i \in DOMAIN mirror :
           LET made == Cached(c) = {}
               q == IF made THEN c ELSE CHOOSE q \in Cached(c) : TRUE
               make == IF made THEN <<[rq |-> "pointer", name |-> c, id |-> i]>> ELSE <<>>
           IN requests' = requests \o Append(make \o <<Motion(q, x, mirror[i].mode)>>, Sync)
              /\ task'.op = "moveto"
    BY <1>5 DEF MoveToOutput, Roundtrip, Ask
  <2> DEFINE made == Cached(c) = {}
             p == IF made THEN c ELSE CHOOSE q \in Cached(c) : TRUE
             make == IF made THEN <<[rq |-> "pointer", name |-> c, id |-> i]>> ELSE <<>>
  <2>1. /\ make = <<>> \/ make = <<[rq |-> "pointer", name |-> c, id |-> i]>>
        /\ requests' = requests \o Append(make \o <<Motion(p, x, mirror[i].mode)>>, Sync)
        /\ task'.op = "moveto"
    BY <2>0
  <2> HIDE DEF p, make, made
  <2> DEFINE new == [rq |-> "pointer", name |-> c, id |-> i]
             one == <<Motion(p, x, mirror[i].mode)>>
  <2>2. new.rq = "pointer"
    OBVIOUS
  <2> HIDE DEF new
  <2>3. IsSeq(make) /\ Inputs(make)
    <3>1. make = <<>> \/ make = <<new>>
      BY <2>1 DEF new
    <3>2. CASE make = <<>>
      BY <3>2, NoneIsSeq DEF Inputs
    <3>3. CASE make = <<new>>
      BY <2>2, <3>3, OneIsSeq DEF Inputs
    <3> QED BY <3>1, <3>2, <3>3
  <2>4. IsSeq(one) /\ Inputs(one)
    BY <1>3
  <2> HIDE DEF one
  <2>5. IsSeq(make \o one) /\ Inputs(make \o one)
    BY <2>3, <2>4, InputsJoin
  <2> QED BY <2>1, <2>5 DEF one, Commands
<1>6. ASSUME NEW c \in Connectors, NEW x \in Coordinates, NoSuchOutput(c, x)
      PROVE Commands
  <2>1. IsSeq(<<>>) /\ Inputs(<<>>)
    BY NoneIsSeq DEF Inputs
  <2>2. requests' = requests \o Append(<<>>, Sync) /\ task'.op = "moveto"
    BY <1>6 DEF NoSuchOutput, Roundtrip, Ask
  <2> QED BY <2>1, <2>2 DEF Commands
<1> QED BY <1>1, <1>2, <1>4, <1>5, <1>6 DEF Issue

LEMMA IssueKeeps == ASSUME IInv, Issue PROVE IInv'
<1>1. UNCHANGED <<described, wire, offered, changes, mirror, manager>> /\ task.op = "idle"
  BY DEF Issue, compositor
<1>2. PICK t : IsSeq(t) /\ Inputs(t) /\ requests' = requests \o Append(t, Sync)
  BY IssueAsks DEF Commands
<1>3. Plain(t)
  BY <1>2 DEF Inputs, Plain
<1>4. IsSeq(requests') /\ Once(requests', described, Attached)
  BY <1>2, <1>3, OnceSynced DEF IInv
<1>5. task'.op # "registry"
  BY IssueAsks DEF Commands
<1> QED BY <1>1, <1>4, <1>5, LaterKeeps

LEMMA ReplyKeeps == ASSUME IInv, Reply PROVE IInv'
<1>1. UNCHANGED <<requests, described, wire, offered, changes, mirror, manager>>
      /\ task.op \in Ops /\ task'.op = "idle"
  BY DEF Reply, compositor, bounds
<1>2. task.op # "registry"
  BY <1>1, PointerAssumption
<1> QED BY <1>1, <1>2, LaterKeeps DEF IInv

------------------------------------------------------------------------------

LEMMA PartOf ==
    ASSUME NEW S, NEW s \in Seq(S), NEW a \in Int, NEW b \in Int, a >= 1, b <= Len(s), a <= b + 1
    PROVE  /\ IsSeq(SubSeq(s, a, b)) /\ Len(SubSeq(s, a, b)) = (b + 1) - a
           /\ \A k \in 1..((b + 1) - a) : SubSeq(s, a, b)[k] = s[(a - 1) + k]
<1>1. Len(SubSeq(s, a, b)) = (b + 1) - a
  OBVIOUS
<1>2. \A k \in 1..((b + 1) - a) : SubSeq(s, a, b)[k] = s[(a - 1) + k]
  OBVIOUS
<1>3. SubSeq(s, a, b) \in Seq(S)
  OBVIOUS
<1> QED BY <1>1, <1>2, <1>3 DEF IsSeq

\* The outputs that there are, announced in order, and the manager among them.
Announced(w, n, at, m) ==
    /\ IsSeq(w) /\ Len(w) = n + 1 /\ DOMAIN w = 1..(n + 1) /\ w[at] = m
    /\ \A k \in 1..(at - 1) : w[k] = Global(k)
    /\ \A k \in (at + 1)..(n + 1) : w[k] = Global(k - 1)

LEMMA Inserted ==
    ASSUME NEW n \in Nat, NEW at \in 1..(n + 1), NEW m
    PROVE  Announced(InsertAt([i \in 1..n |-> Global(i)], at, m), n, at, m)
<1> DEFINE s == [i \in 1..n |-> Global(i)]
           a == SubSeq(s, 1, at - 1)
           b == SubSeq(s, at, n)
           one == <<m>>
           am == a \o one
           w == am \o b
<1>1. s \in Seq({Global(i) : i \in 1..n}) /\ Len(s) = n /\ \A k \in 1..n : s[k] = Global(k)
  <2> DEFINE G == {Global(i) : i \in 1..n}
  <2>1. s \in [1..n -> G]
    OBVIOUS
  <2>2. \A k \in 1..n : s[k] = Global(k)
    OBVIOUS
  <2> HIDE DEF G, s
  <2>3. s \in Seq(G)
    BY <2>1
  <2>4. Len(s) = n
    BY <2>1
  <2>5. \A k \in 1..n : s[k] = Global(k)
    BY <2>2
  <2> QED BY <2>3, <2>4, <2>5 DEF G
<1>2. InsertAt(s, at, m) = w
  BY <1>1 DEF InsertAt
<1> HIDE DEF s
<1>3. at \in Int /\ at >= 1 /\ at <= n + 1 /\ at - 1 \in Int /\ at - 1 <= n /\ (at - 1) + 1 = at
      /\ (n + 1) - at \in Nat /\ at - 1 \in Nat
  OBVIOUS
<1>4. IsSeq(a) /\ Len(a) = at - 1 /\ \A k \in 1..(at - 1) : a[k] = s[k]
  <2>1. IsSeq(a) /\ Len(a) = ((at - 1) + 1) - 1
        /\ \A k \in 1..(((at - 1) + 1) - 1) : a[k] = s[(1 - 1) + k]
    BY <1>1, <1>3, PartOf
  <2>2. ((at - 1) + 1) - 1 = at - 1 /\ \A k \in 1..(at - 1) : (1 - 1) + k = k
    OBVIOUS
  <2> HIDE DEF a
  <2> QED BY <2>1, <2>2
<1>5. IsSeq(b) /\ Len(b) = (n + 1) - at /\ \A k \in 1..((n + 1) - at) : b[k] = s[(at - 1) + k]
  BY <1>1, <1>3, PartOf
<1> HIDE DEF a, b
<1>6. IsSeq(one) /\ Len(one) = 1 /\ one[1] = m
  BY OneIsSeq
<1> HIDE DEF one
<1>7. Joins(a, one, am)
  BY <1>4, <1>6, TwoParts
<1> HIDE DEF am
<1>8. Len(am) = at /\ am[at] = m /\ IsSeq(am) /\ \A k \in 1..(at - 1) : am[k] = a[k]
  <2>1. Len(am) = Len(a) + Len(one) /\ am[Len(a) + 1] = one[1] /\ IsSeq(am)
    BY <1>6, <1>7 DEF Joins
  <2>2. \A k \in 1..(at - 1) : am[k] = a[k]
    BY <1>4, <1>7 DEF Joins
  <2> QED BY <1>3, <1>4, <1>6, <2>1, <2>2
<1>9. Joins(am, b, w)
  BY <1>5, <1>8, TwoParts
<1> HIDE DEF w
<1>10. Len(w) = n + 1 /\ IsSeq(w) /\ DOMAIN w = 1..(n + 1)
  <2>1. Len(w) = Len(am) + Len(b) /\ IsSeq(w) /\ DOMAIN w = 1..Len(w)
    BY <1>9 DEF Joins
  <2>2. at + ((n + 1) - at) = n + 1
    OBVIOUS
  <2> QED BY <1>5, <1>8, <2>1, <2>2
<1>11. \A k \in 1..at : w[k] = am[k]
  BY <1>8, <1>9 DEF Joins
<1>12. w[at] = m
  BY <1>3, <1>8, <1>11
<1>13. ASSUME NEW k \in 1..(at - 1) PROVE w[k] = Global(k)
  <2>1. k \in 1..at /\ k \in 1..n
    OBVIOUS
  <2> QED BY <1>1, <1>4, <1>8, <1>11, <2>1
<1>14. ASSUME NEW k \in (at + 1)..(n + 1) PROVE w[k] = Global(k - 1)
  <2>1. PICK j \in 1..((n + 1) - at) : k = at + j
    <3>1. k - at \in 1..((n + 1) - at) /\ k = at + (k - at)
      OBVIOUS
    <3> QED BY <3>1
  <2>2. w[at + j] = b[j]
    BY <1>5, <1>8, <1>9 DEF Joins
  <2>3. (at - 1) + j = k - 1 /\ k - 1 \in 1..n
    BY <2>1
  <2> QED BY <1>1, <1>5, <2>1, <2>2, <2>3
<1>15. Announced(w, n, at, m)
  BY <1>10, <1>12, <1>13, <1>14 DEF Announced
<1> QED BY <1>2, <1>15 DEF s

LEMMA InitKeeps == Init => IInv
<1> SUFFICES ASSUME Init PROVE IInv
  OBVIOUS
<1> DEFINE n == Cardinality(Connectors)
           outputs == [i \in 1..n |-> Global(i)]
           m == [ev |-> "manager"]
<1>1. n \in Nat /\ Highest = n + 0
  BY Count DEF Init, Highest
<1>2. Highest = n
  BY <1>1
<1>3. described = <<>> /\ requests = <<Sync>> /\ mirror = <<>> /\ changes = 0 /\ manager = FALSE
      /\ task.op = "registry" /\ done = FALSE
  BY DEF Init
<1>4. \/ offered = TRUE /\ \E at \in 1..(n + 1) : wire = InsertAt(outputs, at, m)
      \/ offered = FALSE /\ wire = outputs
  BY DEF Init
<1> HIDE DEF n
<1>5. DOMAIN mirror = {} /\ DOMAIN described = {} /\ Attached = {} /\ IsSeq(described)
  BY <1>3, NoneIsSeq DEF Attached
<1>6. Entries(mirror)
  <2> DEFINE R == [name : {}, mode : {}, scale : {}, logical : {}, attached : BOOLEAN]
  <2> HIDE DEF R
  <2>1. mirror \in [DOMAIN mirror -> R]
    BY <1>3
  <2> QED BY <2>1 DEF Entries, R
<1>7. IsSeq(requests) /\ Once(requests, described, Attached)
  <2>1. IsSeq(<<Sync>>) /\ <<Sync>>[1] = Sync /\ Len(<<Sync>>) = 1 /\ DOMAIN <<Sync>> = {1}
    BY OneIsSeq
  <2>2. Sync.rq # "xdg"
    BY DEF Sync
  <2>3. Xdg(requests) = {}
    BY <1>3, <2>1, <2>2 DEF Xdg
  <2>4. Once(requests, described, Attached)
    BY <1>5, <2>3 DEF Once, IsInjective
  <2> QED BY <1>3, <2>1, <2>4
<1>8. \A k : Global(k).ev = "output" /\ Global(k).id = k
  BY DEF Global
<1>9. m.ev = "manager"
  OBVIOUS
<1> HIDE DEF m, outputs
<1>10. CASE offered = FALSE /\ wire = outputs
  <2>1. wire \in [1..n -> {Global(i) : i \in 1..n}] /\ \A k \in 1..n : wire[k] = Global(k)
    BY <1>10 DEF outputs
  <2> DEFINE G == {Global(i) : i \in 1..n}
  <2> HIDE DEF G
  <2>2. wire \in [1..n -> G]
    BY <2>1 DEF G
  <2>3. wire \in Seq(G) /\ Len(wire) = n /\ DOMAIN wire = 1..n
    BY <1>1, <2>2
  <2>4. Fresh(wire, DOMAIN mirror, Highest)
    <3>1. \A k \in Outputs(wire) : k \in 1..n /\ wire[k].id = k
      BY <1>8, <2>1, <2>3 DEF Outputs
    <3>2. \A k \in Outputs(wire) : wire[k].id \in 1..n
      BY <3>1
    <3>3. \A k, l \in Outputs(wire) : wire[k].id = wire[l].id => k = l
      BY <3>1
    <3> QED BY <1>2, <1>5, <3>2, <3>3 DEF Fresh
  <2>5. NoManager(wire)
    BY <1>8, <2>1, <2>3 DEF NoManager
  <2>6. Managed
    BY <1>3, <1>5, <1>10, <2>5 DEF Managed
  <2> QED BY <1>3, <1>5, <1>6, <1>7, <2>3, <2>4, <2>6 DEF IInv, IsSeq
<1>11. CASE offered = TRUE /\ \E at \in 1..(n + 1) : wire = InsertAt(outputs, at, m)
  <2>1. PICK at \in 1..(n + 1) : Announced(wire, n, at, m)
    BY <1>1, <1>11, Inserted DEF outputs
  <2>2. at \in Int /\ 1 <= at /\ at <= n + 1 /\ DOMAIN wire = 1..(n + 1) /\ Len(wire) = n + 1
    BY <1>1, <2>1 DEF Announced
  <2>3. wire[at].ev = "manager"
    BY <1>9, <2>1 DEF Announced
  <2>4. \A k \in 1..(at - 1) : wire[k].ev = "output" /\ wire[k].id = k
    BY <1>8, <2>1 DEF Announced
  <2>5. \A k \in (at + 1)..(n + 1) : wire[k].ev = "output" /\ wire[k].id = k - 1
    BY <1>8, <2>1 DEF Announced
  <2>6. ASSUME NEW k \in Outputs(wire)
        PROVE \/ k \in 1..(at - 1) /\ wire[k].id = k
              \/ k \in (at + 1)..(n + 1) /\ wire[k].id = k - 1
    <3>1. k \in 1..(n + 1) /\ k # at
      BY <2>2, <2>3 DEF Outputs
    <3>2. k \in 1..(at - 1) \/ k \in (at + 1)..(n + 1)
      BY <1>1, <2>2, <3>1
    <3> QED BY <2>4, <2>5, <3>2
  <2>7. \A k \in Outputs(wire) : wire[k].id \in 1..n
    <3> SUFFICES ASSUME NEW k \in Outputs(wire) PROVE wire[k].id \in 1..n
      OBVIOUS
    <3> QED BY <1>1, <2>2, <2>6
  <2>8. ASSUME NEW k \in Outputs(wire), NEW l \in Outputs(wire), wire[k].id = wire[l].id
        PROVE k = l
    <3>1. CASE k \in 1..(at - 1) /\ wire[k].id = k
      <4>1. CASE l \in 1..(at - 1) /\ wire[l].id = l
        BY <2>8, <3>1, <4>1
      <4>2. CASE l \in (at + 1)..(n + 1) /\ wire[l].id = l - 1
        <5>1. k = l - 1
          BY <2>8, <3>1, <4>2
        <5>2. k \in Int /\ l \in Int
          BY <1>1, <2>2, <3>1, <4>2
        <5> QED BY <1>1, <2>2, <3>1, <4>2, <5>1, <5>2
      <4> QED BY <2>6, <4>1, <4>2
    <3>2. CASE k \in (at + 1)..(n + 1) /\ wire[k].id = k - 1
      <4>1. CASE l \in 1..(at - 1) /\ wire[l].id = l
        <5>1. l = k - 1
          BY <2>8, <3>2, <4>1
        <5>2. k \in Int /\ l \in Int
          BY <1>1, <2>2, <3>2, <4>1
        <5> QED BY <1>1, <2>2, <3>2, <4>1, <5>1, <5>2
      <4>2. CASE l \in (at + 1)..(n + 1) /\ wire[l].id = l - 1
        <5>1. k - 1 = l - 1
          BY <2>8, <3>2, <4>2
        <5> QED BY <1>1, <2>2, <3>2, <4>2, <5>1
      <4> QED BY <2>6, <4>1, <4>2
    <3> QED BY <2>6, <3>1, <3>2
  <2>9. Fresh(wire, DOMAIN mirror, Highest)
    BY <1>2, <1>5, <2>7, <2>8 DEF Fresh
  <2>10. ManagerAhead(wire)
    <3>1. at \in 1..Len(wire)
      BY <2>2
    <3>2. \A j \in 1..(at - 1) : wire[j].ev # "done"
      BY <2>4
    <3> QED BY <2>3, <3>1, <3>2 DEF ManagerAhead
  <2>11. Managed
    BY <1>3, <1>5, <1>11, <2>10 DEF Managed
  <2>12. IsSeq(wire)
    BY <2>1 DEF Announced
  <2> QED BY <1>3, <1>5, <1>6, <1>7, <2>9, <2>11, <2>12 DEF IInv
<1> QED BY <1>4, <1>10, <1>11

------------------------------------------------------------------------------
(* The theorem.                                                            *)

LEMMA StepKeeps == IInv /\ [Next]_vars => IInv'
<1> SUFFICES ASSUME IInv, [Next]_vars PROVE IInv'
  OBVIOUS
<1>1. CASE DesktopChanges
  BY <1>1, DesktopKeeps
<1>2. CASE Handle
  BY <1>2, HandleKeeps
<1>3. CASE Read
  BY <1>3, ReadKeeps
<1>4. CASE Start
  BY <1>4, StartKeeps
<1>5. CASE Issue
  BY <1>5, IssueKeeps
<1>6. CASE Reply
  BY <1>6, ReplyKeeps
<1>7. CASE UNCHANGED vars
  <2>1. UNCHANGED <<requests, wire, described, mirror, changes, offered, manager, task, done>>
    BY <1>7 DEF vars, compositor, worker, bounds
  <2>2. UNCHANGED <<Attached, Highest, Managed>>
    BY <2>1 DEF Attached, Highest, Managed
  <2> QED BY <2>1, <2>2 DEF IInv
<1> QED BY <1>1, <1>2, <1>3, <1>4, <1>5, <1>6, <1>7 DEF Next

\* What the invariant says is what was promised.
LEMMA OnceIsEnough == IInv => AttachedOnce
<1> SUFFICES ASSUME IInv PROVE AttachedOnce
  OBVIOUS
<1>1. Asked = Xdg(requests)
  BY DEF Asked, Xdg
<1>2. PICK S : described \in Seq(S)
  BY DEF IInv, IsSeq
<1>3. DOMAIN described = 1..Len(described)
  BY <1>2
<1>4. \A i : Contains(described, i) <=> \E j \in DOMAIN described : described[j] = i
  BY <1>3 DEF Contains
<1>5. IsInjective(described)
  BY DEF IInv, Once
<1>6. \A k, l \in Asked : requests[k].id = requests[l].id => k = l
  BY <1>1 DEF IInv, Once
<1>7. \A k \in Asked : ~Contains(described, requests[k].id)
  BY <1>1, <1>4 DEF IInv, Once
<1>8. ASSUME NEW i \in DOMAIN mirror
      PROVE mirror[i].attached <=> Contains(described, i) \/ \E k \in Asked : requests[k].id = i
  <2>1. i \in Attached <=> mirror[i].attached
    BY DEF Attached
  <2>2. i \in Attached <=> (\E j \in DOMAIN described : described[j] = i)
                           \/ \E k \in Xdg(requests) : requests[k].id = i
    BY DEF IInv, Once
  <2> QED BY <1>1, <1>4, <2>1, <2>2
<1>9. ASSUME NEW i \in DOMAIN mirror, task.op \in Ops \cup {"idle"} PROVE mirror[i].attached = offered
  <2>1. task.op # "registry"
    BY <1>9, PointerAssumption
  <2>2. mirror[i].attached \in BOOLEAN /\ offered \in BOOLEAN
    BY DEF IInv, Entries, Managed
  <2>3. offered => Attached = DOMAIN mirror
    BY <2>1 DEF IInv, Managed
  <2>4. ~offered => Attached = {}
    BY DEF IInv, Managed
  <2>5. mirror[i].attached <=> offered
    BY <2>3, <2>4 DEF Attached
  <2> QED BY <2>2, <2>5
<1> QED BY <1>5, <1>6, <1>7, <1>8, <1>9 DEF AttachedOnce

\* However many outputs there are, and wherever the registry announces the
\* manager among them, each is given one xdg_output object and no more.
THEOREM EachOutputHasItsObject == Spec => []AttachedOnce
<1>1. Spec => []IInv
  BY InitKeeps, StepKeeps, PTL DEF Spec
<1> QED BY <1>1, OnceIsEnough, PTL

------------------------------------------------------------------------------
(* Where a move puts the cursor.  The cursor is the compositor's, and what *)
(* the worker knows is behind: the promise rests on the requests and the   *)
(* events that are under way.                                              *)

At(r, rq) == {k \in DOMAIN r : r[k].rq = rq}
Dones(w) == {k \in DOMAIN w : w[k].ev = "done"}

\* n is the highest id so far.
Plugs(d, n) ==
    /\ d \in [DOMAIN d -> [id : 1..n, mode : Modes, scale : Scales]]
    /\ DOMAIN d \subseteq Connectors
    /\ \A a, b \in DOMAIN d : d[a].id = d[b].id => a = b

\* A connector that was never pulled out is plugged in all the time.
Steady(d, gone, had, t) ==
    /\ \A c \in Connectors \ gone : c \in DOMAIN d /\ \A e \in had : c \in DOMAIN e
    /\ t.op \in Ops => d \in had

\* The output of that id has that name, or is gone.
Names(d, gone, name, id) == name \in Connectors /\ (name \notin gone => id = d[name].id)

\* What the worker has read of the names, and what it is sent.
Known(m, d, gone) ==
    \A i \in DOMAIN m : m[i].name \in Connectors => Names(d, gone, m[i].name, i)
Told(w, d, gone) == \A k \in DOMAIN w : w[k].ev = "info" => Names(d, gone, w[k].name, w[k].id)

\* One roundtrip at a time, which ends after all the input that was sent.
Turn(r, w, over) ==
    /\ \A k \in At(r, "sync") : ~over /\ Dones(w) = {} /\ \A l \in At(r, "sync") : l = k
    /\ \A k \in Dones(w) : ~over /\ \A l \in Dones(w) : l = k
    /\ \A k \in DOMAIN r : r[k].rq \in {"pointer", "motion", "relative"}
                              => \E l \in At(r, "sync") : l > k

\* The pointer of an output is confined to it, or about to be made.
Confined(m, r, ps, d, gone) ==
    /\ "default" \in DOMAIN m /\ m["default"] = None
    /\ \A k \in At(r, "pointer") : Names(d, gone, r[k].name, r[k].id)
    /\ ps \subseteq Connectors
    /\ \A p \in ps \ gone : \/ p \in DOMAIN m /\ m[p] = d[p].id
                            \/ \E k \in At(r, "pointer") : r[k].name = p

\* The outputs on which the move t has to land, and the pointer it is made with.
Targets(t, d) == IF t.op = "moveto" THEN {t.to} ELSE DOMAIN d
Mover(t) == IF t.op = "moveto" THEN t.to ELSE "default"
Sound(c, t, gone, had) ==
    /\ c \in Connectors \ gone
    /\ \A d \in had : d[c].scale = 1 /\ d[c].mode = t.extent
    /\ t.op = "move" => \A d \in had : ~(Cardinality(DOMAIN d) > 1)

\* The last motion that is to be handled is that of t, and its pointer is made
\* before it.
Moves(r) == At(r, "motion") \cup At(r, "relative")
Underway(r, t) ==
    \E k \in At(r, "motion") :
        /\ r[k] = Motion(Mover(t), t.x, t.extent)
        /\ \A l \in Moves(r) : l = k
        /\ \A l \in At(r, "pointer") : l < k
Landed(r, t, d, gone, had, cur) ==
    /\ Moves(r) = {}
    /\ \A c \in Targets(t, d) :
          Sound(c, t, gone, had) => cur = [on |-> c, at |-> Least(t.x, t.extent)]
Landing(r, t, ps, d, gone, had, cur) ==
    (t.op \in {"move", "moveto"} /\ t.ok) =>
        /\ t.op \in Ops /\ t.x \in Nat
        /\ t.op = "moveto" => t.to \in ps
        /\ Underway(r, t) \/ Landed(r, t, d, gone, had, cur)

MInv ==
    /\ done \in BOOLEAN /\ (task.op = "idle" => done)
    /\ Plugs(desktop, Highest) /\ Steady(desktop, loose, seen, task)
    /\ Known(mirror, desktop, loose) /\ Told(wire, desktop, loose)
    /\ Turn(requests, wire, done)
    /\ Confined(mapped, requests, pointers, desktop, loose)
    /\ Landing(requests, task, pointers, desktop, loose, seen, cursor)

LEMMA AtDrops ==
    ASSUME NEW s, NEW t, Drops(s, t)
    PROVE  /\ DOMAIN s \subseteq Nat /\ DOMAIN t \subseteq Nat /\ 1 \in DOMAIN s /\ Head(s) = s[1]
           /\ \A k \in DOMAIN t : k + 1 \in DOMAIN s /\ t[k] = s[k + 1] /\ k >= 1
           /\ \A k \in DOMAIN s : k # 1 => k - 1 \in DOMAIN t /\ t[k - 1] = s[k] /\ k > 1
<1>1. DOMAIN s \subseteq Nat /\ DOMAIN t \subseteq Nat /\ 1 \in DOMAIN s /\ Head(s) = s[1]
  BY DEF Drops
<1>2. \A k \in DOMAIN t : k + 1 \in DOMAIN s /\ t[k] = s[k + 1] /\ k >= 1
  BY DEF Drops
<1>3. ASSUME NEW k \in DOMAIN s, k # 1 PROVE k - 1 \in DOMAIN t /\ t[k - 1] = s[k] /\ k > 1
  <2>1. k - 1 \in DOMAIN t /\ (k - 1) + 1 = k /\ k > 1
    BY <1>3 DEF Drops
  <2>2. t[k - 1] = s[(k - 1) + 1]
    BY <1>2, <2>1
  <2> QED BY <2>1, <2>2
<1> QED BY <1>1, <1>2, <1>3

LEMMA AtJoins ==
    ASSUME NEW r, NEW t, NEW s, Joins(r, t, s)
    PROVE  /\ DOMAIN r \subseteq Nat /\ DOMAIN t \subseteq Nat /\ DOMAIN s \subseteq Nat /\ Len(r) \in Nat
           /\ \A k \in DOMAIN r : k \in DOMAIN s /\ s[k] = r[k] /\ k <= Len(r)
           /\ \A l \in DOMAIN t : Len(r) + l \in DOMAIN s /\ s[Len(r) + l] = t[l] /\ l >= 1
           /\ \A k \in DOMAIN s : k \in DOMAIN r \/ \E l \in DOMAIN t : k = Len(r) + l
<1>1. /\ DOMAIN r \subseteq Nat /\ DOMAIN t \subseteq Nat /\ DOMAIN s \subseteq Nat /\ Len(r) \in Nat
  BY DEF Joins
<1>2. \A k \in DOMAIN r : k \in DOMAIN s /\ s[k] = r[k] /\ k <= Len(r)
  BY DEF Joins
<1>3. \A l \in DOMAIN t : Len(r) + l \in DOMAIN s /\ s[Len(r) + l] = t[l] /\ l >= 1
  BY DEF Joins
<1>4. ASSUME NEW k \in DOMAIN s, k \notin DOMAIN r PROVE \E l \in DOMAIN t : k = Len(r) + l
  <2>1. k - Len(r) \in DOMAIN t /\ k = Len(r) + (k - Len(r))
    BY <1>4 DEF Joins
  <2> QED BY <2>1
<1> QED BY <1>1, <1>2, <1>3, <1>4

LEMMA EitherPart ==
    ASSUME NEW r, NEW t, NEW s, Joins(r, t, s), NEW k \in DOMAIN s
    PROVE  (k \in DOMAIN r /\ s[k] = r[k]) \/ \E l \in DOMAIN t : s[k] = t[l]
<1>1. k \in DOMAIN r \/ \E l \in DOMAIN t : k = Len(r) + l
  BY AtJoins
<1>2. \A l \in DOMAIN t : s[Len(r) + l] = t[l]
  BY AtJoins
<1>3. k \in DOMAIN r => s[k] = r[k]
  BY AtJoins
<1> QED BY <1>1, <1>2, <1>3

\* The compositor handles a request that is not the end of the roundtrip.
LEMMA TurnHandled ==
    ASSUME NEW r, NEW t, Drops(r, t), NEW w, NEW v, NEW over, Turn(r, w, over),
           Head(r).rq # "sync", Dones(v) = Dones(w)
    PROVE  Turn(t, v, over)
<1>1. \A k \in At(t, "sync") : k + 1 \in At(r, "sync") /\ k \in Nat
  BY AtDrops DEF At
<1>2. \A k \in At(r, "sync") : k - 1 \in At(t, "sync") /\ k \in Nat
  BY AtDrops DEF At
<1>3. \A k \in At(t, "sync") : ~over /\ Dones(v) = {} /\ \A l \in At(t, "sync") : l = k
  <2> SUFFICES ASSUME NEW k \in At(t, "sync")
               PROVE  ~over /\ Dones(v) = {} /\ \A l \in At(t, "sync") : l = k
    OBVIOUS
  <2>1. ~over /\ Dones(v) = {} /\ \A l \in At(r, "sync") : l = k + 1
    BY <1>1 DEF Turn
  <2>2. \A l \in At(t, "sync") : l + 1 = k + 1 /\ l \in Nat /\ k \in Nat
    BY <1>1, <2>1
  <2>3. \A l \in At(t, "sync") : l = k
    BY <2>2
  <2> QED BY <2>1, <2>3
<1>4. ASSUME NEW k \in DOMAIN t, t[k].rq \in {"pointer", "motion", "relative"}
      PROVE  \E l \in At(t, "sync") : l > k
  <2>1. k + 1 \in DOMAIN r /\ r[k + 1].rq \in {"pointer", "motion", "relative"} /\ k \in Nat
    BY <1>4, AtDrops
  <2>2. PICK l \in At(r, "sync") : l > k + 1
    BY <2>1 DEF Turn
  <2>3. l - 1 \in At(t, "sync") /\ l - 1 > k
    BY <1>2, <2>1, <2>2
  <2> QED BY <2>3
<1>5. \A k \in Dones(v) : ~over /\ \A l \in Dones(v) : l = k
  BY DEF Turn
<1> QED BY <1>3, <1>4, <1>5 DEF Turn

\* It answers the end of the roundtrip.
LEMMA TurnAnswered ==
    ASSUME NEW r, NEW t, Drops(r, t), NEW w, IsSeq(w), NEW over, Turn(r, w, over),
           Head(r).rq = "sync", NEW e, e.ev = "done"
    PROVE  Turn(t, Append(w, e), over)
<1>1. 1 \in At(r, "sync")
  BY AtDrops DEF At
<1>2. ~over /\ Dones(w) = {} /\ \A l \in At(r, "sync") : l = 1
  BY <1>1 DEF Turn
<1>3. At(t, "sync") = {}
  <2> SUFFICES ASSUME NEW k \in At(t, "sync") PROVE FALSE
    OBVIOUS
  <2>1. k + 1 \in At(r, "sync") /\ k >= 1 /\ k \in Nat
    BY AtDrops DEF At
  <2> QED BY <1>2, <2>1
<1>4. ASSUME NEW k \in DOMAIN t, t[k].rq \in {"pointer", "motion", "relative"} PROVE FALSE
  <2>1. k + 1 \in DOMAIN r /\ r[k + 1].rq \in {"pointer", "motion", "relative"} /\ k \in Nat /\ k >= 1
    BY <1>4, AtDrops
  <2>2. PICK l \in At(r, "sync") : l > k + 1
    BY <2>1 DEF Turn
  <2> QED BY <1>2, <2>1, <2>2
<1> DEFINE s == Append(w, e)
           one == <<e>>
<1>5. s = w \o one /\ IsSeq(one) /\ Len(one) = 1 /\ one[1] = e
  BY AppendIsJoin, OneIsSeq
<1> HIDE DEF s, one
<1>6. Joins(w, one, w \o one)
  BY <1>5, TwoParts
<1>7. Joins(w, one, s) /\ Len(one) = 1 /\ one[1] = e
  BY <1>5, <1>6
<1>8. \A k \in DOMAIN s : k \in DOMAIN w \/ k = Len(w) + 1
  BY <1>7, AtJoins DEF Joins
<1>9. \A k \in Dones(s) : k \in Dones(w) \/ k = Len(w) + 1
  BY <1>7, <1>8, AtJoins DEF Dones
<1>10. \A k \in Dones(s) : k = Len(w) + 1
  BY <1>2, <1>9
<1> QED BY <1>2, <1>3, <1>4, <1>10 DEF Turn, s

\* The worker reads an event.
LEMMA TurnRead ==
    ASSUME NEW r, NEW w, NEW v, Drops(w, v), NEW over, Turn(r, w, over)
    PROVE  /\ Head(w).ev # "done" => Turn(r, v, over)
           /\ Head(w).ev = "done" => Turn(r, v, TRUE)
<1>1. \A k \in Dones(v) : k + 1 \in Dones(w) /\ k \in Nat /\ k >= 1
  BY AtDrops DEF Dones
<1>2. \A k, l \in Dones(v) : k = l
  <2> SUFFICES ASSUME NEW k \in Dones(v), NEW l \in Dones(v) PROVE k = l
    OBVIOUS
  <2>1. k + 1 = l + 1
    BY <1>1 DEF Turn
  <2> QED BY <1>1, <2>1
<1>3. Dones(w) = {} => Dones(v) = {}
  BY <1>1
<1>4. \A k \in Dones(v) : ~over /\ \A l \in Dones(v) : l = k
  BY <1>1, <1>2 DEF Turn
<1>5. Turn(r, v, over)
  BY <1>3, <1>4 DEF Turn
<1>6. ASSUME Head(w).ev = "done" PROVE Turn(r, v, TRUE)
  <2>1. 1 \in Dones(w)
    BY <1>6, AtDrops DEF Dones
  <2>2. \A k \in Dones(w) : k = 1
    BY <2>1 DEF Turn
  <2>3. Dones(v) = {}
    <3> SUFFICES ASSUME NEW k \in Dones(v) PROVE FALSE
      OBVIOUS
    <3>1. k + 1 = 1
      BY <1>1, <2>2
    <3> QED BY <1>1, <3>1
  <2>4. At(r, "sync") = {}
    BY <2>1 DEF Turn
  <2> QED BY <2>3, <2>4, <1>5 DEF Turn
<1> QED BY <1>5, <1>6

\* It asks for what is no input and no end of a roundtrip.
LEMMA TurnAsked ==
    ASSUME NEW r, NEW t, NEW s, Joins(r, t, s), NEW w, NEW over, Turn(r, w, over),
           \A k \in DOMAIN t : t[k].rq \in {"bind", "xdg"}
    PROVE  Turn(s, w, over)
<1>1. \A k \in DOMAIN s : s[k].rq \in {"bind", "xdg"} \/ (k \in DOMAIN r /\ s[k] = r[k])
  BY AtJoins
<1>2. At(s, "sync") = At(r, "sync")
  <2>1. \A k \in At(s, "sync") : k \in At(r, "sync")
    BY <1>1 DEF At
  <2>2. \A k \in At(r, "sync") : k \in At(s, "sync")
    BY AtJoins DEF At
  <2> QED BY <2>1, <2>2
<1>3. \A k \in DOMAIN s : s[k].rq \in {"pointer", "motion", "relative"}
                             => \E l \in At(s, "sync") : l > k
  BY <1>1, <1>2 DEF Turn
<1> QED BY <1>2, <1>3 DEF Turn

\* Nothing to do with a roundtrip is asked for.
Calm(r) == \A k \in DOMAIN r : r[k].rq \notin {"sync", "pointer", "motion", "relative"}

LEMMA TurnCalm == ASSUME NEW r, NEW w, Turn(r, w, TRUE) PROVE Calm(r) /\ Dones(w) = {}
<1>1. At(r, "sync") = {}
  BY DEF Turn
<1> QED BY <1>1 DEF Turn, Calm, At

\* A roundtrip begins: the requests x, and its end.
LEMMA TurnBegun ==
    ASSUME NEW r, IsSeq(r), NEW w, Turn(r, w, TRUE), NEW x, IsSeq(x), NEW e, e.rq = "sync",
           \A k \in DOMAIN x : x[k].rq # "sync"
    PROVE  /\ Turn(r \o Append(x, e), w, FALSE) /\ Joins(r, Append(x, e), r \o Append(x, e))
           /\ Joins(x, <<e>>, Append(x, e)) /\ DOMAIN <<e>> = {1} /\ <<e>>[1] = e
<1> DEFINE one == <<e>>
           t == Append(x, e)
           s == r \o t
<1>1. IsSeq(one) /\ Len(one) = 1 /\ one[1] = e /\ t = x \o one
  BY OneIsSeq, AppendIsJoin
<1>2. DOMAIN one = {1}
  OBVIOUS
<1> HIDE DEF one
<1>3. Joins(x, one, t)
  BY <1>1, TwoParts
<1> HIDE DEF t
<1>4. IsSeq(t)
  BY <1>3 DEF Joins
<1>5. Joins(r, t, s)
  BY <1>4, TwoParts
<1> HIDE DEF s
<1>6. Calm(r) /\ Dones(w) = {}
  BY TurnCalm
<1> DEFINE m == Len(x) + 1
           n == Len(r) + m
<1>7. Len(x) \in Nat /\ Len(r) \in Nat /\ m \in DOMAIN t /\ t[m] = e
  BY <1>1, <1>2, <1>3, <1>5, AtJoins
<1>8. \A l \in DOMAIN t : l = m \/ (l < m /\ l \in DOMAIN x /\ t[l] = x[l])
  <2>1. \A l \in DOMAIN t : l \in DOMAIN x \/ l = m
    BY <1>2, <1>3, AtJoins
  <2>2. \A l \in DOMAIN x : l <= Len(x) /\ t[l] = x[l] /\ l \in Nat
    BY <1>3, AtJoins
  <2> QED BY <1>7, <2>1, <2>2
<1>9. n \in DOMAIN s /\ s[n] = e
  BY <1>5, <1>7, AtJoins
<1> HIDE DEF m
<1>10. \A k \in DOMAIN s : k = n \/ (k < n /\ s[k].rq # "sync")
  <2> SUFFICES ASSUME NEW k \in DOMAIN s, k # n PROVE k < n /\ s[k].rq # "sync"
    OBVIOUS
  <2>1. CASE k \in DOMAIN r
    <3>1. s[k] = r[k] /\ k <= Len(r) /\ k \in Nat
      BY <1>5, <2>1, AtJoins
    <3>2. s[k].rq # "sync"
      BY <1>6, <2>1, <3>1 DEF Calm
    <3>3. k < n
      BY <1>7, <3>1 DEF m
    <3> QED BY <3>2, <3>3
  <2>2. CASE k \notin DOMAIN r
    <3>1. PICK l \in DOMAIN t : k = Len(r) + l
      BY <1>5, <2>2, AtJoins
    <3>2. s[k] = t[l] /\ l \in Nat
      BY <1>5, <3>1, AtJoins
    <3>3. l < m /\ l \in DOMAIN x /\ t[l] = x[l]
      BY <1>8, <3>1
    <3>4. k < n
      BY <1>7, <3>1, <3>2, <3>3 DEF m
    <3> QED BY <3>2, <3>3, <3>4
  <2> QED BY <2>1, <2>2
<1> HIDE DEF n
<1>11. At(s, "sync") = {n}
  BY <1>9, <1>10 DEF At
<1>12. \A k \in DOMAIN s : s[k].rq \in {"pointer", "motion", "relative"} => n > k
  <2>1. \A k \in DOMAIN s : s[k].rq \in {"pointer", "motion", "relative"} => k # n
    BY <1>9
  <2>2. DOMAIN s \subseteq Nat /\ n \in Nat
    BY <1>5, <1>9, AtJoins
  <2> QED BY <1>10, <2>1, <2>2
<1>13. Turn(s, w, FALSE)
  BY <1>6, <1>11, <1>12 DEF Turn
<1> QED BY <1>1, <1>2, <1>3, <1>5, <1>13 DEF s, t, one

------------------------------------------------------------------------------
(* The desktop changes.                                                    *)

\* What names an output still does, as long as the output keeps its id.
Same(d, e, gone) == \A c \in Connectors \ gone : c \in DOMAIN d /\ c \in DOMAIN e /\ e[c].id = d[c].id

LEMMA NamesStay ==
    ASSUME NEW d, NEW e, NEW gone, NEW more, gone \subseteq more, Same(d, e, more),
           NEW name, NEW id, Names(d, gone, name, id)
    PROVE  Names(e, more, name, id)
BY DEF Names, Same

LEMMA KnownStays ==
    ASSUME NEW d, NEW e, NEW gone, NEW more, gone \subseteq more, Same(d, e, more), NEW m,
           Known(m, d, gone)
    PROVE  Known(m, e, more)
BY NamesStay DEF Known

LEMMA ConfinedStays ==
    ASSUME NEW d, NEW e, NEW gone, NEW more, gone \subseteq more, Same(d, e, more), NEW m, NEW n,
           NEW r, NEW ps, Confined(m, r, ps, d, gone), DOMAIN n = DOMAIN m,
           \A p \in DOMAIN m : p \in Connectors \ more /\ m[p] = d[p].id => n[p] = m[p],
           m["default"] = None => n["default"] = None
    PROVE  Confined(n, r, ps, e, more)
<1>1. "default" \in DOMAIN n /\ n["default"] = None /\ ps \subseteq Connectors
  BY DEF Confined
<1>2. \A k \in At(r, "pointer") : Names(e, more, r[k].name, r[k].id)
  BY NamesStay DEF Confined
<1>3. ASSUME NEW p \in ps \ more
      PROVE  \/ p \in DOMAIN n /\ n[p] = e[p].id
             \/ \E k \in At(r, "pointer") : r[k].name = p
  <2>1. p \in Connectors \ more /\ p \in ps \ gone
    BY <1>1
  <2>2. e[p].id = d[p].id
    BY <2>1 DEF Same
  <2>3. \/ p \in DOMAIN m /\ m[p] = d[p].id
        \/ \E k \in At(r, "pointer") : r[k].name = p
    BY <2>1 DEF Confined
  <2> QED BY <2>1, <2>2, <2>3
<1> QED BY <1>1, <1>2, <1>3 DEF Confined

LEMMA LandingStays ==
    ASSUME NEW d, NEW e, NEW gone, NEW more, gone \subseteq more, Same(d, e, more), NEW had, NEW has,
           NEW t, t.op \in Ops => had \subseteq has, NEW r, NEW ps, NEW cur, NEW new,
           Landing(r, t, ps, d, gone, had, cur),
           new = cur \/ cur.on \notin Connectors \ more
    PROVE  Landing(r, t, ps, e, more, has, new)
<1> SUFFICES ASSUME t.op \in {"move", "moveto"}, t.ok
             PROVE  /\ t.op \in Ops /\ t.x \in Nat
                    /\ t.op = "moveto" => t.to \in ps
                    /\ Underway(r, t) \/ Landed(r, t, e, more, has, new)
  BY DEF Landing
<1>1. t.op \in Ops /\ t.x \in Nat /\ (t.op = "moveto" => t.to \in ps)
      /\ (Underway(r, t) \/ Landed(r, t, d, gone, had, cur))
  BY DEF Landing
<1>2. ASSUME Landed(r, t, d, gone, had, cur) PROVE Landed(r, t, e, more, has, new)
  <2>1. Moves(r) = {}
    BY <1>2 DEF Landed
  <2>2. ASSUME NEW c \in Targets(t, e), Sound(c, t, more, has)
        PROVE  new = [on |-> c, at |-> Least(t.x, t.extent)]
    <3>1. c \in Connectors \ more /\ c \in Connectors \ gone
      BY <2>2 DEF Sound
    <3>2. c \in Targets(t, d)
      BY <2>2, <3>1 DEF Targets, Same
    <3>3. Sound(c, t, gone, had)
      BY <1>1, <2>2, <3>1 DEF Sound
    <3>4. cur = [on |-> c, at |-> Least(t.x, t.extent)]
      BY <1>2, <3>2, <3>3 DEF Landed
    <3>5. cur.on = c
      BY <3>4
    <3> QED BY <3>1, <3>4, <3>5
  <2> QED BY <2>1, <2>2 DEF Landed
<1> QED BY <1>1, <1>2

\* What the desktop is after a change.
LEMMA AfterChange ==
    ASSUME MInv, UNCHANGED <<mirror, task, done, requests, pointers>>,
           loose \subseteq loose', Same(desktop, desktop', loose'),
           Plugs(desktop', Highest'), Dones(wire') = Dones(wire), Told(wire', desktop', loose'),
           Confined(mapped', requests, pointers, desktop', loose'),
           cursor' = cursor \/ cursor.on \notin Connectors \ loose',
           seen' = IF task.op \in Ops THEN seen \cup {desktop'} ELSE seen
    PROVE  MInv'
<1>1. Known(mirror', desktop', loose')
  BY KnownStays DEF MInv
<1>2. Steady(desktop', loose', seen', task')
  <2>1. \A c \in Connectors \ loose' : c \in DOMAIN desktop' /\ \A d \in seen : c \in DOMAIN d
    BY DEF MInv, Steady, Same
  <2>2. \A d \in seen' : d \in seen \/ d = desktop'
    OBVIOUS
  <2>3. \A c \in Connectors \ loose' : c \in DOMAIN desktop' /\ \A d \in seen' : c \in DOMAIN d
    BY <2>1, <2>2
  <2>4. task'.op \in Ops => desktop' \in seen'
    OBVIOUS
  <2> QED BY <2>3, <2>4 DEF Steady
<1>3. Landing(requests, task, pointers, desktop', loose', seen', cursor')
  <2>1. task.op \in Ops => seen \subseteq seen'
    OBVIOUS
  <2> QED BY <2>1, LandingStays DEF MInv
<1>4. Turn(requests', wire', done')
  BY DEF MInv, Turn
<1>5. done' \in BOOLEAN /\ (task'.op = "idle" => done')
  BY DEF MInv
<1> QED BY <1>1, <1>2, <1>3, <1>4, <1>5 DEF MInv

\* Events join those under way.
LEMMA EventsJoin ==
    ASSUME NEW w, IsSeq(w), NEW t, IsSeq(t), NEW d, NEW gone, Told(w, d, gone), Told(t, d, gone)
    PROVE  /\ IsSeq(w \o t) /\ Told(w \o t, d, gone)
           /\ Dones(t) = {} => Dones(w \o t) = Dones(w)
<1> DEFINE v == w \o t
<1>1. Joins(w, t, v)
  BY TwoParts
<1> HIDE DEF v
<1>2. \A k \in DOMAIN v : (k \in DOMAIN w /\ v[k] = w[k]) \/ \E l \in DOMAIN t : v[k] = t[l]
  BY <1>1, EitherPart
<1>3. Told(v, d, gone)
  BY <1>2 DEF Told
<1>4. ASSUME Dones(t) = {} PROVE Dones(v) = Dones(w)
  <2>1. \A l \in DOMAIN t : t[l].ev # "done"
    BY <1>4 DEF Dones
  <2>2. \A k \in Dones(v) : k \in Dones(w)
    BY <1>2, <2>1 DEF Dones
  <2>3. \A k \in Dones(w) : k \in Dones(v)
    BY <1>1, AtJoins DEF Dones
  <2> QED BY <2>2, <2>3
<1>5. IsSeq(v)
  BY <1>1 DEF Joins
<1> QED BY <1>3, <1>4, <1>5 DEF v

LEMMA OneTold ==
    ASSUME NEW e, NEW d, NEW gone, e.ev = "info" => Names(d, gone, e.name, e.id)
    PROVE  IsSeq(<<e>>) /\ Told(<<e>>, d, gone) /\ (e.ev # "done" => Dones(<<e>>) = {})
<1> DEFINE one == <<e>>
<1>1. IsSeq(one) /\ one[1] = e /\ DOMAIN one = {1}
  BY OneIsSeq
<1> HIDE DEF one
<1>2. Told(one, d, gone) /\ (e.ev # "done" => Dones(one) = {})
  BY <1>1 DEF Told, Dones
<1> QED BY <1>1, <1>2 DEF one

LEMMA NoneTold ==
    ASSUME NEW d, NEW gone
    PROVE  IsSeq(<<>>) /\ Told(<<>>, d, gone) /\ Dones(<<>>) = {}
BY NoneIsSeq DEF Told, Dones

LEMMA EventJoins ==
    ASSUME NEW w, IsSeq(w), NEW e, NEW d, NEW gone, Told(w, d, gone),
           e.ev = "info" => Names(d, gone, e.name, e.id)
    PROVE  /\ IsSeq(Append(w, e)) /\ Told(Append(w, e), d, gone)
           /\ e.ev # "done" => Dones(Append(w, e)) = Dones(w)
<1> DEFINE one == <<e>>
<1>1. Append(w, e) = w \o one
  BY AppendIsJoin
<1>2. IsSeq(one) /\ Told(one, d, gone) /\ (e.ev # "done" => Dones(one) = {})
  BY OneTold
<1> HIDE DEF one
<1> QED BY <1>1, <1>2, EventsJoin

LEMMA PlugMoves ==
    ASSUME IInv, MInv, DesktopChanges, NEW c \in Connectors, Plug(c) PROVE MInv'
<1>1. UNCHANGED <<mirror, task, done, requests, pointers, loose, mapped, cursor>>
      /\ seen' = IF task.op \in Ops THEN seen \cup {desktop'} ELSE seen
  BY DEF DesktopChanges, Plug, worker
<1>2. changes' = changes + 1 /\ c \notin DOMAIN desktop
  BY DEF Plug, Change
<1>3. Highest \in Nat /\ Highest' = Highest + 1 /\ Cardinality(Connectors) + changes' = Highest'
  BY <1>2, Count DEF IInv, Highest
<1>4. PICK mode \in Modes, scale \in Scales :
         desktop' = [d \in DOMAIN desktop \cup {c} |->
             IF d = c THEN [id |-> Cardinality(Connectors) + changes', mode |-> mode, scale |-> scale]
             ELSE desktop[d]]
  BY DEF Plug
<1> DEFINE n == Highest
           new == [id |-> Highest', mode |-> mode, scale |-> scale]
           R == [id : 1..Highest', mode : Modes, scale : Scales]
<1>5. desktop' = [d \in DOMAIN desktop \cup {c} |-> IF d = c THEN new ELSE desktop[d]]
  BY <1>3, <1>4
<1>6. new \in R /\ new.id = Highest'
  BY <1>3
<1> HIDE DEF new
<1>7. \A d \in DOMAIN desktop : desktop[d] \in [id : 1..n, mode : Modes, scale : Scales]
  BY DEF MInv, Plugs
<1>8. \A d \in DOMAIN desktop : desktop[d] \in R /\ desktop[d].id # Highest'
  <2> SUFFICES ASSUME NEW d \in DOMAIN desktop PROVE desktop[d] \in R /\ desktop[d].id # Highest'
    OBVIOUS
  <2>1. desktop[d] \in [id : 1..n, mode : Modes, scale : Scales]
    BY <1>7
  <2>2. \A i \in 1..n : i \in 1..Highest' /\ i # Highest'
    BY <1>3
  <2> QED BY <2>1, <2>2
<1> HIDE DEF R
<1>9. DOMAIN desktop' = DOMAIN desktop \cup {c} /\ desktop'[c] = new
      /\ \A d \in DOMAIN desktop : desktop'[d] = desktop[d]
  BY <1>2, <1>5
<1>10. Plugs(desktop', Highest')
  <2>1. desktop' \in [DOMAIN desktop' -> R]
    BY <1>5, <1>6, <1>8, <1>9
  <2>2. DOMAIN desktop' \subseteq Connectors
    BY <1>9 DEF MInv, Plugs
  <2>3. \A a, b \in DOMAIN desktop : desktop[a].id = desktop[b].id => a = b
    BY DEF MInv, Plugs
  <2>4. \A a, b \in DOMAIN desktop' : desktop'[a].id = desktop'[b].id => a = b
    BY <1>6, <1>8, <1>9, <2>3
  <2> QED BY <2>1, <2>2, <2>4 DEF Plugs, R
<1>11. Same(desktop, desktop', loose')
  BY <1>1, <1>9 DEF Same, MInv, Steady
<1>12. Told(wire', desktop', loose') /\ Dones(wire') = Dones(wire)
  <2>1. Told(wire, desktop', loose')
    BY <1>1, <1>11, NamesStay DEF Told, MInv
  <2> DEFINE e == Global(desktop'[c].id)
  <2>2. e.ev # "done" /\ e.ev # "info" /\ wire' = Append(wire, e)
    BY DEF Plug, Global
  <2> HIDE DEF e
  <2> QED BY <1>1, <2>1, <2>2, EventJoins DEF IInv
<1>13. Confined(mapped', requests, pointers, desktop', loose')
  BY <1>1, <1>11, ConfinedStays DEF MInv
<1> QED BY <1>1, <1>10, <1>11, <1>12, <1>13, AfterChange

LEMMA UnplugMoves ==
    ASSUME IInv, MInv, DesktopChanges, NEW c \in Connectors, Unplug(c) PROVE MInv'
<1>1. UNCHANGED <<mirror, task, done, requests, pointers, wire>> /\ changes' = changes + 1
      /\ seen' = IF task.op \in Ops THEN seen \cup {desktop'} ELSE seen
  BY DEF DesktopChanges, Unplug, Change, worker
<1>2. c \in DOMAIN desktop /\ desktop' = [d \in DOMAIN desktop \ {c} |-> desktop[d]]
      /\ mapped' = [p \in DOMAIN mapped |-> IF mapped[p] = desktop[c].id THEN None ELSE mapped[p]]
      /\ cursor' = (IF cursor.on = c THEN [on |-> None, at |-> 0] ELSE cursor)
      /\ loose' = loose \cup {c}
  BY DEF Unplug, Drop
<1>3. Highest \in Nat /\ Highest' = Highest + 1
  BY <1>1, Count DEF IInv, Highest
<1>4. DOMAIN desktop' = DOMAIN desktop \ {c} /\ \A d \in DOMAIN desktop' : desktop'[d] = desktop[d]
  BY <1>2
<1>5. Plugs(desktop', Highest')
  <2>1. \A i \in 1..Highest : i \in 1..Highest'
    BY <1>3
  <2> DEFINE R == [id : 1..Highest, mode : Modes, scale : Scales]
             S == [id : 1..Highest', mode : Modes, scale : Scales]
  <2>2. \A x \in R : x \in S
    BY <2>1
  <2>3. desktop \in [DOMAIN desktop -> R]
    BY DEF MInv, Plugs
  <2> HIDE DEF R, S
  <2>4. desktop' \in [DOMAIN desktop' -> S]
    BY <1>2, <1>4, <2>2, <2>3
  <2>5. DOMAIN desktop' \subseteq Connectors
    BY <1>4 DEF MInv, Plugs
  <2>6. \A a, b \in DOMAIN desktop' : desktop'[a].id = desktop'[b].id => a = b
    BY <1>4 DEF MInv, Plugs
  <2> QED BY <2>4, <2>5, <2>6 DEF Plugs, S
<1>6. loose \subseteq loose' /\ c \in loose'
  BY <1>2
<1>7. Same(desktop, desktop', loose')
  BY <1>4, <1>6 DEF Same, MInv, Steady
<1>8. Told(wire', desktop', loose') /\ Dones(wire') = Dones(wire)
  BY <1>1, <1>6, <1>7, NamesStay DEF Told, MInv
<1>9. Confined(mapped', requests, pointers, desktop', loose')
  <2>1. DOMAIN mapped' = DOMAIN mapped
    BY <1>2
  <2>2. ASSUME NEW p \in DOMAIN mapped, p \in Connectors \ loose', mapped[p] = desktop[p].id
        PROVE  mapped'[p] = mapped[p]
    <3>1. p # c /\ p \in DOMAIN desktop
      BY <1>6, <1>7, <2>2 DEF Same
    <3>2. desktop[p].id # desktop[c].id
      BY <1>2, <3>1 DEF MInv, Plugs
    <3> QED BY <1>2, <2>2, <3>2
  <2>3. ASSUME mapped["default"] = None PROVE mapped'["default"] = None
    <3>1. "default" \in DOMAIN mapped
      BY DEF MInv, Confined
    <3> QED BY <1>2, <2>3, <3>1
  <2>4. Confined(mapped, requests, pointers, desktop, loose)
    BY DEF MInv
  <2> QED BY <1>6, <1>7, <2>1, <2>2, <2>3, <2>4, ConfinedStays
<1>10. cursor' = cursor \/ cursor.on \notin Connectors \ loose'
  BY <1>2, <1>6
<1> QED BY <1>1, <1>5, <1>6, <1>7, <1>8, <1>9, <1>10, AfterChange

LEMMA ModesetMoves ==
    ASSUME IInv, MInv, DesktopChanges, NEW c \in Connectors, Modeset(c) PROVE MInv'
<1>1. UNCHANGED <<mirror, task, done, requests, pointers, loose, mapped, cursor>>
      /\ changes' = changes + 1 /\ c \in DOMAIN desktop
      /\ seen' = IF task.op \in Ops THEN seen \cup {desktop'} ELSE seen
  BY DEF DesktopChanges, Modeset, Change, worker
<1>2. PICK mode \in Modes, scale \in Scales :
         desktop' = [desktop EXCEPT ![c].mode = mode, ![c].scale = scale]
  BY DEF Modeset
<1>3. Highest \in Nat /\ Highest' = Highest + 1
  BY <1>1, Count DEF IInv, Highest
<1> DEFINE R == [id : 1..Highest, mode : Modes, scale : Scales]
           S == [id : 1..Highest', mode : Modes, scale : Scales]
<1>4. DOMAIN desktop' = DOMAIN desktop
  BY <1>2
<1>5. desktop \in [DOMAIN desktop -> R]
  BY DEF MInv, Plugs
<1>6. ASSUME NEW d \in DOMAIN desktop PROVE desktop'[d] \in S /\ desktop'[d].id = desktop[d].id
  <2>1. desktop[d] \in R /\ desktop[d] \in S
    <3>1. \A i \in 1..Highest : i \in 1..Highest'
      BY <1>3
    <3>2. desktop[d] \in R
      BY <1>5
    <3> QED BY <3>1, <3>2
  <2>2. desktop'[d] = IF d = c THEN [desktop[d] EXCEPT !.mode = mode, !.scale = scale] ELSE desktop[d]
    BY <1>1, <1>2
  <2> QED BY <2>1, <2>2
<1> HIDE DEF R, S
<1>7. Plugs(desktop', Highest')
  <2>1. desktop' \in [DOMAIN desktop' -> S]
    <3>1. desktop' = [d \in DOMAIN desktop' |-> desktop'[d]]
      BY <1>2
    <3> QED BY <1>4, <1>6, <3>1
  <2>2. DOMAIN desktop' \subseteq Connectors
    BY <1>4 DEF MInv, Plugs
  <2>3. \A a, b \in DOMAIN desktop' : desktop'[a].id = desktop'[b].id => a = b
    BY <1>4, <1>6 DEF MInv, Plugs
  <2> QED BY <2>1, <2>2, <2>3 DEF Plugs, S
<1>8. Same(desktop, desktop', loose')
  BY <1>1, <1>4, <1>6 DEF Same, MInv, Steady
<1>9. Told(wire', desktop', loose') /\ Dones(wire') = Dones(wire)
  <2> DEFINE i == Info(c)'
             l == LogicalSize(c)'
             a == IF desktop[c].id \in bound THEN <<i>> ELSE <<>>
             b == IF Contains(described, desktop[c].id) THEN <<l>> ELSE <<>>
  <2>1. wire' = (wire \o a) \o b
    BY DEF Modeset
  <2>2. i.ev = "info" /\ i.name = c /\ i.id = desktop'[c].id /\ l.ev = "logical"
    BY DEF Info, LogicalSize
  <2> HIDE DEF i, l
  <2>3. Names(desktop', loose', i.name, i.id)
    BY <2>2 DEF Names
  <2>4. IsSeq(a) /\ Told(a, desktop', loose') /\ Dones(a) = {}
    <3>1. IsSeq(<<i>>) /\ Told(<<i>>, desktop', loose') /\ Dones(<<i>>) = {}
      BY <2>2, <2>3, OneTold
    <3> QED BY <3>1, NoneTold
  <2>5. IsSeq(b) /\ Told(b, desktop', loose') /\ Dones(b) = {}
    <3>1. IsSeq(<<l>>) /\ Told(<<l>>, desktop', loose') /\ Dones(<<l>>) = {}
      BY <2>2, OneTold
    <3> QED BY <3>1, NoneTold
  <2> HIDE DEF a, b
  <2>6. IsSeq(wire) /\ Told(wire, desktop', loose')
    BY <1>1, <1>8, NamesStay DEF Told, MInv, IInv
  <2> DEFINE w == wire \o a
  <2>7. IsSeq(w) /\ Told(w, desktop', loose') /\ Dones(w) = Dones(wire)
    BY <2>4, <2>6, EventsJoin
  <2> HIDE DEF w
  <2>8. Told(w \o b, desktop', loose') /\ Dones(w \o b) = Dones(w)
    BY <2>5, <2>7, EventsJoin
  <2> QED BY <2>1, <2>7, <2>8 DEF w
<1>10. Confined(mapped', requests, pointers, desktop', loose')
  BY <1>1, <1>8, ConfinedStays DEF MInv
<1> QED BY <1>1, <1>7, <1>8, <1>9, <1>10, AfterChange

LEMMA DesktopMoves == ASSUME IInv, MInv, DesktopChanges PROVE MInv'
BY PlugMoves, UnplugMoves, ModesetMoves DEF DesktopChanges

------------------------------------------------------------------------------
(* The compositor handles a request.                                       *)

\* What is asked for is asked for later, or was the request at hand.
LEMMA ConfinedLater ==
    ASSUME NEW s, NEW t, Drops(s, t), NEW m, NEW n, NEW ps, NEW d, NEW gone,
           Confined(m, s, ps, d, gone), "default" \in DOMAIN n, n["default"] = m["default"],
           \A p \in Connectors : p \in DOMAIN m =>
               p \in DOMAIN n /\ (n[p] = m[p] \/ (p \notin gone => n[p] = d[p].id)),
           Head(s).rq = "pointer" => Head(s).name \in DOMAIN n
                                     /\ (Head(s).name \notin gone => n[Head(s).name] = d[Head(s).name].id)
    PROVE  Confined(n, t, ps, d, gone)
<1>1. "default" \in DOMAIN n /\ n["default"] = None /\ ps \subseteq Connectors
  BY DEF Confined
<1>2. \A k \in At(t, "pointer") : k + 1 \in At(s, "pointer") /\ t[k] = s[k + 1]
  BY AtDrops DEF At
<1>3. \A k \in At(t, "pointer") : Names(d, gone, t[k].name, t[k].id)
  BY <1>2 DEF Confined
<1>4. ASSUME NEW p \in ps \ gone
      PROVE  \/ p \in DOMAIN n /\ n[p] = d[p].id
             \/ \E k \in At(t, "pointer") : t[k].name = p
  <2>1. CASE p \in DOMAIN m /\ m[p] = d[p].id
    BY <1>1, <2>1
  <2>2. CASE \E k \in At(s, "pointer") : s[k].name = p
    <3>1. PICK k \in At(s, "pointer") : s[k].name = p
      BY <2>2
    <3>2. CASE k = 1
      BY <3>1, <3>2, AtDrops DEF At
    <3>3. CASE k # 1
      <4>1. k - 1 \in At(t, "pointer") /\ t[k - 1] = s[k]
        BY <3>1, <3>3, AtDrops DEF At
      <4> QED BY <3>1, <4>1
    <3> QED BY <3>2, <3>3
  <2> QED BY <2>1, <2>2 DEF Confined
<1> QED BY <1>1, <1>3, <1>4 DEF Confined

\* A request that moves nothing.
LEMMA LandingLater ==
    ASSUME NEW s, NEW u, Drops(s, u), Head(s).rq \notin {"motion", "relative"}, NEW t, NEW ps, NEW d,
           NEW gone, NEW had, NEW cur, Landing(s, t, ps, d, gone, had, cur)
    PROVE  Landing(u, t, ps, d, gone, had, cur)
<1>1. \A k \in DOMAIN u : k + 1 \in DOMAIN s /\ u[k] = s[k + 1] /\ k \in Nat
  BY AtDrops
<1>2. \A k \in DOMAIN s : k # 1 => k - 1 \in DOMAIN u /\ u[k - 1] = s[k] /\ k \in Nat
  BY AtDrops
<1>3. ASSUME Underway(s, t) PROVE Underway(u, t)
  <2>1. PICK k \in At(s, "motion") : /\ s[k] = Motion(Mover(t), t.x, t.extent)
                                     /\ \A l \in Moves(s) : l = k
                                     /\ \A l \in At(s, "pointer") : l < k
    BY <1>3 DEF Underway
  <2>2. k # 1
    BY <2>1, AtDrops DEF At
  <2>3. k - 1 \in At(u, "motion") /\ u[k - 1] = s[k] /\ k \in Nat
    BY <1>2, <2>1, <2>2 DEF At
  <2>4. \A l \in Moves(u) : l + 1 \in Moves(s) /\ l \in Nat
    BY <1>1 DEF Moves, At
  <2>5. \A l \in Moves(u) : l = k - 1
    BY <2>1, <2>3, <2>4
  <2>6. \A l \in At(u, "pointer") : l + 1 \in At(s, "pointer") /\ l \in Nat
    BY <1>1 DEF At
  <2>7. \A l \in At(u, "pointer") : l < k - 1
    BY <2>1, <2>3, <2>6
  <2>8. u[k - 1] = Motion(Mover(t), t.x, t.extent)
    BY <2>1, <2>3
  <2> QED BY <2>3, <2>5, <2>7, <2>8 DEF Underway
<1>4. Moves(s) = {} => Moves(u) = {}
  BY <1>1 DEF Moves, At
<1>5. Landed(s, t, d, gone, had, cur) => Landed(u, t, d, gone, had, cur)
  BY <1>4 DEF Landed
<1> QED BY <1>3, <1>5 DEF Landing

LEMMA WholeWidth == ASSUME NEW x \in Nat, NEW w \in Nat \ {0} PROVE (x * (w \div 1)) \div w = x
<1>1. w \div 1 = w
  OBVIOUS
<1>2. (x * w) \div w = x
  OBVIOUS
<1> QED BY <1>1, <1>2

\* The motion that the task is about.
LEMMA Lands ==
    ASSUME IInv, MInv, task.op \in {"move", "moveto"}, task.ok,
           requests # <<>>, Head(requests) = Motion(Mover(task), task.x, task.extent),
           Head(requests).rq \in {"motion", "relative"}, \A k \in At(requests, "pointer") : FALSE,
           NEW c \in Targets(task, desktop), Sound(c, task, loose, seen)
    PROVE  Place(Mover(task), Least(task.x, task.extent), task.extent)
             = [on |-> c, at |-> Least(task.x, task.extent)]
<1> DEFINE y == Least(task.x, task.extent)
           e == task.extent
<1>1. task.op \in Ops /\ task.x \in Nat /\ (task.op = "moveto" => task.to \in pointers)
  BY DEF MInv, Landing
<1>2. c \in Connectors \ loose /\ c \in DOMAIN desktop /\ desktop \in seen
  BY <1>1 DEF Sound, MInv, Steady
<1>3. desktop[c].scale = 1 /\ desktop[c].mode = e
  BY <1>2 DEF Sound
<1>4. desktop[c].mode \in Nat \ {0} /\ desktop[c].id \in 1..Highest
  <2>1. desktop[c] \in [id : 1..Highest, mode : Modes, scale : Scales]
    BY <1>2 DEF MInv, Plugs
  <2> QED BY <2>1, PointerAssumption
<1>5. y \in Nat
  BY <1>1, <1>3, <1>4 DEF Least
<1> HIDE DEF y
<1>6. (y * Logical(desktop[c])) \div e = y
  BY <1>3, <1>4, <1>5, WholeWidth DEF Logical
<1>7. CASE task.op = "moveto"
  <2>1. task.to = c /\ Mover(task) = c /\ c \in pointers \ loose
    BY <1>1, <1>2, <1>7 DEF Targets, Mover
  <2>2. mapped[c] = desktop[c].id
    BY <2>1 DEF MInv, Confined
  <2>3. mapped[c] # None
    BY <1>4, <2>2, PointerAssumption
  <2>4. Of(mapped[c]) = c
    <3>1. \A d \in DOMAIN desktop : desktop[d].id = mapped[c] => d = c
      BY <1>2, <2>2 DEF MInv, Plugs
    <3>2. \E d \in DOMAIN desktop : desktop[d].id = mapped[c]
      BY <1>2, <2>2
    <3> QED BY <3>1, <3>2 DEF Of
  <2>5. Place(c, y, e) = [on |-> c, at |-> (y * Logical(desktop[c])) \div e]
    BY <2>3, <2>4 DEF Place
  <2> QED BY <1>6, <2>1, <2>5 DEF y
<1>8. CASE task.op = "move"
  <2>1. Mover(task) = "default" /\ mapped["default"] = None
    BY <1>8 DEF Mover, MInv, Confined
  <2>2. IsFiniteSet(DOMAIN desktop)
    BY PointerAssumption, FS_Subset DEF MInv, Plugs
  <2>3. Cardinality(DOMAIN desktop) = 1
    <3>1. Cardinality(DOMAIN desktop) \in Nat /\ Cardinality(DOMAIN desktop) # 0
      BY <1>2, <2>2, FS_CardinalityType, FS_EmptySet
    <3>2. ~(Cardinality(DOMAIN desktop) > 1)
      BY <1>2, <1>8 DEF Sound
    <3> QED BY <3>1, <3>2
  <2>4. PICK d : DOMAIN desktop = {d}
    BY <2>2, <2>3, FS_Singleton
  <2>5. (CHOOSE b \in DOMAIN desktop : TRUE) = c
    BY <1>2, <2>4
  <2>6. Place("default", y, e) = [on |-> c, at |-> (y * Logical(desktop[c])) \div e]
    BY <2>1, <2>3, <2>5 DEF Place
  <2> QED BY <1>6, <2>1, <2>6 DEF y
<1> QED BY <1>7, <1>8

\* What remains to be shown of a step that leaves the desktop and the worker be.
LEMMA AfterHandling ==
    ASSUME MInv, UNCHANGED <<desktop, mirror, task, done, pointers, changes, loose, seen>>,
           Told(wire', desktop, loose), Turn(requests', wire', done),
           Confined(mapped', requests', pointers, desktop, loose),
           Landing(requests', task, pointers, desktop, loose, seen, cursor')
    PROVE  MInv'
<1>1. Highest' = Highest
  BY DEF Highest
<1>2. Known(mirror', desktop', loose')
  BY DEF MInv
<1> QED BY <1>1, <1>2 DEF MInv

\* It says where an output is.
LEMMA AnswerJoins ==
    ASSUME IInv, MInv, NEW e, e.ev \in {"info", "logical"}, NEW id,
           wire' = IF Plugged(id) THEN Append(wire, e) ELSE wire,
           Plugged(id) /\ e.ev = "info" => Names(desktop, loose, e.name, e.id)
    PROVE  Told(wire', desktop, loose) /\ Dones(wire') = Dones(wire)
<1>1. IsSeq(wire) /\ Told(wire, desktop, loose)
  BY DEF IInv, MInv
<1>2. CASE Plugged(id)
  <2>1. Told(Append(wire, e), desktop, loose) /\ Dones(Append(wire, e)) = Dones(wire)
    BY <1>1, <1>2, EventJoins
  <2> QED BY <1>2, <2>1
<1>3. CASE ~Plugged(id)
  BY <1>1, <1>3
<1> QED BY <1>2, <1>3

LEMMA WhoIsPlugged ==
    ASSUME NEW id, Plugged(id) PROVE Of(id) \in DOMAIN desktop /\ desktop[Of(id)].id = id
BY DEF Plugged, Of

LEMMA HandleMoves == ASSUME IInv, MInv, Handle PROVE MInv'
<1> DEFINE r == Head(requests)
           t == Tail(requests)
<1>1. /\ requests # <<>> /\ requests' = t
      /\ UNCHANGED <<desktop, mirror, task, done, pointers, changes, loose, seen>>
  BY DEF Handle, worker, bounds
<1>2. Drops(requests, t)
  BY <1>1, AllButFirst DEF IInv
<1>3. Turn(requests, wire, done) /\ Told(wire, desktop, loose) /\ IsSeq(wire)
      /\ Confined(mapped, requests, pointers, desktop, loose)
      /\ Landing(requests, task, pointers, desktop, loose, seen, cursor)
  BY DEF MInv, IInv
<1> HIDE DEF t
<1>4. ASSUME r.rq # "pointer", mapped' = mapped
      PROVE  Confined(mapped', t, pointers, desktop, loose)
  <2>1. "default" \in DOMAIN mapped
    BY <1>3 DEF Confined
  <2> QED BY <1>2, <1>3, <1>4, <2>1, ConfinedLater
<1>5. ASSUME r.rq \notin {"motion", "relative"}, cursor' = cursor
      PROVE  Landing(t, task, pointers, desktop, loose, seen, cursor')
  BY <1>2, <1>3, <1>5, LandingLater
<1>6. ASSUME r.rq # "sync", Dones(wire') = Dones(wire) PROVE Turn(t, wire', done)
  BY <1>2, <1>3, <1>6, TurnHandled
<1>7. CASE r.rq = "bind"
  <2>1. UNCHANGED <<described, mapped, cursor>>
        /\ wire' = IF Plugged(r.id) THEN Append(wire, Info(Of(r.id))) ELSE wire
    BY <1>7 DEF Handle
  <2> DEFINE e == Info(Of(r.id))
  <2>2. e.ev = "info" /\ e.name = Of(r.id) /\ e.id = desktop[Of(r.id)].id
    BY DEF Info
  <2>3. wire' = IF Plugged(r.id) THEN Append(wire, e) ELSE wire
    BY <2>1
  <2> HIDE DEF e
  <2>4. Plugged(r.id) => Names(desktop, loose, e.name, e.id)
    BY <2>2, WhoIsPlugged DEF Names, MInv, Plugs
  <2>5. Told(wire', desktop, loose) /\ Dones(wire') = Dones(wire)
    BY <2>2, <2>3, <2>4, AnswerJoins
  <2> QED BY <1>1, <1>4, <1>5, <1>6, <1>7, <2>1, <2>5, AfterHandling
<1>8. CASE r.rq = "xdg"
  <2>1. UNCHANGED <<mapped, cursor>>
        /\ wire' = IF Plugged(r.id) THEN Append(wire, LogicalSize(Of(r.id))) ELSE wire
    BY <1>8 DEF Handle
  <2> DEFINE e == LogicalSize(Of(r.id))
  <2>2. e.ev = "logical"
    BY DEF LogicalSize
  <2>3. wire' = IF Plugged(r.id) THEN Append(wire, e) ELSE wire
    BY <2>1
  <2> HIDE DEF e
  <2>4. Told(wire', desktop, loose) /\ Dones(wire') = Dones(wire)
    BY <2>2, <2>3, AnswerJoins
  <2> QED BY <1>1, <1>4, <1>5, <1>6, <1>8, <2>1, <2>4, AfterHandling
<1>9. CASE r.rq = "pointer"
  <2>1. /\ mapped' = [p \in DOMAIN mapped \cup {r.name} |->
                        IF p # r.name THEN mapped[p] ELSE IF Plugged(r.id) THEN r.id ELSE None]
        /\ UNCHANGED <<bound, described, cursor, wire>>
    BY <1>9 DEF Handle
  <2>2. Names(desktop, loose, r.name, r.id)
    BY <1>2, <1>3, <1>9, AtDrops DEF Confined, At
  <2>3. r.name \in Connectors /\ r.name # "default"
    BY <2>2, PointerAssumption DEF Names
  <2>4. r.name \in DOMAIN mapped' /\ (r.name \notin loose => mapped'[r.name] = desktop[r.name].id)
    <3>1. ASSUME r.name \notin loose PROVE mapped'[r.name] = desktop[r.name].id
      <4>1. r.id = desktop[r.name].id /\ r.name \in DOMAIN desktop
        BY <2>2, <2>3, <3>1 DEF Names, MInv, Steady
      <4>2. Plugged(r.id)
        BY <4>1 DEF Plugged
      <4> QED BY <2>1, <4>1, <4>2
    <3> QED BY <2>1, <3>1
  <2>5. "default" \in DOMAIN mapped' /\ mapped'["default"] = mapped["default"]
    <3>1. "default" \in DOMAIN mapped
      BY <1>3 DEF Confined
    <3> QED BY <2>1, <2>3, <3>1
  <2>6. \A p \in Connectors : p \in DOMAIN mapped =>
           p \in DOMAIN mapped' /\ (mapped'[p] = mapped[p] \/ (p \notin loose => mapped'[p] = desktop[p].id))
    <3> SUFFICES ASSUME NEW p \in Connectors, p \in DOMAIN mapped
                 PROVE  p \in DOMAIN mapped'
                        /\ (mapped'[p] = mapped[p] \/ (p \notin loose => mapped'[p] = desktop[p].id))
      OBVIOUS
    <3>1. p \in DOMAIN mapped' /\ (p # r.name => mapped'[p] = mapped[p])
      BY <2>1
    <3> QED BY <2>4, <3>1
  <2>7. Confined(mapped', t, pointers, desktop, loose)
    BY <1>2, <1>3, <2>4, <2>5, <2>6, ConfinedLater
  <2> QED BY <1>1, <1>3, <1>5, <1>6, <1>9, <2>1, <2>7, AfterHandling
<1>10. CASE r.rq = "sync"
  <2>1. wire' = Append(wire, [ev |-> "done"]) /\ UNCHANGED <<mapped, cursor>>
    BY <1>10 DEF Handle
  <2> DEFINE e == [ev |-> "done"]
  <2>2. e.ev = "done" /\ wire' = Append(wire, e)
    BY <2>1
  <2> HIDE DEF e
  <2>3. Told(wire', desktop, loose)
    BY <1>3, <2>2, EventJoins
  <2>4. Turn(t, wire', done)
    BY <1>2, <1>3, <1>10, <2>2, TurnAnswered
  <2> QED BY <1>1, <1>4, <1>5, <1>10, <2>1, <2>3, <2>4, AfterHandling
<1>11. CASE r.rq = "button"
  <2>1. UNCHANGED <<mapped, cursor, wire>>
    BY <1>11 DEF Handle
  <2> QED BY <1>1, <1>3, <1>4, <1>5, <1>6, <1>11, <2>1, AfterHandling
<1>12. CASE r.rq \in {"motion", "relative"}
  <2>1. UNCHANGED <<mapped, wire>> /\ (r.rq = "motion" => cursor' = Place(r.pointer, r.x, r.extent))
    BY <1>12 DEF Handle
  <2>2. 1 \in Moves(requests) /\ requests[1] = r /\ DOMAIN requests \subseteq Nat
    BY <1>2, <1>12, AtDrops DEF Moves, At
  <2>3. Landing(t, task, pointers, desktop, loose, seen, cursor')
    <3> SUFFICES ASSUME task.op \in {"move", "moveto"}, task.ok
                 PROVE  /\ task.op \in Ops /\ task.x \in Nat
                        /\ task.op = "moveto" => task.to \in pointers
                        /\ Underway(t, task) \/ Landed(t, task, desktop, loose, seen, cursor')
      BY DEF Landing
    <3>1. Underway(requests, task)
      BY <1>3, <2>2 DEF Landing, Landed
    <3>2. /\ r = Motion(Mover(task), task.x, task.extent)
          /\ r.rq = "motion" /\ \A l \in Moves(requests) : l = 1
          /\ \A l \in At(requests, "pointer") : l < 1
      BY <2>2, <3>1 DEF Underway, At
    <3>3. \A l \in At(requests, "pointer") : FALSE
      <4>1. \A l \in DOMAIN requests : l >= 1
        BY <1>2 DEF Drops
      <4>2. \A l \in At(requests, "pointer") : l >= 1 /\ l < 1 /\ l \in Nat
        BY <2>2, <3>2, <4>1 DEF At
      <4> QED BY <4>2
    <3>4. Moves(t) = {}
      <4>1. \A l \in Moves(t) : l + 1 \in Moves(requests) /\ l \in Nat /\ l >= 1
        BY <1>2, AtDrops DEF Moves, At
      <4>2. \A l \in Moves(t) : l + 1 = 1 /\ l \in Nat /\ l >= 1
        BY <3>2, <4>1
      <4> QED BY <4>2
    <3>5. /\ r.pointer = Mover(task) /\ r.x = Least(task.x, task.extent) /\ r.extent = task.extent
      BY <3>2 DEF Motion
    <3>6. cursor' = Place(Mover(task), Least(task.x, task.extent), task.extent)
      BY <2>1, <3>2, <3>5
    <3>7. ASSUME NEW c \in Targets(task, desktop), Sound(c, task, loose, seen)
          PROVE  cursor' = [on |-> c, at |-> Least(task.x, task.extent)]
      BY <1>1, <3>2, <3>3, <3>6, <3>7, Lands
    <3>8. Landed(t, task, desktop, loose, seen, cursor')
      BY <3>4, <3>7 DEF Landed
    <3> QED BY <1>3, <3>8 DEF Landing
  <2> QED BY <1>1, <1>3, <1>4, <1>6, <1>12, <2>1, <2>3, AfterHandling
<1> QED BY <1>7, <1>8, <1>9, <1>10, <1>11, <1>12 DEF Handle

------------------------------------------------------------------------------
(* The worker reads an event.                                              *)

\* What remains to be shown of a step that leaves the compositor and the task be.
LEMMA AfterReading ==
    ASSUME MInv, UNCHANGED <<desktop, mapped, cursor, task, pointers, changes, loose, seen>>,
           done' \in BOOLEAN, task.op # "idle", Told(wire', desktop, loose),
           Known(mirror', desktop, loose), Turn(requests', wire', done'),
           Confined(mapped, requests', pointers, desktop, loose),
           Landing(requests', task, pointers, desktop, loose, seen, cursor)
    PROVE  MInv'
<1>1. Highest' = Highest
  BY DEF Highest
<1> QED BY <1>1 DEF MInv

\* Objects are asked for.
LEMMA AskedFor ==
    ASSUME NEW s, NEW x, NEW u, Joins(s, x, u), \A k \in DOMAIN x : x[k].rq \in {"bind", "xdg"}
    PROVE  /\ At(u, "pointer") = At(s, "pointer") /\ At(u, "motion") = At(s, "motion")
           /\ Moves(u) = Moves(s)
           /\ \A k \in At(s, "pointer") \cup At(s, "motion") : u[k] = s[k]
<1>1. \A k \in DOMAIN u : u[k].rq \in {"bind", "xdg"} \/ (k \in DOMAIN s /\ u[k] = s[k])
  BY AtJoins
<1>2. \A k \in DOMAIN s : k \in DOMAIN u /\ u[k] = s[k]
  BY AtJoins
<1>3. \A rq \in {"pointer", "motion", "relative"} : At(u, rq) = At(s, rq)
  <2> SUFFICES ASSUME NEW rq \in {"pointer", "motion", "relative"} PROVE At(u, rq) = At(s, rq)
    OBVIOUS
  <2>1. \A k \in At(u, rq) : k \in At(s, rq)
    BY <1>1 DEF At
  <2>2. \A k \in At(s, rq) : k \in At(u, rq)
    BY <1>2 DEF At
  <2> QED BY <2>1, <2>2
<1>4. \A k \in At(s, "pointer") \cup At(s, "motion") : u[k] = s[k]
  BY <1>2 DEF At
<1> QED BY <1>3, <1>4 DEF Moves

LEMMA ConfinedAsked ==
    ASSUME NEW s, NEW x, NEW u, Joins(s, x, u), \A k \in DOMAIN x : x[k].rq \in {"bind", "xdg"},
           NEW m, NEW ps, NEW d, NEW gone, Confined(m, s, ps, d, gone)
    PROVE  Confined(m, u, ps, d, gone)
<1>1. At(u, "pointer") = At(s, "pointer") /\ \A k \in At(s, "pointer") : u[k] = s[k]
  BY AskedFor
<1> QED BY <1>1 DEF Confined

LEMMA LandingAsked ==
    ASSUME NEW s, NEW x, NEW u, Joins(s, x, u), \A k \in DOMAIN x : x[k].rq \in {"bind", "xdg"},
           NEW t, NEW ps, NEW d, NEW gone, NEW had, NEW cur, Landing(s, t, ps, d, gone, had, cur)
    PROVE  Landing(u, t, ps, d, gone, had, cur)
<1>1. /\ At(u, "pointer") = At(s, "pointer") /\ At(u, "motion") = At(s, "motion")
      /\ Moves(u) = Moves(s) /\ \A k \in At(s, "motion") : u[k] = s[k]
  BY AskedFor
<1>2. Underway(s, t) => Underway(u, t)
  BY <1>1 DEF Underway
<1>3. Landed(s, t, d, gone, had, cur) => Landed(u, t, d, gone, had, cur)
  BY <1>1 DEF Landed
<1> QED BY <1>2, <1>3 DEF Landing

LEMMA ReadMoves == ASSUME IInv, MInv, Read PROVE MInv'
<1> DEFINE e == Head(wire)
           w == Tail(wire)
<1>1. /\ wire # <<>> /\ wire' = w /\ task.op # "idle"
      /\ UNCHANGED <<desktop, mapped, cursor, task, pointers, changes, loose, seen>>
  BY DEF Read, compositor, bounds
<1>2. Drops(wire, w)
  BY <1>1, AllButFirst DEF IInv
<1>3. /\ Turn(requests, wire, done) /\ Told(wire, desktop, loose) /\ done \in BOOLEAN
      /\ Known(mirror, desktop, loose)
      /\ Confined(mapped, requests, pointers, desktop, loose)
      /\ Landing(requests, task, pointers, desktop, loose, seen, cursor)
  BY DEF MInv
<1> HIDE DEF w
<1>4. Told(w, desktop, loose)
  BY <1>2, <1>3, AtDrops DEF Told
<1>5. ASSUME e.ev # "done" PROVE Turn(requests, w, done)
  BY <1>2, <1>3, <1>5, TurnRead
<1>6. CASE e.ev = "output" /\ OnOutput(e)
  <2> DEFINE a == [rq |-> "bind", id |-> e.id]
             b == [rq |-> "xdg", id |-> e.id]
             bs == IF manager THEN <<b>> ELSE <<>>
             x == <<a>> \o bs
  <2>1. /\ mirror' = [i \in DOMAIN mirror \cup {e.id} |-> IF i = e.id THEN Entry ELSE mirror[i]]
        /\ requests' = requests \o x /\ done' = done
    BY <1>6 DEF OnOutput, Ask
  <2>2. a.rq = "bind" /\ b.rq = "xdg"
    OBVIOUS
  <2> HIDE DEF a, b
  <2>3. IsSeq(bs) /\ \A k \in DOMAIN bs : bs[k].rq \in {"bind", "xdg"}
    <3> DEFINE one == <<b>>
    <3>1. IsSeq(one) /\ one[1] = b /\ DOMAIN one = {1}
      BY OneIsSeq
    <3> HIDE DEF one
    <3>2. CASE manager
      BY <2>2, <3>1, <3>2 DEF one
    <3>3. CASE ~manager
      <4>1. bs = <<>>
        BY <3>3
      <4> QED BY <4>1, NoneIsSeq
    <3> QED BY <3>2, <3>3
  <2> HIDE DEF bs
  <2>4. IsSeq(x) /\ \A k \in DOMAIN x : x[k].rq \in {"bind", "xdg"}
    <3> DEFINE one == <<a>>
    <3>1. IsSeq(one) /\ one[1] = a /\ DOMAIN one = {1} /\ x = one \o bs
      BY OneIsSeq
    <3> HIDE DEF one, x
    <3>2. Joins(one, bs, one \o bs)
      BY <2>3, <3>1, TwoParts
    <3>3. Joins(one, bs, x)
      BY <3>1, <3>2
    <3>4. \A k \in DOMAIN x : x[k] = a \/ \E l \in DOMAIN bs : x[k] = bs[l]
      <4>1. \A k \in DOMAIN x :
               (k \in DOMAIN one /\ x[k] = one[k]) \/ \E l \in DOMAIN bs : x[k] = bs[l]
        BY <3>3, EitherPart
      <4>2. \A k \in DOMAIN one : one[k] = a
        BY <3>1
      <4> QED BY <4>1, <4>2
    <3> QED BY <2>2, <2>3, <3>3, <3>4 DEF Joins
  <2> HIDE DEF x
  <2>5. Joins(requests, x, requests')
    <3>1. Joins(requests, x, requests \o x)
      BY <2>4, TwoParts DEF IInv
    <3> QED BY <2>1, <3>1
  <2>6. Turn(requests', w, done)
    BY <1>5, <1>6, <2>4, <2>5, TurnAsked
  <2>7. Known(mirror', desktop, loose)
    <3>1. Entry.name \notin Connectors
      BY PointerAssumption DEF Entry
    <3>2. \A i \in DOMAIN mirror' : mirror'[i] = Entry \/ (i \in DOMAIN mirror /\ mirror'[i] = mirror[i])
      BY <2>1
    <3> QED BY <1>3, <3>1, <3>2 DEF Known
  <2>8. /\ Confined(mapped, requests', pointers, desktop, loose)
        /\ Landing(requests', task, pointers, desktop, loose, seen, cursor)
    BY <1>3, <2>4, <2>5, ConfinedAsked, LandingAsked
  <2> QED BY <1>1, <1>3, <1>4, <2>1, <2>6, <2>7, <2>8, AfterReading
<1>7. ASSUME e.ev # "done", done' = done, requests' = requests, Known(mirror', desktop, loose)
      PROVE  MInv'
  BY <1>1, <1>3, <1>4, <1>5, <1>7, AfterReading
<1>8. CASE e.ev = "manager" /\ OnManager
  BY <1>3, <1>7, <1>8 DEF OnManager
<1>9. PICK S : mirror \in [DOMAIN mirror -> [name : S, mode : S, scale : S, logical : S, attached : BOOLEAN]]
  BY DEF IInv, Entries
<1>10. CASE e.ev = "info" /\ OnInfo(e)
  <2>1. mirror' = [mirror EXCEPT ![e.id].name = e.name, ![e.id].mode = e.mode, ![e.id].scale = e.scale]
        /\ UNCHANGED <<done, requests>>
    BY <1>10 DEF OnInfo
  <2>2. Names(desktop, loose, e.name, e.id)
    BY <1>2, <1>3, <1>10, AtDrops DEF Told
  <2>3. ASSUME NEW i \in DOMAIN mirror
        PROVE  mirror'[i].name = IF i = e.id THEN e.name ELSE mirror[i].name
    <3>1. mirror[i] \in [name : S, mode : S, scale : S, logical : S, attached : BOOLEAN]
      BY <1>9
    <3>2. mirror'[i] = IF i = e.id THEN [mirror[i] EXCEPT !.name = e.name, !.mode = e.mode, !.scale = e.scale]
                       ELSE mirror[i]
      BY <1>9, <2>1
    <3> QED BY <3>1, <3>2
  <2>4. DOMAIN mirror' = DOMAIN mirror
    BY <2>1
  <2>5. Known(mirror', desktop, loose)
    BY <1>3, <2>2, <2>3, <2>4 DEF Known
  <2> QED BY <1>7, <1>10, <2>1, <2>5
<1>11. CASE e.ev = "logical" /\ OnLogical(e)
  <2>1. mirror' = [mirror EXCEPT ![e.id].logical = e.size] /\ UNCHANGED <<done, requests>>
    BY <1>11 DEF OnLogical
  <2>2. ASSUME NEW i \in DOMAIN mirror PROVE mirror'[i].name = mirror[i].name
    <3>1. mirror[i] \in [name : S, mode : S, scale : S, logical : S, attached : BOOLEAN]
      BY <1>9
    <3>2. mirror'[i] = IF i = e.id THEN [mirror[i] EXCEPT !.logical = e.size] ELSE mirror[i]
      BY <1>9, <2>1
    <3> QED BY <3>1, <3>2
  <2>3. DOMAIN mirror' = DOMAIN mirror
    BY <2>1
  <2>4. Known(mirror', desktop, loose)
    BY <1>3, <2>2, <2>3 DEF Known
  <2> QED BY <1>7, <1>11, <2>1, <2>4
<1>12. CASE e.ev = "done" /\ OnDone
  <2>1. done' = TRUE /\ UNCHANGED <<mirror, requests>>
    BY <1>12 DEF OnDone
  <2>2. Turn(requests, w, TRUE)
    BY <1>2, <1>3, <1>12, TurnRead
  <2> QED BY <1>1, <1>3, <1>4, <2>1, <2>2, AfterReading
<1> QED BY <1>6, <1>8, <1>10, <1>11, <1>12 DEF Read

------------------------------------------------------------------------------
(* The worker's own steps.                                                 *)

\* The pointers made by the requests x are those of outputs that the worker knows.
Makes(x, old, new, d, gone) ==
    /\ \A k \in At(x, "pointer") : Names(d, gone, x[k].name, x[k].id)
    /\ new \subseteq Connectors
    /\ \A p \in new : p \in old \/ \E k \in At(x, "pointer") : x[k].name = p

\* If the task t is a move, it is what the requests x ask for.
Aims(x, t, ps) ==
    (t.op \in {"move", "moveto"} /\ t.ok) =>
        /\ t.op \in Ops /\ t.x \in Nat /\ (t.op = "moveto" => t.to \in ps)
        /\ Underway(x, t)

\* What remains to be shown of a roundtrip: x is asked for before its end.
LEMMA AfterAsking ==
    ASSUME IInv, MInv, done, NEW x, IsSeq(x), NEW u,
           requests' = requests \o Append(x, Sync), done' = FALSE, task' = u, u.op # "idle",
           UNCHANGED <<desktop, mapped, cursor, wire, changes, loose>>,
           \A k \in DOMAIN x : x[k].rq # "sync",
           seen' = {desktop} \/ (seen' = seen /\ u.op \notin Ops),
           Makes(x, pointers, pointers', desktop, loose), Aims(x, u, pointers'),
           Known(mirror', desktop, loose)
    PROVE  MInv'
<1> DEFINE t == Append(x, Sync)
           s == requests \o t
           one == <<Sync>>
<1>1. Turn(requests, wire, TRUE)
  BY DEF MInv, Turn
<1>2. Calm(requests)
  BY <1>1, TurnCalm
<1>3. Sync.rq = "sync"
  BY DEF Sync
<1>4. IsSeq(requests)
  BY DEF IInv
<1>5. Turn(s, wire, FALSE) /\ Joins(requests, t, s) /\ Joins(x, one, t) /\ DOMAIN one = {1}
      /\ one[1] = Sync
  BY ONLY <1>1, <1>3, <1>4, IsSeq(x), \A k \in DOMAIN x : x[k].rq # "sync", TurnBegun
<1>6. requests' = s
  OBVIOUS
<1> HIDE DEF t, s, one
<1> DEFINE n == Len(requests)
<1>7. n \in Nat /\ DOMAIN x \subseteq Nat /\ DOMAIN t \subseteq Nat
  BY <1>5, AtJoins
<1>8. \A k \in DOMAIN x : n + k \in DOMAIN s /\ s[n + k] = x[k]
  <2>1. \A k \in DOMAIN x : k \in DOMAIN t /\ t[k] = x[k]
    BY <1>5, AtJoins
  <2>2. \A k \in DOMAIN t : n + k \in DOMAIN s /\ s[n + k] = t[k]
    BY <1>5, AtJoins
  <2> QED BY <2>1, <2>2
<1>9. ASSUME NEW k \in DOMAIN s, s[k].rq \in {"pointer", "motion", "relative"}
      PROVE  \E l \in DOMAIN x : k = n + l /\ s[k] = x[l]
  <2>1. k \notin DOMAIN requests
    <3>1. k \in DOMAIN requests => s[k] = requests[k]
      BY <1>5, AtJoins
    <3> QED BY <1>2, <1>9, <3>1 DEF Calm
  <2>2. PICK l \in DOMAIN t : k = n + l
    BY <1>5, <2>1, AtJoins
  <2>3. s[k] = t[l]
    BY <1>5, <2>2, AtJoins
  <2>4. l \in DOMAIN x
    <3>1. (l \in DOMAIN x /\ t[l] = x[l]) \/ \E j \in DOMAIN one : t[l] = one[j]
      BY <1>5, EitherPart
    <3> QED BY <1>3, <1>5, <1>9, <2>3, <3>1
  <2>5. t[l] = x[l]
    BY <1>5, <2>4, AtJoins
  <2> QED BY <2>2, <2>3, <2>4, <2>5
<1> HIDE DEF n
<1>10. \A rq \in {"pointer", "motion", "relative"} :
         /\ \A k \in At(s, rq) : \E l \in At(x, rq) : k = n + l /\ s[k] = x[l]
         /\ \A l \in At(x, rq) : n + l \in At(s, rq) /\ s[n + l] = x[l]
  <2> SUFFICES ASSUME NEW rq \in {"pointer", "motion", "relative"}
               PROVE  /\ \A k \in At(s, rq) : \E l \in At(x, rq) : k = n + l /\ s[k] = x[l]
                      /\ \A l \in At(x, rq) : n + l \in At(s, rq) /\ s[n + l] = x[l]
    OBVIOUS
  <2>1. ASSUME NEW k \in At(s, rq) PROVE \E l \in At(x, rq) : k = n + l /\ s[k] = x[l]
    <3>1. k \in DOMAIN s /\ s[k].rq = rq
      BY DEF At
    <3>2. PICK l \in DOMAIN x : k = n + l /\ s[k] = x[l]
      BY <1>9, <3>1
    <3> QED BY <3>1, <3>2 DEF At
  <2>2. ASSUME NEW l \in At(x, rq) PROVE n + l \in At(s, rq) /\ s[n + l] = x[l]
    BY <1>8 DEF At
  <2> QED BY <2>1, <2>2
<1>11. Confined(mapped, s, pointers', desktop, loose)
  <2>1. "default" \in DOMAIN mapped /\ mapped["default"] = None
    BY DEF MInv, Confined
  <2>2. \A k \in At(s, "pointer") : Names(desktop, loose, s[k].name, s[k].id)
    BY <1>10 DEF Makes
  <2>3. At(requests, "pointer") = {}
    BY <1>2 DEF Calm, At
  <2>4. ASSUME NEW p \in pointers' \ loose
        PROVE  \/ p \in DOMAIN mapped /\ mapped[p] = desktop[p].id
               \/ \E k \in At(s, "pointer") : s[k].name = p
    <3>1. CASE p \in pointers
      BY <2>3, <3>1 DEF MInv, Confined
    <3>2. CASE \E l \in At(x, "pointer") : x[l].name = p
      BY <1>10, <3>2
    <3> QED BY <3>1, <3>2 DEF Makes
  <2> QED BY <2>1, <2>2, <2>4 DEF Confined, Makes
<1>12. Underway(x, u) => Underway(s, u)
  <2> SUFFICES ASSUME Underway(x, u) PROVE Underway(s, u)
    OBVIOUS
  <2>1. PICK k \in At(x, "motion") : /\ x[k] = Motion(Mover(u), u.x, u.extent)
                                     /\ \A l \in Moves(x) : l = k
                                     /\ \A l \in At(x, "pointer") : l < k
    BY DEF Underway
  <2>2. n + k \in At(s, "motion") /\ s[n + k] = x[k]
    BY <1>10
  <2>3. \A l \in Moves(s) : l = n + k
    <3>1. \A l \in Moves(s) : \E j \in Moves(x) : l = n + j
      BY <1>10 DEF Moves
    <3> QED BY <2>1, <3>1
  <2>4. \A l \in At(s, "pointer") : l < n + k
    <3>1. \A l \in At(s, "pointer") : \E j \in At(x, "pointer") : l = n + j
      BY <1>10
    <3>2. \A j \in At(x, "pointer") : j < k /\ j \in Nat /\ k \in Nat
      BY <1>7, <2>1 DEF At
    <3>3. \A j \in At(x, "pointer") : n + j < n + k
      BY <1>7, <3>2
    <3> QED BY <3>1, <3>3
  <2>5. s[n + k] = Motion(Mover(u), u.x, u.extent)
    BY <2>1, <2>2
  <2> QED BY <2>2, <2>3, <2>4, <2>5 DEF Underway
<1>13. Landing(s, u, pointers', desktop, loose, seen', cursor)
  BY <1>12 DEF Landing, Aims
<1>14. Steady(desktop, loose, seen', u)
  BY DEF Steady, MInv
<1>15. Plugs(desktop, Highest') /\ Told(wire', desktop, loose)
  BY DEF MInv, Highest
<1> QED BY <1>5, <1>6, <1>11, <1>13, <1>14, <1>15 DEF MInv

LEMMA NoneAsked ==
    IsSeq(<<>>) /\ (\A k \in DOMAIN <<>> : <<>>[k].rq # "sync") /\ \A rq : At(<<>>, rq) = {}
BY NoneIsSeq DEF At

LEMMA StartMoves == ASSUME IInv, MInv, Start PROVE MInv'
<1>1. UNCHANGED <<desktop, mapped, cursor, wire, changes, loose, seen, pointers>>
  BY DEF Start, Fixup, CreateObjects, Ready, compositor, bounds
<1>2. Known(mirror, desktop, loose) /\ pointers \subseteq Connectors
  BY DEF MInv, Confined
<1>3. "fixup" \notin Ops /\ "create" \notin Ops
  BY PointerAssumption
<1>4. ASSUME NEW u, u = [op |-> "create"], done, task' = u, done' = FALSE,
             requests' = requests \o Append(<<>>, Sync), mirror' = mirror
      PROVE  MInv'
  <2>1. u.op = "create"
    BY <1>4
  <2> DEFINE x == <<>>
  <2>2. IsSeq(x) /\ (\A k \in DOMAIN x : x[k].rq # "sync") /\ At(x, "pointer") = {}
    BY NoneAsked
  <2> HIDE DEF x
  <2>3. requests' = requests \o Append(x, Sync)
    BY <1>4 DEF x
  <2>4. Makes(x, pointers, pointers', desktop, loose) /\ Aims(x, u, pointers')
    BY <1>1, <1>2, <2>1, <2>2 DEF Makes, Aims
  <2> QED BY <1>1, <1>2, <1>3, <1>4, <2>1, <2>2, <2>3, <2>4, AfterAsking
<1>5. CASE Fixup
  <2>1. done /\ done' = FALSE
    BY <1>5 DEF Fixup, Roundtrip
  <2>2. CASE manager
    <3> DEFINE x == Objects(SetToSeq(Unattached))
               u == [op |-> "fixup"]
    <3>1. /\ task' = u /\ requests' = requests \o Append(x, Sync)
          /\ mirror' = [i \in DOMAIN mirror |-> [mirror[i] EXCEPT !.attached = TRUE]]
      BY <1>5, <2>2 DEF Fixup, Roundtrip, Ask, Objects
    <3>2. u.op = "fixup"
      OBVIOUS
    <3>3. \A k \in DOMAIN x : x[k].rq = "xdg"
      BY FixupAsks
    <3>4. IsSeq(x)
      BY FixupAsks
    <3> HIDE DEF u, x
    <3>5. At(x, "pointer") = {} /\ \A k \in DOMAIN x : x[k].rq # "sync"
      BY <3>3 DEF At
    <3>6. Known(mirror', desktop, loose)
      <4>1. PICK S : mirror \in [DOMAIN mirror ->
                         [name : S, mode : S, scale : S, logical : S, attached : BOOLEAN]]
        BY DEF IInv, Entries
      <4>2. \A i \in DOMAIN mirror : mirror'[i].name = mirror[i].name
        BY <3>1, <4>1
      <4>3. DOMAIN mirror' = DOMAIN mirror
        BY <3>1
      <4> QED BY <1>2, <4>2, <4>3 DEF Known
    <3>7. Makes(x, pointers, pointers', desktop, loose) /\ Aims(x, u, pointers')
      BY <1>1, <1>2, <3>2, <3>5 DEF Makes, Aims
    <3> QED BY <1>1, <1>3, <2>1, <3>1, <3>2, <3>4, <3>5, <3>6, <3>7, AfterAsking
  <2>3. CASE ~manager
    BY <1>4, <1>5, <2>3 DEF Fixup, Roundtrip, Ask
  <2> QED BY <2>2, <2>3
<1>6. CASE CreateObjects
  BY <1>4, <1>6 DEF CreateObjects, Roundtrip, Ask
<1>7. CASE Ready
  <2>1. done /\ UNCHANGED <<requests, mirror, done>> /\ task' = [op |-> "idle"]
    BY <1>7 DEF Ready
  <2>2. task'.op = "idle" /\ "idle" \notin Ops
    BY <2>1, PointerAssumption
  <2>3. Plugs(desktop', Highest') /\ Told(wire', desktop', loose') /\ Turn(requests', wire', done')
    BY <1>1, <2>1 DEF MInv, Highest
  <2>4. Steady(desktop', loose', seen', task')
    BY <1>1, <2>2 DEF Steady, MInv
  <2>5. Confined(mapped', requests', pointers', desktop', loose')
    BY <1>1, <2>1 DEF MInv
  <2>6. Landing(requests', task', pointers', desktop', loose', seen', cursor')
    BY <2>2 DEF Landing
  <2>7. Known(mirror', desktop', loose') /\ done' \in BOOLEAN /\ done'
    BY <1>1, <1>2, <2>1 DEF MInv
  <2> QED BY <2>3, <2>4, <2>5, <2>6, <2>7 DEF MInv
<1> QED BY <1>5, <1>6, <1>7 DEF Start

\* One request, and the roundtrip.
LEMMA OneAsked ==
    ASSUME NEW e, NEW x, x = <<e>>
    PROVE  /\ IsSeq(x) /\ x[1] = e /\ \A k \in DOMAIN x : x[k] = e
           /\ \A rq : At(x, rq) = IF e.rq = rq THEN {1} ELSE {}
<1>1. IsSeq(x) /\ x[1] = e /\ DOMAIN x = {1}
  BY OneIsSeq
<1>2. \A rq : At(x, rq) = IF e.rq = rq THEN {1} ELSE {}
  BY <1>1 DEF At
<1> QED BY <1>1, <1>2

\* The pointer is made, and the motion made with it.
LEMMA TwoAsked ==
    ASSUME NEW a, a.rq = "pointer", NEW b, b.rq = "motion",
           NEW p, Len(p) = 1, p[1] = a, NEW q, Len(q) = 1, q[1] = b, NEW x, Joins(p, q, x)
    PROVE  /\ IsSeq(x) /\ x[1] = a /\ x[2] = b /\ \A k \in DOMAIN x : x[k] \in {a, b}
           /\ At(x, "pointer") = {1} /\ Moves(x) = {2} /\ At(x, "motion") = {2}
<1>1. IsSeq(x) /\ DOMAIN x = 1..2 /\ x[1] = a
  BY DEF Joins
<1>2. x[2] = b
  <2>1. x[Len(p) + 1] = q[1]
    BY DEF Joins
  <2>2. Len(p) + 1 = 2
    OBVIOUS
  <2> QED BY <2>1, <2>2
<1>3. DOMAIN x = {1, 2}
  BY <1>1
<1>4. At(x, "pointer") = {1} /\ At(x, "motion") = {2} /\ At(x, "relative") = {}
  BY <1>1, <1>2, <1>3 DEF At
<1> QED BY <1>1, <1>2, <1>3, <1>4 DEF Moves

LEMMA IssueMoves == ASSUME IInv, MInv, Issue PROVE MInv'
<1>1. /\ UNCHANGED <<desktop, mapped, cursor, wire, mirror, changes, loose>>
      /\ seen' = {desktop} /\ task.op = "idle" /\ done
  BY DEF Issue, compositor, MInv
<1>2. Known(mirror, desktop, loose) /\ Known(mirror', desktop, loose) /\ pointers \subseteq Connectors
  BY <1>1 DEF MInv, Confined
<1>3. Ops \subseteq {"list", "move", "moveto", "relative", "button"} /\ Coordinates \subseteq Nat
  BY PointerAssumption
<1>4. ASSUME NEW x, IsSeq(x), NEW u, Roundtrip(u, x), u.op # "idle", pointers' = pointers,
             \A k \in DOMAIN x : x[k].rq # "sync", At(x, "pointer") = {},
             Aims(x, u, pointers)
      PROVE  MInv'
  <2>1. task' = u /\ done' = FALSE /\ requests' = requests \o Append(x, Sync)
    BY <1>4 DEF Roundtrip, Ask
  <2>2. Makes(x, pointers, pointers', desktop, loose) /\ Aims(x, u, pointers')
    BY <1>2, <1>4 DEF Makes
  <2> QED BY <1>1, <1>2, <1>4, <2>1, <2>2, AfterAsking
<1>5. ASSUME NEW u, Roundtrip(u, <<>>), u.op # "idle", pointers' = pointers,
             ~(u.op \in {"move", "moveto"} /\ u.ok)
      PROVE  MInv'
  <2> DEFINE x == <<>>
  <2>1. IsSeq(x) /\ (\A k \in DOMAIN x : x[k].rq # "sync") /\ At(x, "pointer") = {}
    BY NoneAsked
  <2>2. Roundtrip(u, x)
    BY <1>5
  <2> HIDE DEF x
  <2>3. Aims(x, u, pointers)
    BY <1>5 DEF Aims
  <2> QED BY <1>4, <1>5, <2>1, <2>2, <2>3
<1>6. CASE List
  <2> DEFINE u == [op |-> "list", known |-> DOMAIN mirror]
  <2>1. Roundtrip(u, <<>>) /\ pointers' = pointers
    BY <1>6 DEF List
  <2>2. u.op = "list"
    OBVIOUS
  <2> HIDE DEF u
  <2> QED BY <1>5, <2>1, <2>2
<1>7. ASSUME NEW kind \in Ops, Input(kind) PROVE MInv'
  <2> DEFINE u == [op |-> kind, ok |-> TRUE]
             e == [rq |-> kind]
             x == <<e>>
  <2>1. Roundtrip(u, x) /\ pointers' = pointers /\ kind \in {"relative", "button"}
    BY <1>7 DEF Input
  <2>2. u.op = kind /\ e.rq = kind
    OBVIOUS
  <2> HIDE DEF u, e
  <2>3. IsSeq(x) /\ (\A k \in DOMAIN x : x[k] = e) /\ At(x, "pointer") = {}
    BY <2>1, <2>2, OneAsked
  <2> HIDE DEF x
  <2>4. Aims(x, u, pointers) /\ u.op # "idle" /\ \A k \in DOMAIN x : x[k].rq # "sync"
    BY <2>1, <2>2, <2>3 DEF Aims
  <2> QED BY <1>4, <2>1, <2>3, <2>4
<1>8. ASSUME NEW y \in Coordinates, Move(y) PROVE MInv'
  <2>1. PICK extent \in Extents :
           Roundtrip([op |-> "move", to |-> None, x |-> y, extent |-> extent, ok |-> TRUE,
                      known |-> ModesKnown],
                     <<Motion("default", y, extent)>>)
    BY <1>8 DEF Move
  <2> DEFINE u == [op |-> "move", to |-> None, x |-> y, extent |-> extent, ok |-> TRUE,
                   known |-> ModesKnown]
             e == Motion("default", y, extent)
             x == <<e>>
  <2>2. Roundtrip(u, x) /\ pointers' = pointers /\ "move" \in Ops
    BY <1>8, <2>1 DEF Move
  <2>3. u.op = "move" /\ u.x = y /\ e = Motion(Mover(u), u.x, u.extent)
    BY DEF Mover
  <2>4. e.rq = "motion"
    BY DEF Motion
  <2> HIDE DEF u, e
  <2>5. /\ IsSeq(x) /\ (\A k \in DOMAIN x : x[k] = e) /\ At(x, "pointer") = {}
        /\ At(x, "motion") = {1} /\ At(x, "relative") = {} /\ x[1] = e
    BY <2>4, OneAsked
  <2> HIDE DEF x
  <2>6. Underway(x, u)
    BY <2>3, <2>5 DEF Underway, Moves
  <2>7. Aims(x, u, pointers) /\ u.op # "idle" /\ \A k \in DOMAIN x : x[k].rq # "sync"
    BY <1>3, <2>2, <2>3, <2>4, <2>5, <2>6 DEF Aims
  <2> QED BY <1>4, <2>2, <2>5, <2>7
<1>9. ASSUME NEW c \in Connectors, NEW y \in Coordinates, MoveToOutput(c, y) PROVE MInv'
  <2>1. PICK i \in DOMAIN mirror :
          /\ mirror[i].name = c
          /\ LET new == Cached(c) = {}
                 p == IF new THEN c ELSE CHOOSE q \in Cached(c) : TRUE
                 make == IF new THEN <<[rq |-> "pointer", name |-> c, id |-> i]>> ELSE <<>>
             IN /\ Roundtrip([op |-> "moveto", to |-> c, x |-> y, extent |-> mirror[i].mode, ok |-> TRUE,
                               known |-> ModesKnown],
                             make \o <<Motion(p, y, mirror[i].mode)>>)
                /\ pointers' = IF new THEN pointers \cup {c} ELSE pointers
    BY <1>9 DEF MoveToOutput
  <2> DEFINE extent == mirror[i].mode
             u == [op |-> "moveto", to |-> c, x |-> y, extent |-> extent, ok |-> TRUE,
                   known |-> ModesKnown]
             a == [rq |-> "pointer", name |-> c, id |-> i]
             b == Motion(c, y, extent)
             one == <<b>>
             make == <<a>>
             two == make \o one
  <2>2. (c \in pointers => Cached(c) = {c}) /\ (c \notin pointers => Cached(c) = {})
    BY DEF Cached
  <2>3. u.op = "moveto" /\ u.to = c /\ u.x = y /\ b = Motion(Mover(u), u.x, u.extent)
    BY DEF Mover
  <2>4. b.rq = "motion" /\ a.rq = "pointer" /\ a.name = c /\ a.id = i
    BY DEF Motion
  <2>5. Names(desktop, loose, c, i)
    BY <1>2, <2>1 DEF Known
  <2>6. "moveto" \in Ops
    BY <1>9 DEF MoveToOutput
  <2>7. CASE c \in pointers
    <3>1. (CHOOSE q \in Cached(c) : TRUE) = c /\ Cached(c) # {}
      BY <2>2, <2>7
    <3>2. Roundtrip(u, <<>> \o one) /\ pointers' = pointers
      BY <2>1, <3>1
    <3>3. <<>> \o one = one
      OBVIOUS
    <3> HIDE DEF u, b
    <3>4. /\ IsSeq(one) /\ (\A k \in DOMAIN one : one[k] = b) /\ At(one, "pointer") = {}
          /\ At(one, "motion") = {1} /\ At(one, "relative") = {} /\ one[1] = b
      BY <2>4, OneAsked
    <3> HIDE DEF one
    <3>5. Underway(one, u)
      BY <2>3, <3>4 DEF Underway, Moves
    <3>6. task' = u /\ done' = FALSE /\ requests' = requests \o Append(one, Sync)
      BY <3>2, <3>3 DEF Roundtrip, Ask
    <3>7. \A k \in DOMAIN one : one[k].rq # "sync"
      BY <2>4, <3>4
    <3>8. Makes(one, pointers, pointers', desktop, loose) /\ Aims(one, u, pointers')
      BY <1>2, <1>3, <2>3, <2>6, <2>7, <3>2, <3>4, <3>5 DEF Makes, Aims
    <3> QED BY <1>1, <1>2, <2>3, <3>4, <3>6, <3>7, <3>8, AfterAsking
  <2>8. CASE c \notin pointers
    <3>1. Roundtrip(u, two) /\ pointers' = pointers \cup {c}
      BY <2>1, <2>2, <2>8
    <3> HIDE DEF u, a, b
    <3>2. IsSeq(make) /\ Len(make) = 1 /\ make[1] = a /\ IsSeq(one) /\ Len(one) = 1 /\ one[1] = b
      BY OneIsSeq
    <3> HIDE DEF make, one
    <3>3. Joins(make, one, two)
      BY <3>2, TwoParts
    <3> HIDE DEF two
    <3>4. /\ IsSeq(two) /\ two[1] = a /\ two[2] = b /\ \A k \in DOMAIN two : two[k] \in {a, b}
          /\ At(two, "pointer") = {1} /\ Moves(two) = {2} /\ At(two, "motion") = {2}
      BY ONLY <2>4, <3>2, <3>3, TwoAsked
    <3>5. Underway(two, u)
      BY <2>3, <3>4 DEF Underway
    <3>6. task' = u /\ done' = FALSE /\ requests' = requests \o Append(two, Sync)
      BY <3>1 DEF Roundtrip, Ask
    <3>7. \A k \in DOMAIN two : two[k].rq # "sync"
      BY <2>4, <3>4
    <3>8. \A k \in At(two, "pointer") : Names(desktop, loose, two[k].name, two[k].id)
      BY <2>4, <2>5, <3>4
    <3>9. \A p \in pointers' : p \in pointers \/ \E k \in At(two, "pointer") : two[k].name = p
      BY <2>4, <3>1, <3>4
    <3>10. pointers' \subseteq Connectors /\ c \in pointers'
      BY <1>2, <3>1
    <3>11. u.op # "idle" /\ u.op \in Ops /\ u.x \in Nat /\ (u.op = "moveto" => u.to \in pointers')
      BY <1>3, <2>3, <2>6, <3>10
    <3>12. IsSeq(two)
      BY <3>4
    <3>13. Makes(two, pointers, pointers', desktop, loose) /\ Aims(two, u, pointers')
      BY <3>5, <3>8, <3>9, <3>10, <3>11 DEF Makes, Aims
    <3> QED BY <1>1, <1>2, <3>6, <3>7, <3>11, <3>12, <3>13, AfterAsking
  <2> QED BY <2>7, <2>8
<1>10. ASSUME NEW c \in Connectors, NEW y \in Coordinates, NoSuchOutput(c, y) PROVE MInv'
  <2> DEFINE u == [op |-> "moveto", to |-> c, x |-> y, extent |-> 0, ok |-> FALSE, known |-> ModesKnown]
  <2>1. Roundtrip(u, <<>>) /\ pointers' = pointers
    BY <1>10 DEF NoSuchOutput
  <2>2. u.op = "moveto" /\ u.ok = FALSE
    OBVIOUS
  <2> HIDE DEF u
  <2> QED BY <1>5, <2>1, <2>2
<1> QED BY <1>6, <1>7, <1>8, <1>9, <1>10 DEF Issue

LEMMA ReplyMoves == ASSUME IInv, MInv, Reply PROVE MInv'
<1>1. /\ UNCHANGED <<desktop, mapped, cursor, requests, wire, mirror, done, pointers, changes, loose, seen>>
      /\ task' = [op |-> "idle"] /\ done
  BY DEF Reply, compositor, bounds
<1>2. task'.op = "idle" /\ "idle" \notin Ops
  BY <1>1, PointerAssumption
<1>3. Steady(desktop, loose, seen, task') /\ Landing(requests, task', pointers, desktop, loose, seen, cursor)
  BY <1>2 DEF MInv, Steady, Landing
<1>4. Highest' = Highest
  BY <1>1 DEF Highest
<1>5. Plugs(desktop', Highest') /\ Steady(desktop', loose', seen', task')
      /\ Landing(requests', task', pointers', desktop', loose', seen', cursor')
  BY <1>1, <1>3, <1>4 DEF MInv
<1>6. /\ Known(mirror', desktop', loose') /\ Told(wire', desktop', loose')
      /\ Turn(requests', wire', done') /\ Confined(mapped', requests', pointers', desktop', loose')
  BY <1>1 DEF MInv
<1>7. done' \in BOOLEAN /\ done'
  BY <1>1 DEF MInv
<1> QED BY <1>5, <1>6, <1>7 DEF MInv

------------------------------------------------------------------------------

LEMMA InitMoves == Init => MInv
<1> SUFFICES ASSUME Init PROVE MInv
  OBVIOUS
<1> DEFINE n == Cardinality(Connectors)
           outputs == [i \in 1..n |-> Global(i)]
           m == [ev |-> "manager"]
<1>1. n \in Nat /\ Highest = n
  BY Count DEF Init, Highest
<1>2. /\ mirror = <<>> /\ done = FALSE /\ task = [op |-> "registry"] /\ pointers = {} /\ loose = {}
      /\ seen = {desktop} /\ requests = <<Sync>> /\ mapped = [p \in {"default"} |-> None]
  BY DEF Init
<1>3. task.op = "registry" /\ "registry" \notin Ops
  BY <1>2, PointerAssumption
<1>4. \A k \in DOMAIN wire : wire[k].ev \in {"output", "manager"}
  <2>1. \/ \E at \in 1..(n + 1) : wire = InsertAt(outputs, at, m)
        \/ wire = outputs
    BY DEF Init
  <2>2. \A i : Global(i).ev = "output"
    BY DEF Global
  <2>3. m.ev = "manager"
    OBVIOUS
  <2> HIDE DEF m
  <2>4. CASE wire = outputs
    BY <2>2, <2>4
  <2>5. CASE \E at \in 1..(n + 1) : wire = InsertAt(outputs, at, m)
    <3>1. PICK at \in 1..(n + 1) : Announced(wire, n, at, m)
      BY <1>1, <2>5, Inserted
    <3> HIDE DEF n
    <3>2. \A k \in DOMAIN wire : k \in 1..(at - 1) \/ k = at \/ k \in (at + 1)..(n + 1)
      BY <1>1, <3>1 DEF Announced
    <3> QED BY <2>2, <2>3, <3>1, <3>2 DEF Announced
  <2> QED BY <2>1, <2>4, <2>5
<1>5. Told(wire, desktop, loose) /\ Dones(wire) = {}
  BY <1>4 DEF Told, Dones
<1>6. Plugs(desktop, Highest)
  BY <1>1 DEF Init, Plugs
<1>7. Steady(desktop, loose, seen, task)
  BY <1>2, <1>3 DEF Init, Steady
<1>8. Known(mirror, desktop, loose)
  BY <1>2 DEF Known
<1>9. At(requests, "sync") = {1} /\ At(requests, "pointer") = {} /\ DOMAIN requests = {1}
      /\ requests[1] = Sync
  <2>1. IsSeq(<<Sync>>) /\ <<Sync>>[1] = Sync /\ Len(<<Sync>>) = 1 /\ DOMAIN <<Sync>> = {1}
    BY OneIsSeq
  <2>2. Sync.rq = "sync"
    BY DEF Sync
  <2> DEFINE one == <<Sync>>
  <2>3. one[1].rq = "sync" /\ DOMAIN one = {1}
    BY <2>1, <2>2
  <2>4. requests = one
    BY <1>2
  <2> HIDE DEF one
  <2>5. At(requests, "sync") = {1} /\ At(requests, "pointer") = {}
    BY <2>3, <2>4 DEF At
  <2> QED BY <1>2, <2>1, <2>5
<1>10. Turn(requests, wire, done)
  <2>1. Sync.rq = "sync"
    BY DEF Sync
  <2> QED BY <1>2, <1>5, <1>9, <2>1 DEF Turn
<1>11. Confined(mapped, requests, pointers, desktop, loose)
  BY <1>2, <1>9 DEF Confined
<1>12. Landing(requests, task, pointers, desktop, loose, seen, cursor)
  BY <1>3 DEF Landing
<1> QED BY <1>2, <1>3, <1>5, <1>6, <1>7, <1>8, <1>10, <1>11, <1>12 DEF MInv

LEMMA StepMoves == IInv /\ MInv /\ [Next]_vars => MInv'
<1> SUFFICES ASSUME IInv, MInv, [Next]_vars PROVE MInv'
  OBVIOUS
<1>1. CASE UNCHANGED vars
  <2>1. UNCHANGED <<desktop, mapped, cursor, requests, wire, mirror, done, pointers, changes, loose, seen, task>>
    BY <1>1 DEF vars, compositor, worker, bounds
  <2>2. Highest' = Highest
    BY <2>1 DEF Highest
  <2> QED BY <2>1, <2>2 DEF MInv
<1> QED BY <1>1, DesktopMoves, HandleMoves, ReadMoves, StartMoves, IssueMoves, ReplyMoves DEF Next

\* The step that ends a move finds the cursor where it belongs.
LEMMA EndsThere ==
    ASSUME IInv, MInv, [Next]_vars, task.op \in {"move", "moveto"}, task'.op = "idle", task.ok,
           NEW c \in Targets(task, desktop)
    PROVE  \/ c \in loose
           \/ \E d \in seen : d[c].scale # 1 \/ d[c].mode # task.extent
           \/ task.op = "move" /\ \E d \in seen : Cardinality(DOMAIN d) > 1
           \/ cursor = [on |-> c, at |-> Least(task.x, task.extent)]
<1>1. task' # task
  OBVIOUS
<1>2. task.op # "idle" /\ task.op \notin {"registry", "fixup", "create"}
  OBVIOUS
<1>3. Reply
  <2>1. ~DesktopChanges /\ ~Handle /\ ~Read /\ ~UNCHANGED vars
    BY <1>1 DEF DesktopChanges, Handle, Read, vars, worker
  <2>2. ~Start /\ ~Issue
    BY <1>2 DEF Start, Fixup, CreateObjects, Ready, Issue
  <2> QED BY <2>1, <2>2 DEF Next
<1>4. Calm(requests)
  <2>1. Turn(requests, wire, TRUE)
    BY <1>3 DEF Reply, MInv, Turn
  <2> QED BY <2>1, TurnCalm
<1>5. ~Underway(requests, task)
  BY <1>4 DEF Underway, Calm, At
<1>6. Landed(requests, task, desktop, loose, seen, cursor) /\ (task.op = "moveto" => task.to \in pointers)
  BY <1>5 DEF MInv, Landing
<1>7. c \in Connectors
  BY <1>6 DEF Targets, MInv, Confined, Plugs
<1>8. Sound(c, task, loose, seen) => cursor = [on |-> c, at |-> Least(task.x, task.extent)]
  BY <1>6 DEF Landed
<1> QED BY <1>7, <1>8 DEF Sound

------------------------------------------------------------------------------
(* The extent of a move is a mode that the worker had read: of the output   *)
(* that was named, or of any output it knew.                               *)

Extended(t, d, gone) ==
    /\ t.op = "moveto" /\ t.ok =>
          \E i \in DOMAIN t.known : Names(d, gone, t.to, i) /\ t.extent = t.known[i]
    /\ t.op = "move" =>
          \/ \E i \in DOMAIN t.known : t.known[i] # 0 /\ t.extent = t.known[i]
          \/ \A i \in DOMAIN t.known : t.known[i] = 0

LEMMA DesktopExtends ==
    ASSUME MInv, Extended(task, desktop, loose), DesktopChanges
    PROVE  Extended(task', desktop', loose')
<1>1. task' = task
  BY DEF DesktopChanges, worker
<1>2. PICK c \in Connectors : Plug(c) \/ Unplug(c) \/ Modeset(c)
  BY DEF DesktopChanges
<1>3. \A e \in Connectors \ loose : e \in DOMAIN desktop
  BY DEF MInv, Steady
<1>4. loose \subseteq loose' /\ Same(desktop, desktop', loose')
  <2>1. CASE Plug(c)
    <3>1. PICK o : desktop' = [d \in DOMAIN desktop \cup {c} |-> IF d = c THEN o ELSE desktop[d]]
      BY <2>1 DEF Plug
    <3> QED BY <1>3, <2>1, <3>1 DEF Plug, Same
  <2>2. CASE Unplug(c)
    <3>1. loose' = loose \cup {c} /\ desktop' = [d \in DOMAIN desktop \ {c} |-> desktop[d]]
      BY <2>2 DEF Unplug, Drop
    <3> QED BY <1>3, <3>1 DEF Same
  <2>3. CASE Modeset(c)
    <3>1. PICK mode, scale : desktop' = [desktop EXCEPT ![c].mode = mode, ![c].scale = scale]
      BY <2>3 DEF Modeset
    <3>2. loose' = loose /\ c \in DOMAIN desktop
      BY <2>3 DEF Modeset
    <3>3. DOMAIN desktop' = DOMAIN desktop
      BY <3>1
    <3>4. desktop \in [DOMAIN desktop -> [id : 1..Highest, mode : Modes, scale : Scales]]
      BY DEF MInv, Plugs
    <3>5. ASSUME NEW e \in DOMAIN desktop PROVE desktop'[e].id = desktop[e].id
      <4>1. desktop[e] \in [id : 1..Highest, mode : Modes, scale : Scales]
        BY <3>4
      <4> QED BY <3>1, <4>1
    <3> QED BY <1>3, <3>2, <3>3, <3>5 DEF Same
  <2> QED BY <1>2, <2>1, <2>2, <2>3
<1>5. \A name, i : Names(desktop, loose, name, i) => Names(desktop', loose', name, i)
  BY <1>4, NamesStay
<1> QED BY <1>1, <1>5 DEF Extended

LEMMA IssueExtends == ASSUME IInv, MInv, Issue PROVE Extended(task', desktop', loose')
<1>1. UNCHANGED <<desktop, loose>>
  BY DEF Issue, compositor
<1>2. DOMAIN ModesKnown = DOMAIN mirror /\ \A i \in DOMAIN mirror : ModesKnown[i] = mirror[i].mode
  BY DEF ModesKnown
<1> DEFINE known == ModesKnown
<1> HIDE DEF known
<1>3. ASSUME NEW u, task' = u, u.op \notin {"move", "moveto"} \/ (u.op = "moveto" /\ u.ok = FALSE)
      PROVE  Extended(task', desktop', loose')
  BY <1>3 DEF Extended
<1>4. CASE List
  <2>1. task'.op = "list"
    BY <1>4 DEF List, Roundtrip
  <2> QED BY <1>3, <2>1
<1>5. ASSUME NEW kind, Input(kind) PROVE Extended(task', desktop', loose')
  <2>1. task'.op = kind /\ kind \in {"relative", "button"}
    BY <1>5 DEF Input, Roundtrip
  <2> QED BY <1>3, <2>1
<1>6. ASSUME NEW x, Move(x) PROVE Extended(task', desktop', loose')
  <2>1. PICK extent \in Extents :
           task' = [op |-> "move", to |-> None, x |-> x, extent |-> extent, ok |-> TRUE, known |-> known]
    BY <1>6 DEF Move, Roundtrip, known
  <2>2. task'.op = "move" /\ task'.extent = extent /\ task'.known = known
    BY <2>1
  <2>3. \/ \E i \in DOMAIN mirror : mirror[i].mode # 0 /\ extent = mirror[i].mode
        \/ \A i \in DOMAIN mirror : mirror[i].mode = 0
    BY DEF Extents
  <2> QED BY <1>2, <2>2, <2>3 DEF Extended, known
<1>7. ASSUME NEW c \in Connectors, NEW x, MoveToOutput(c, x) PROVE Extended(task', desktop', loose')
  <2>1. PICK i \in DOMAIN mirror :
          /\ mirror[i].name = c
          /\ task' = [op |-> "moveto", to |-> c, x |-> x, extent |-> mirror[i].mode, ok |-> TRUE,
                      known |-> known]
    BY <1>7 DEF MoveToOutput, Roundtrip, known
  <2>2. /\ task'.op = "moveto" /\ task'.to = c /\ task'.extent = mirror[i].mode
        /\ task'.known = known
    BY <2>1
  <2>3. Names(desktop, loose, c, i)
    BY <2>1 DEF MInv, Known
  <2> QED BY <1>1, <1>2, <2>2, <2>3 DEF Extended, known
<1>8. ASSUME NEW c, NEW x, NoSuchOutput(c, x) PROVE Extended(task', desktop', loose')
  <2>1. task'.op = "moveto" /\ task'.ok = FALSE
    BY <1>8 DEF NoSuchOutput, Roundtrip
  <2> QED BY <1>3, <2>1
<1> QED BY <1>4, <1>5, <1>6, <1>7, <1>8 DEF Issue

LEMMA StepExtends ==
    ASSUME IInv, MInv, Extended(task, desktop, loose), [Next]_vars
    PROVE  Extended(task', desktop', loose')
<1>1. ASSUME UNCHANGED <<task, desktop, loose>> PROVE Extended(task', desktop', loose')
  BY <1>1
<1>2. CASE Handle \/ Read \/ UNCHANGED vars
  <2>1. UNCHANGED <<task, desktop, loose>>
    BY <1>2 DEF Handle, Read, vars, worker, compositor, bounds
  <2> QED BY <1>1, <2>1
<1>3. CASE Start \/ Reply
  <2>1. task'.op \in {"idle", "fixup", "create"}
    BY <1>3 DEF Start, Fixup, CreateObjects, Ready, Reply, Roundtrip
  <2> QED BY <2>1 DEF Extended
<1> QED BY <1>2, <1>3, DesktopExtends, IssueExtends DEF Next

\* The mode that the move was made in is the one the worker had read of its output.
LEMMA InItsMode ==
    ASSUME MInv, Extended(task, desktop, loose), task.op \in {"move", "moveto"}, task.ok,
           NEW c \in Targets(task, desktop), c \in Connectors, task.op \in Ops,
           StoodStill(c), task.op = "move" => OnlyKnown(c)
    PROVE  task.extent = ModeRead(c)
<1>1. c \notin loose /\ desktop \in seen /\ c \in DOMAIN desktop
  BY DEF StoodStill, MInv, Steady
<1>2. desktop[c].mode = ModeRead(c) /\ desktop[c].mode # 0
  <2>1. desktop[c].mode \in Modes
    BY <1>1 DEF MInv, Plugs
  <2> QED BY <1>1, <2>1, PointerAssumption DEF StoodStill
<1>3. CASE task.op = "moveto"
  <2>1. task.to = c
    BY <1>3 DEF Targets
  <2>2. PICK i \in DOMAIN task.known : Names(desktop, loose, c, i) /\ task.extent = task.known[i]
    BY <1>3, <2>1 DEF Extended
  <2> QED BY <1>1, <2>2 DEF Names, ModeRead
<1>4. CASE task.op = "move"
  <2>1. desktop[c].id \in DOMAIN task.known /\ task.known[desktop[c].id] = ModeRead(c)
    BY <1>2 DEF ModeRead
  <2>2. PICK i \in DOMAIN task.known : task.known[i] # 0 /\ task.extent = task.known[i]
    BY <1>2, <1>4, <2>1 DEF Extended
  <2> QED BY <1>4, <2>1, <2>2 DEF OnlyKnown
<1> QED BY <1>3, <1>4

LEMMA EndsAtPlace ==
    ASSUME IInv, MInv, Extended(task, desktop, loose), [Next]_vars,
           task.op \in {"move", "moveto"}, MoveEnds(task.op), NEW c \in Targets(task, desktop),
           StoodStill(c), task.op = "move" => OnlyOutput(c) /\ OnlyKnown(c)
    PROVE  AtPlace(c)
<1>1. task'.op = "idle" /\ task.ok /\ c \notin loose
  BY DEF MoveEnds, StoodStill
<1>2. /\ task.op \in Ops /\ (task.op = "moveto" => task.to \in pointers)
      /\ pointers \subseteq Connectors /\ DOMAIN desktop \subseteq Connectors
  BY <1>1 DEF MInv, Landing, Confined, Plugs
<1>3. c \in Connectors
  BY <1>2 DEF Targets
<1>4. task.extent = ModeRead(c)
  BY <1>1, <1>2, <1>3, InItsMode
<1>5. \A d \in seen : d[c].scale = 1 /\ d[c].mode = task.extent
  BY <1>4 DEF StoodStill
<1>6. task.op = "move" => \A d \in seen : ~(Cardinality(DOMAIN d) > 1)
  <2> SUFFICES ASSUME task.op = "move", NEW d \in seen PROVE ~(Cardinality(DOMAIN d) > 1)
    OBVIOUS
  <2>1. DOMAIN d = {c}
    BY DEF OnlyOutput
  <2>2. Cardinality({c}) = 1
    BY FS_Singleton
  <2>3. ~(1 > 1)
    OBVIOUS
  <2> QED BY ONLY <2>1, <2>2, <2>3
<1>7. cursor = [on |-> c, at |-> Least(task.x, task.extent)]
  BY <1>1, <1>5, <1>6, EndsThere
<1> QED BY <1>4, <1>7 DEF AtPlace

\* However many outputs, changes and moves there are, a move that succeeds has
\* put the cursor where it was asked to: on the output that was named, if it was
\* never pulled out and kept, without a scale, the mode the worker had read; on
\* the only output, if besides the worker knows no mode of another.
THEOREM MovesLand == Spec => MoveLands
<1>1. ASSUME IInv, MInv, Extended(task, desktop, loose), [Next]_vars
      PROVE  [ /\ MoveEnds("moveto") /\ StoodStill(task.to) => AtPlace(task.to)
               /\ MoveEnds("move") =>
                     \A c \in DOMAIN desktop :
                         StoodStill(c) /\ OnlyOutput(c) /\ OnlyKnown(c) => AtPlace(c) ]_vars
  <2>1. ASSUME MoveEnds("moveto"), StoodStill(task.to) PROVE AtPlace(task.to)
    <3>1. task.op = "moveto" /\ task.to \in Targets(task, desktop)
      BY <2>1 DEF MoveEnds, Targets
    <3> QED BY <1>1, <2>1, <3>1, EndsAtPlace
  <2>2. ASSUME MoveEnds("move"), NEW c \in DOMAIN desktop,
               StoodStill(c), OnlyOutput(c), OnlyKnown(c)
        PROVE  AtPlace(c)
    <3>1. task.op = "move" /\ c \in Targets(task, desktop)
      BY <2>2 DEF MoveEnds, Targets
    <3> QED BY <1>1, <2>2, <3>1, EndsAtPlace
  <2> QED BY <2>1, <2>2
<1> DEFINE Fits == Extended(task, desktop, loose)
<1>2. Init => Fits
  <2>1. ASSUME Init PROVE task.op = "registry"
    BY <2>1 DEF Init
  <2> QED BY <2>1 DEF Extended
<1>3. IInv /\ MInv /\ Fits /\ [Next]_vars => Fits'
  BY StepExtends
<1>4. IInv /\ MInv /\ Fits /\ [Next]_vars =>
        [ /\ MoveEnds("moveto") /\ StoodStill(task.to) => AtPlace(task.to)
          /\ MoveEnds("move") =>
                \A c \in DOMAIN desktop :
                    StoodStill(c) /\ OnlyOutput(c) /\ OnlyKnown(c) => AtPlace(c) ]_vars
  BY <1>1
<1> HIDE DEF Fits
<1>5. Spec => [](IInv /\ MInv /\ Fits)
  BY <1>2, <1>3, InitKeeps, StepKeeps, InitMoves, StepMoves, PTL DEF Spec
<1> QED BY <1>4, <1>5, PTL DEF Spec, MoveLands

------------------------------------------------------------------------------
(* What a list has.  The worker hears of an output in two streams: of its  *)
(* name, mode and scale, and of its logical size, once an object of each   *)
(* was asked for.                                                          *)

Kinds == {"info", "logical"}
Source(ev) == IF ev = "info" THEN "bind" ELSE "xdg"
View(ev, c, o) == IF ev = "info" THEN <<c, o.mode, o.scale>> ELSE Logical(o)
Says(e) == IF e.ev = "info" THEN <<e.name, e.mode, e.scale>> ELSE e.size
Has(ev, m) == IF ev = "info" THEN <<m.name, m.mode, m.scale>> ELSE m.logical

\* What there was to say of the output i of the connector c.
Views(ev, c, i, had) == {View(ev, c, d[c]) : d \in {e \in had : c \in DOMAIN e /\ e[c].id = i}}

\* The events and the requests about the output i.
Speaks(w, ev, i) == {k \in DOMAIN w : w[k].ev = ev /\ w[k].id = i}
Asks(r, rq, i) == {k \in DOMAIN r : r[k].rq = rq /\ r[k].id = i}
Tells(t, ev, i, good) == \A k \in Speaks(t, ev, i) : Says(t[k]) \in good

\* What comes before the end of the roundtrip.
Ahead(w, k) == \A j \in DOMAIN w : j < k => w[j].ev # "done"
Before(w, over) == {k \in DOMAIN w : ~over /\ Ahead(w, k)}
Sooner(r, over) == {k \in DOMAIN r : ~over /\ \E l \in At(r, "sync") : k < l}

\* Once the events T are read, and those that answer the requests U, all that is
\* known is good.
Settles(w, r, ev, i, has, good, T, U) ==
    /\ has \in good \/ Speaks(w, ev, i) \cap T # {} \/ Asks(r, Source(ev), i) \cap U # {}
    /\ \A k \in Speaks(w, ev, i) : Says(w[k]) \in good \/ \E l \in Speaks(w, ev, i) \cap T : l > k

\* The requests U about i are still under way, or were answered.
Passes(r, U, s, V, w, T, ev, i) ==
    Asks(r, Source(ev), i) \cap U # {}
        => Asks(s, Source(ev), i) \cap V # {} \/ Speaks(w, ev, i) \cap T # {}

\* Events join.
LEMMA SettlesLonger ==
    ASSUME NEW w, NEW t, NEW v, Joins(w, t, v), NEW r, NEW s, NEW ev, NEW i, NEW has,
           NEW good, NEW more, NEW T, NEW U, NEW T2, NEW U2,
           Settles(w, r, ev, i, has, good, T, U), good \subseteq more, Tells(t, ev, i, more),
           \A k \in DOMAIN w : k \in T => k \in T2, Passes(r, U, s, U2, v, T2, ev, i)
    PROVE  Settles(v, s, ev, i, has, more, T2, U2)
<1>1. \A k \in Speaks(w, ev, i) : k \in Speaks(v, ev, i) /\ v[k] = w[k] /\ k \in DOMAIN w
  BY AtJoins DEF Speaks
<1>2. \A k \in DOMAIN v : (k \in DOMAIN w /\ v[k] = w[k]) \/ \E l \in DOMAIN t : v[k] = t[l]
  BY EitherPart
<1>3. \A k \in Speaks(v, ev, i) :
         (k \in Speaks(w, ev, i) /\ v[k] = w[k]) \/ \E l \in Speaks(t, ev, i) : v[k] = t[l]
  BY <1>2 DEF Speaks
<1>4. has \in more \/ Speaks(v, ev, i) \cap T2 # {} \/ Asks(s, Source(ev), i) \cap U2 # {}
  BY <1>1 DEF Settles, Passes
<1>5. ASSUME NEW k \in Speaks(v, ev, i), Says(v[k]) \notin more
      PROVE  \E l \in Speaks(v, ev, i) \cap T2 : l > k
  <2>1. k \in Speaks(w, ev, i) /\ v[k] = w[k]
    BY <1>3, <1>5 DEF Tells
  <2>2. \E l \in Speaks(w, ev, i) \cap T : l > k
    BY <1>5, <2>1 DEF Settles
  <2> QED BY <1>1, <2>2
<1> QED BY <1>4, <1>5 DEF Settles

\* The last that joins says all.
LEMMA SettlesAnew ==
    ASSUME NEW w, NEW t, NEW v, Joins(w, t, v), NEW s, NEW ev, NEW i, NEW has, NEW more,
           NEW U2, Tells(t, ev, i, more), Speaks(t, ev, i) # {}
    PROVE  Settles(v, s, ev, i, has, more, DOMAIN v, U2)
<1>1. PICK l \in Speaks(t, ev, i) : TRUE
  OBVIOUS
<1> DEFINE n == Len(w) + l
<1>2. l \in DOMAIN t /\ l >= 1 /\ l \in Nat /\ Len(w) \in Nat
  BY AtJoins DEF Speaks
<1>3. n \in DOMAIN v /\ v[n] = t[l]
  BY <1>2, AtJoins
<1>4. \A k \in DOMAIN w : k \in Nat /\ k <= Len(w)
  BY AtJoins
<1>5. \A k \in DOMAIN w : n > k
  BY <1>2, <1>4
<1> HIDE DEF n
<1>6. n \in Speaks(v, ev, i) \cap DOMAIN v
  BY <1>1, <1>3 DEF Speaks
<1>7. ASSUME NEW k \in Speaks(v, ev, i), k \notin DOMAIN w PROVE Says(v[k]) \in more
  <2>1. \E j \in DOMAIN t : v[k] = t[j]
    BY <1>7, EitherPart DEF Speaks
  <2>2. \E j \in Speaks(t, ev, i) : v[k] = t[j]
    BY <2>1 DEF Speaks
  <2> QED BY <2>2 DEF Tells
<1> QED BY <1>5, <1>6, <1>7 DEF Settles

\* Nothing was said yet.
LEMMA SettlesLater ==
    ASSUME NEW w, NEW s, NEW ev, NEW i, NEW has, NEW good, NEW T, NEW U,
           Speaks(w, ev, i) = {}, Asks(s, Source(ev), i) \cap U # {}
    PROVE  Settles(w, s, ev, i, has, good, T, U)
BY DEF Settles

\* An event is read.
Reads(w, v, T, T2, ev, i) == \A k \in Speaks(w, ev, i) \cap T : k # 1 => k - 1 \in T2

LEMMA SettlesRead ==
    ASSUME NEW w, NEW v, Drops(w, v), NEW r, NEW s, NEW ev, NEW i, NEW has, NEW good,
           NEW T, NEW U, NEW T2, NEW U2, Settles(w, r, ev, i, has, good, T, U),
           Reads(w, v, T, T2, ev, i), Passes(r, U, s, U2, v, T2, ev, i)
    PROVE  /\ 1 \notin Speaks(w, ev, i) => Settles(v, s, ev, i, has, good, T2, U2)
           /\ 1 \in Speaks(w, ev, i) => Settles(v, s, ev, i, Says(Head(w)), good, T2, U2)
<1>1. \A k \in Speaks(v, ev, i) : k + 1 \in Speaks(w, ev, i) /\ v[k] = w[k + 1] /\ k >= 1 /\ k \in Nat
  BY AtDrops DEF Speaks
<1>2. \A k \in Speaks(w, ev, i) : k # 1 => k - 1 \in Speaks(v, ev, i) /\ k > 1 /\ k \in Nat
  BY AtDrops DEF Speaks
<1>3. \A k \in Speaks(w, ev, i) \cap T : k # 1 => k - 1 \in Speaks(v, ev, i) \cap T2 /\ k > 1 /\ k \in Nat
  BY <1>2 DEF Reads
<1>4. ASSUME NEW k \in Speaks(v, ev, i), Says(v[k]) \notin good
      PROVE  \E l \in Speaks(v, ev, i) \cap T2 : l > k
  <2>1. k + 1 \in Speaks(w, ev, i) /\ v[k] = w[k + 1] /\ k >= 1 /\ k \in Nat
    BY <1>1
  <2>2. PICK l \in Speaks(w, ev, i) \cap T : l > k + 1
    BY <1>4, <2>1 DEF Settles
  <2>3. l # 1
    BY <2>1, <2>2
  <2>4. l - 1 \in Speaks(v, ev, i) \cap T2 /\ l \in Nat
    BY <1>3, <2>3
  <2>5. l - 1 > k
    BY <2>1, <2>2, <2>4
  <2> QED BY <2>4, <2>5
<1>5. ASSUME 1 \notin Speaks(w, ev, i)
      PROVE  has \in good \/ Speaks(v, ev, i) \cap T2 # {} \/ Asks(s, Source(ev), i) \cap U2 # {}
  BY <1>3, <1>5 DEF Settles, Passes
<1>6. ASSUME 1 \in Speaks(w, ev, i)
      PROVE  Says(Head(w)) \in good \/ Speaks(v, ev, i) \cap T2 # {}
  <2>1. Head(w) = w[1]
    BY AtDrops
  <2>2. CASE \E l \in Speaks(w, ev, i) \cap T : l > 1
    <3>1. PICK l \in Speaks(w, ev, i) \cap T : l > 1
      BY <2>2
    <3>2. l # 1
      BY <3>1
    <3> QED BY <1>3, <3>2
  <2>3. CASE Says(w[1]) \in good
    BY <2>1, <2>3
  <2> QED BY <1>6, <2>2, <2>3 DEF Settles
<1> QED BY <1>4, <1>5, <1>6 DEF Settles

\* The end of the roundtrip stays where it is.
LEMMA BeforeLonger ==
    ASSUME NEW w, NEW t, NEW v, Joins(w, t, v), NEW over
    PROVE  \A k \in DOMAIN w : k \in Before(w, over) => k \in Before(v, over)
<1> SUFFICES ASSUME NEW k \in DOMAIN w, k \in Before(w, over) PROVE k \in Before(v, over)
  OBVIOUS
<1>1. k \in DOMAIN v /\ ~over
  BY AtJoins DEF Before
<1>2. ASSUME NEW j \in DOMAIN v, j < k PROVE v[j].ev # "done"
  <2>1. j \in DOMAIN w
    BY <1>2 DEF Joins
  <2>2. v[j] = w[j]
    BY <2>1, AtJoins
  <2> QED BY <1>2, <2>1, <2>2 DEF Before, Ahead
<1> QED BY <1>1, <1>2 DEF Before, Ahead

LEMMA BeforeRead ==
    ASSUME NEW w, NEW v, Drops(w, v), NEW over
    PROVE  /\ \A k \in Before(w, over) : k # 1 => k - 1 \in Before(v, over)
           /\ Head(w).ev = "done" => \A k \in Before(w, over) : k = 1
<1>1. ASSUME NEW k \in Before(w, over), k # 1 PROVE k - 1 \in Before(v, over)
  <2>1. k \in DOMAIN w /\ ~over /\ k \in Nat
    BY AtDrops DEF Before
  <2>2. k - 1 \in DOMAIN v
    BY <1>1, <2>1, AtDrops
  <2>3. ASSUME NEW j \in DOMAIN v, j < k - 1 PROVE v[j].ev # "done"
    <3>1. j + 1 \in DOMAIN w /\ v[j] = w[j + 1] /\ j \in Nat
      BY AtDrops
    <3>2. j + 1 < k
      BY <2>1, <2>3, <3>1
    <3> QED BY <3>1, <3>2 DEF Before, Ahead
  <2> QED BY <2>1, <2>2, <2>3 DEF Before, Ahead
<1>2. ASSUME Head(w).ev = "done", NEW k \in Before(w, over) PROVE k = 1
  <2>1. 1 \in DOMAIN w /\ w[1].ev = "done"
    BY <1>2, AtDrops
  <2>2. ~(1 < k)
    BY <2>1 DEF Before, Ahead
  <2>3. k \in DOMAIN w /\ k \in Nat /\ k >= 1
    BY DEF Before, Drops
  <2> QED BY <2>2, <2>3
<1> QED BY <1>1, <1>2

LEMMA BeforeAny == ASSUME NEW w, Dones(w) = {} PROVE Before(w, FALSE) = DOMAIN w
BY DEF Before, Ahead, Dones

LEMMA SoonerLonger ==
    ASSUME NEW r, NEW x, NEW s, Joins(r, x, s), NEW over
    PROVE  \A k \in DOMAIN r : k \in Sooner(r, over) => k \in Sooner(s, over)
<1> SUFFICES ASSUME NEW k \in DOMAIN r, k \in Sooner(r, over) PROVE k \in Sooner(s, over)
  OBVIOUS
<1>1. PICK l \in At(r, "sync") : k < l
  BY DEF Sooner
<1>2. l \in At(s, "sync") /\ k \in DOMAIN s
  BY AtJoins DEF At
<1> QED BY <1>1, <1>2 DEF Sooner

LEMMA SoonerHandled ==
    ASSUME NEW r, NEW s, Drops(r, s), NEW over
    PROVE  \A k \in Sooner(r, over) : k # 1 => k - 1 \in Sooner(s, over)
<1> SUFFICES ASSUME NEW k \in Sooner(r, over), k # 1 PROVE k - 1 \in Sooner(s, over)
  OBVIOUS
<1>1. k \in DOMAIN r /\ ~over
  BY DEF Sooner
<1>2. PICK l \in At(r, "sync") : k < l
  BY DEF Sooner
<1>3. k - 1 \in DOMAIN s /\ k \in Nat /\ k > 1
  BY <1>1, AtDrops
<1>4. l \in DOMAIN r /\ l \in Nat /\ r[l].rq = "sync"
  BY AtDrops DEF At
<1>5. l # 1
  BY <1>2, <1>3
<1>6. l - 1 \in DOMAIN s /\ s[l - 1] = r[l]
  BY <1>4, <1>5, AtDrops
<1>7. l - 1 \in At(s, "sync") /\ k - 1 < l - 1
  BY <1>2, <1>3, <1>4, <1>6 DEF At
<1> QED BY <1>1, <1>3, <1>7 DEF Sooner

LEMMA PassesLonger ==
    ASSUME NEW r, NEW x, NEW s, Joins(r, x, s), NEW U, NEW V,
           \A k \in DOMAIN r : k \in U => k \in V, NEW w, NEW T, NEW ev, NEW i
    PROVE  Passes(r, U, s, V, w, T, ev, i)
<1>1. \A k \in Asks(r, Source(ev), i) : k \in DOMAIN r /\ k \in Asks(s, Source(ev), i)
  BY AtJoins DEF Asks
<1> QED BY <1>1 DEF Passes

LEMMA PassesHandled ==
    ASSUME NEW r, NEW s, Drops(r, s), NEW U, NEW V, NEW w, NEW T, NEW ev, NEW i,
           \A k \in U \cap DOMAIN r : k # 1 => k - 1 \in V,
           1 \in U /\ 1 \in Asks(r, Source(ev), i) => Speaks(w, ev, i) \cap T # {}
    PROVE  Passes(r, U, s, V, w, T, ev, i)
<1>1. \A k \in Asks(r, Source(ev), i) : k \in DOMAIN r /\ (k # 1 => k - 1 \in Asks(s, Source(ev), i))
  BY AtDrops DEF Asks
<1> QED BY <1>1 DEF Passes

LEMMA PassesSame ==
    ASSUME NEW r, NEW U, NEW w, NEW T, NEW ev, NEW i PROVE Passes(r, U, r, U, w, T, ev, i)
BY DEF Passes

\* What is asked for is in time if the roundtrip is yet to end.
LEMMA SoonerFirst ==
    ASSUME NEW r, NEW s, Drops(r, s), NEW w, NEW over, Turn(r, w, over), 1 \in Sooner(r, over)
    PROVE  ~over /\ Dones(w) = {} /\ Head(r).rq # "sync"
<1>1. PICK l \in At(r, "sync") : 1 < l
  BY DEF Sooner
<1>2. ~over /\ Dones(w) = {} /\ \A k \in At(r, "sync") : k = l
  BY DEF Turn
<1>3. 1 \notin At(r, "sync")
  BY <1>1, <1>2
<1>4. 1 \in DOMAIN r /\ Head(r) = r[1]
  BY AtDrops
<1> QED BY <1>2, <1>3, <1>4 DEF At

------------------------------------------------------------------------------
(* The invariant.                                                          *)

Served(ev) == IF ev = "info" THEN bound ELSE {described[j] : j \in DOMAIN described}
Wanted(ev) == IF ev = "info" THEN DOMAIN mirror ELSE Attached
Listed == IF task.op = "list" THEN task.known ELSE {}

Bound == \A i : i \in DOMAIN mirror <=> i \in bound \/ Asks(requests, "bind", i) # {}
Heard(w, ev, served) == \A k \in DOMAIN w : w[k].ev = ev => w[k].id \in served

Current(w, r, ev, c, m, d) ==
    Settles(w, r, ev, d[c].id, Has(ev, m[d[c].id]), {View(ev, c, d[c])}, DOMAIN w, DOMAIN r)
InTime(w, r, over, ev, c, m, d, had) ==
    Settles(w, r, ev, d[c].id, Has(ev, m[d[c].id]), Views(ev, c, d[c].id, had),
            Before(w, over), Sooner(r, over))
Streams(ev) ==
    \A c \in DOMAIN desktop : desktop[c].id \in Wanted(ev) =>
        /\ Current(wire, requests, ev, c, mirror, desktop)
        /\ desktop[c].id \in Listed
              => InTime(wire, requests, done, ev, c, mirror, desktop, seen)

\* An output that was never pulled out is known since the first roundtrip, and
\* to every list.
Announcing(w, i) == \E k \in Outputs(w) : w[k].id = i /\ Ahead(w, k)
Registered ==
    \A c \in Connectors \ loose :
        desktop[c].id \in DOMAIN mirror
        \/ (task.op = "registry" /\ ~done /\ Announcing(wire, desktop[c].id))
Asking ==
    task.op = "list" =>
        /\ "list" \in Ops /\ task.known \subseteq DOMAIN mirror
        /\ \A c \in Connectors \ loose : desktop[c].id \in task.known

Partial(m, on) ==
    \A i \in DOMAIN m : m[i].name \in Connectors \cup {None} /\ (i \notin on => m[i].logical = None)
Sizes(had) == \A d \in had : \A c \in DOMAIN d : d[c].mode \in Modes /\ d[c].scale \in Scales

FInv ==
    /\ Bound /\ Heard(wire, "info", Served("info")) /\ Heard(wire, "logical", Served("logical"))
    /\ Streams("info") /\ Streams("logical")
    /\ Registered /\ Asking /\ Partial(mirror, Attached) /\ Sizes(seen)

\* Every output that is wanted is served, or asked for.
LEMMA Linked ==
    ASSUME IInv, Bound, NEW ev \in Kinds, NEW i
    PROVE  i \in Wanted(ev) <=> i \in Served(ev) \/ Asks(requests, Source(ev), i) # {}
<1>1. CASE ev = "info"
  BY <1>1 DEF Bound, Wanted, Served, Source
<1>2. CASE ev = "logical"
  <2>1. ev # "info"
    BY <1>2
  <2>2. i \in Attached <=> (\E j \in DOMAIN described : described[j] = i)
                           \/ \E k \in Xdg(requests) : requests[k].id = i
    BY DEF IInv, Once
  <2>3. (\E k \in Xdg(requests) : requests[k].id = i) <=> Asks(requests, "xdg", i) # {}
    BY DEF Xdg, Asks
  <2>4. i \in Served(ev) <=> \E j \in DOMAIN described : described[j] = i
    BY <2>1 DEF Served
  <2> QED BY <2>1, <2>2, <2>3, <2>4 DEF Wanted, Source
<1> QED BY <1>1, <1>2 DEF Kinds

LEMMA Silent ==
    ASSUME NEW w, NEW ev, NEW served, Heard(w, ev, served), NEW i, i \notin served
    PROVE  Speaks(w, ev, i) = {}
BY DEF Heard, Speaks

LEMMA HeardJoins ==
    ASSUME NEW w, NEW t, NEW v, Joins(w, t, v), NEW ev, NEW served, NEW more, served \subseteq more,
           Heard(w, ev, served), Heard(t, ev, more)
    PROVE  Heard(v, ev, more)
<1>1. \A k \in DOMAIN v : (k \in DOMAIN w /\ v[k] = w[k]) \/ \E l \in DOMAIN t : v[k] = t[l]
  BY EitherPart
<1> QED BY <1>1 DEF Heard

LEMMA AnnouncingLonger ==
    ASSUME NEW w, NEW t, NEW v, Joins(w, t, v), NEW i, Announcing(w, i) PROVE Announcing(v, i)
<1>1. PICK k \in Outputs(w) : w[k].id = i /\ Ahead(w, k)
  BY DEF Announcing
<1>2. k \in DOMAIN w /\ k \in Before(w, FALSE)
  BY <1>1 DEF Outputs, Before
<1>3. k \in Before(v, FALSE)
  BY <1>2, BeforeLonger
<1>4. k \in Outputs(v) /\ v[k] = w[k]
  BY <1>1, <1>2, AtJoins DEF Outputs
<1> QED BY <1>1, <1>3, <1>4 DEF Announcing, Before

------------------------------------------------------------------------------
(* The desktop changes.                                                    *)

\* The events t tell of what has changed of the connector c.
Renews(t, ev, c, d, e, wanted, served) ==
    e[c].id \in wanted =>
        /\ c \in DOMAIN d /\ d[c].id = e[c].id
        /\ Tells(t, ev, e[c].id, {View(ev, c, e[c])})
        /\ e[c] = d[c] \/ (e[c].id \in served => Speaks(t, ev, e[c].id) # {})

LEMMA ViewsGrow ==
    ASSUME NEW ev, NEW c, NEW i, NEW had, NEW more, had \subseteq more
    PROVE  Views(ev, c, i, had) \subseteq Views(ev, c, i, more)
BY DEF Views

LEMMA ViewsNow ==
    ASSUME NEW ev, NEW c, NEW had, NEW d \in had, c \in DOMAIN d
    PROVE  View(ev, c, d[c]) \in Views(ev, c, d[c].id, had)
BY DEF Views

LEMMA TellsMore ==
    ASSUME NEW t, NEW ev, NEW i, NEW good, NEW more, Tells(t, ev, i, good), good \subseteq more
    PROVE  Tells(t, ev, i, more)
BY DEF Tells

LEMMA StreamChanges ==
    ASSUME IInv, FInv, NEW ev \in Kinds, NEW t, Joins(wire, t, wire'), Streams(ev),
           Heard(wire', ev, Served(ev)), Heard(wire, ev, Served(ev)),
           UNCHANGED <<requests, mirror, task, done, bound, described>>,
           seen' = IF task.op \in Ops THEN seen \cup {desktop'} ELSE seen,
           \A c \in DOMAIN desktop' : Renews(t, ev, c, desktop, desktop', Wanted(ev), Served(ev))
    PROVE  Streams(ev)'
<1>1. Wanted(ev)' = Wanted(ev) /\ Listed' = Listed
  BY DEF Wanted, Listed, Attached
<1> SUFFICES ASSUME NEW c \in DOMAIN desktop', desktop'[c].id \in Wanted(ev)
             PROVE  /\ Current(wire', requests, ev, c, mirror, desktop')
                    /\ desktop'[c].id \in Listed
                          => InTime(wire', requests, done, ev, c, mirror, desktop', seen')
  BY <1>1 DEF Streams
<1> DEFINE i == desktop'[c].id
           view == View(ev, c, desktop'[c])
           has == Has(ev, mirror[i])
<1>2. /\ c \in DOMAIN desktop /\ desktop[c].id = i /\ Tells(t, ev, i, {view})
      /\ desktop'[c] = desktop[c] \/ (i \in Served(ev) => Speaks(t, ev, i) # {})
  BY DEF Renews
<1>3. /\ Settles(wire, requests, ev, i, has, {View(ev, c, desktop[c])}, DOMAIN wire, DOMAIN requests)
      /\ i \in Listed => Settles(wire, requests, ev, i, has, Views(ev, c, i, seen),
                                 Before(wire, done), Sooner(requests, done))
  BY <1>2 DEF Streams, Current, InTime
<1>4. i \in Served(ev) \/ Asks(requests, Source(ev), i) # {}
  BY <1>2, Linked DEF FInv
<1>5. desktop'[c].id = i /\ View(ev, c, desktop'[c]) = view
  OBVIOUS
<1> HIDE DEF i, has, view
<1>6. Settles(wire', requests, ev, i, has, {view}, DOMAIN wire', DOMAIN requests)
  <2>1. CASE desktop'[c] = desktop[c]
    <3>1. Settles(wire, requests, ev, i, has, {view}, DOMAIN wire, DOMAIN requests)
      BY <1>3, <1>5, <2>1
    <3>2. \A k \in DOMAIN wire : k \in DOMAIN wire => k \in DOMAIN wire'
      BY AtJoins
    <3>3. Passes(requests, DOMAIN requests, requests, DOMAIN requests, wire', DOMAIN wire', ev, i)
      BY PassesSame
    <3>4. {view} \subseteq {view}
      OBVIOUS
    <3> QED BY <1>2, <3>1, <3>2, <3>3, <3>4, SettlesLonger
  <2>2. CASE Speaks(t, ev, i) # {}
    BY <1>2, <2>2, SettlesAnew
  <2>3. CASE i \notin Served(ev)
    <3>1. Speaks(wire', ev, i) = {}
      BY <2>3, Silent
    <3>2. Asks(requests, Source(ev), i) \cap DOMAIN requests # {}
      BY <1>4, <2>3 DEF Asks
    <3> QED BY <3>1, <3>2, SettlesLater
  <2> QED BY <1>2, <2>1, <2>2, <2>3
<1>7. ASSUME i \in Listed
      PROVE  Settles(wire', requests, ev, i, has, Views(ev, c, i, seen'),
                     Before(wire', done), Sooner(requests, done))
  <2>1. seen \subseteq seen' /\ desktop' \in seen'
    BY <1>7 DEF Listed, FInv, Asking
  <2>2. Views(ev, c, i, seen) \subseteq Views(ev, c, i, seen')
    BY <2>1, ViewsGrow
  <2>3. view \in Views(ev, c, i, seen')
    BY <1>5, <2>1, ViewsNow
  <2>4. Tells(t, ev, i, Views(ev, c, i, seen'))
    <3>1. {view} \subseteq Views(ev, c, i, seen')
      BY <2>3
    <3> QED BY <1>2, <3>1, TellsMore
  <2>5. \A k \in DOMAIN wire : k \in Before(wire, done) => k \in Before(wire', done)
    BY BeforeLonger
  <2>6. Passes(requests, Sooner(requests, done), requests, Sooner(requests, done), wire',
               Before(wire', done), ev, i)
    BY PassesSame
  <2>7. Settles(wire, requests, ev, i, has, Views(ev, c, i, seen), Before(wire, done), Sooner(requests, done))
    BY <1>3, <1>7
  <2> QED BY <2>2, <2>4, <2>5, <2>6, <2>7, SettlesLonger
<1> QED BY <1>5, <1>6, <1>7 DEF Current, InTime, has

LEMMA DesktopTells ==
    ASSUME IInv, MInv, FInv, DesktopChanges, UNCHANGED <<bound, described>>,
           loose \subseteq loose', Same(desktop, desktop', loose'), Plugs(desktop', Highest'),
           NEW t, Joins(wire, t, wire'),
           Heard(t, "info", Served("info")), Heard(t, "logical", Served("logical")),
           \A ev \in Kinds : \A c \in DOMAIN desktop' :
               Renews(t, ev, c, desktop, desktop', Wanted(ev), Served(ev))
    PROVE  FInv'
<1>1. /\ UNCHANGED <<requests, mirror, manager, task, done>>
      /\ seen' = IF task.op \in Ops THEN seen \cup {desktop'} ELSE seen
  BY DEF DesktopChanges, worker
<1>2. Attached' = Attached /\ Served("info")' = Served("info") /\ Served("logical")' = Served("logical")
  BY <1>1 DEF Attached, Served
<1>3. Heard(wire', "info", Served("info")) /\ Heard(wire', "logical", Served("logical"))
  BY HeardJoins DEF FInv
<1>4. Bound'
  BY <1>1 DEF FInv, Bound
<1>5. Streams("info")' /\ Streams("logical")'
  <2>1. ASSUME NEW ev \in Kinds PROVE Streams(ev) /\ Heard(wire, ev, Served(ev)) /\ Heard(wire', ev, Served(ev))
    BY <1>3 DEF Kinds, FInv
  <2>2. \A ev \in Kinds : Streams(ev)'
    BY <1>1, <2>1, StreamChanges
  <2> QED BY <2>2 DEF Kinds
<1>6. \A c \in Connectors \ loose' : c \in Connectors \ loose /\ desktop'[c].id = desktop[c].id
  BY DEF Same
<1>7. Registered'
  <2> SUFFICES ASSUME NEW c \in Connectors \ loose'
               PROVE  desktop'[c].id \in DOMAIN mirror
                      \/ (task.op = "registry" /\ ~done /\ Announcing(wire', desktop'[c].id))
    BY <1>1 DEF Registered
  <2>1. desktop[c].id \in DOMAIN mirror
        \/ (task.op = "registry" /\ ~done /\ Announcing(wire, desktop[c].id))
    BY <1>6 DEF FInv, Registered
  <2>2. Announcing(wire, desktop[c].id) => Announcing(wire', desktop[c].id)
    BY AnnouncingLonger
  <2> QED BY <1>6, <2>1, <2>2
<1>8. Asking'
  BY <1>1, <1>6 DEF FInv, Asking
<1>9. Partial(mirror', Attached') /\ Sizes(seen')
  <2>1. \A c \in DOMAIN desktop' : desktop'[c].mode \in Modes /\ desktop'[c].scale \in Scales
    BY DEF Plugs
  <2>2. \A d \in seen' : d \in seen \/ d = desktop'
    BY <1>1
  <2>3. Sizes(seen')
    BY <2>1, <2>2 DEF FInv, Sizes
  <2> QED BY <1>1, <1>2, <2>3 DEF FInv
<1> QED BY <1>2, <1>3, <1>4, <1>5, <1>7, <1>8, <1>9 DEF FInv

LEMMA PlugLists ==
    ASSUME IInv, MInv, FInv, MInv', DesktopChanges, NEW c \in Connectors, Plug(c) PROVE FInv'
<1>1. UNCHANGED <<bound, described, loose, mirror>> /\ c \notin DOMAIN desktop /\ changes' = changes + 1
  BY DEF DesktopChanges, Plug, Change, worker
<1>2. PICK mode \in Modes, scale \in Scales :
         desktop' = [d \in DOMAIN desktop \cup {c} |->
             IF d = c THEN [id |-> Cardinality(Connectors) + changes', mode |-> mode, scale |-> scale]
             ELSE desktop[d]]
  BY DEF Plug
<1>3. Highest \in Nat /\ Highest' = Highest + 1 /\ desktop'[c].id = Highest'
  <2>1. Highest \in Nat /\ Highest' = Highest + 1 /\ Cardinality(Connectors) + changes' = Highest'
    BY <1>1, Count DEF IInv, Highest
  <2> QED BY <1>2, <2>1
<1>4. DOMAIN desktop' = DOMAIN desktop \cup {c} /\ \A d \in DOMAIN desktop : desktop'[d] = desktop[d]
  BY <1>1, <1>2
<1>5. Same(desktop, desktop', loose') /\ Plugs(desktop', Highest')
  BY <1>1, <1>4 DEF Same, MInv, Steady
<1> DEFINE e == Global(desktop'[c].id)
           t == <<e>>
<1>6. wire' = Append(wire, e) /\ e.ev = "output"
  BY DEF Plug, Global
<1> HIDE DEF e
<1>7. wire' = wire \o t /\ IsSeq(t) /\ DOMAIN t = {1} /\ t[1] = e
  BY <1>6, AppendIsJoin, OneIsSeq DEF IInv
<1> HIDE DEF t
<1>8. Joins(wire, t, wire \o t)
  BY <1>7, TwoParts DEF IInv
<1>9. Joins(wire, t, wire')
  BY <1>7, <1>8
<1>10. Heard(t, "info", Served("info")) /\ Heard(t, "logical", Served("logical"))
  BY <1>6, <1>7 DEF Heard
<1>11. ASSUME NEW ev \in Kinds, NEW d \in DOMAIN desktop'
       PROVE  Renews(t, ev, d, desktop, desktop', Wanted(ev), Served(ev))
  <2>1. \A i : Speaks(t, ev, i) = {}
    BY <1>6, <1>7 DEF Speaks, Kinds
  <2>2. Wanted(ev) \subseteq 1..Highest
    BY DEF Wanted, Attached, IInv, Fresh
  <2>3. desktop'[c].id \notin Wanted(ev)
    BY <1>3, <2>2
  <2>4. CASE d = c
    BY <2>3, <2>4 DEF Renews
  <2>5. CASE d \in DOMAIN desktop
    BY <1>4, <2>1, <2>5 DEF Renews, Tells
  <2> QED BY <1>4, <2>4, <2>5
<1> QED BY <1>1, <1>5, <1>9, <1>10, <1>11, DesktopTells

\* Nothing is said.
LEMMA NoneJoins ==
    ASSUME NEW w, IsSeq(w) PROVE Joins(w, <<>>, w) /\ DOMAIN <<>> = {}
<1> DEFINE t == <<>>
<1>1. IsSeq(t) /\ w \o t = w
  <2>1. PICK S : w \in Seq(S)
    BY DEF IsSeq
  <2> QED BY <2>1, NoneIsSeq
<1>2. DOMAIN t = {}
  OBVIOUS
<1> HIDE DEF t
<1>3. Joins(w, t, w \o t)
  BY <1>1, TwoParts
<1> QED BY <1>1, <1>2, <1>3 DEF t

LEMMA UnplugLists ==
    ASSUME IInv, MInv, FInv, MInv', DesktopChanges, NEW c \in Connectors, Unplug(c) PROVE FInv'
<1>1. UNCHANGED <<bound, described, wire>> /\ loose' = loose \cup {c}
      /\ desktop' = [d \in DOMAIN desktop \ {c} |-> desktop[d]]
  BY DEF DesktopChanges, Unplug, Drop
<1>2. DOMAIN desktop' = DOMAIN desktop \ {c} /\ \A d \in DOMAIN desktop' : desktop'[d] = desktop[d]
  BY <1>1
<1>3. Same(desktop, desktop', loose') /\ Plugs(desktop', Highest') /\ loose \subseteq loose'
  BY <1>1, <1>2 DEF Same, MInv, Steady
<1> DEFINE t == <<>>
<1>4. Joins(wire, t, wire') /\ DOMAIN t = {}
  BY <1>1, NoneJoins DEF IInv
<1> HIDE DEF t
<1>5. Heard(t, "info", Served("info")) /\ Heard(t, "logical", Served("logical"))
  BY <1>4 DEF Heard
<1>6. ASSUME NEW ev \in Kinds, NEW d \in DOMAIN desktop'
      PROVE  Renews(t, ev, d, desktop, desktop', Wanted(ev), Served(ev))
  BY <1>2, <1>4 DEF Renews, Tells, Speaks
<1> QED BY <1>1, <1>3, <1>4, <1>5, <1>6, DesktopTells

\* Two parts one after the other are one part.
LEMMA ThreeParts ==
    ASSUME NEW w, IsSeq(w), NEW a, IsSeq(a), NEW b, IsSeq(b)
    PROVE  Joins(w, a \o b, (w \o a) \o b) /\ Joins(a, b, a \o b)
<1>1. PICK S : w \in Seq(S)
  BY DEF IsSeq
<1>2. PICK A0 : a \in Seq(A0)
  BY DEF IsSeq
<1>3. PICK B0 : b \in Seq(B0)
  BY DEF IsSeq
<1> DEFINE R == S \cup A0 \cup B0
<1>4. w \in Seq(R) /\ a \in Seq(R) /\ b \in Seq(R)
  BY <1>1, <1>2, <1>3
<1> HIDE DEF R
<1>5. (w \o a) \o b = w \o (a \o b)
  BY <1>4
<1>6. Joins(a, b, a \o b)
  BY TwoParts
<1>7. IsSeq(a \o b)
  BY <1>6 DEF Joins
<1>8. Joins(w, a \o b, w \o (a \o b))
  BY <1>7, TwoParts
<1> QED BY <1>5, <1>6, <1>8

\* What is said of the connector c.
LEMMA SaysInfo ==
    ASSUME NEW c, NEW o, NEW e, e.ev = "info", e.name = c, e.mode = o.mode, e.scale = o.scale
    PROVE  Says(e) = View("info", c, o)
BY DEF Says, View

LEMMA SaysLogical ==
    ASSUME NEW c, NEW o, NEW e, e.ev = "logical", e.size = Logical(o)
    PROVE  Says(e) = View("logical", c, o)
<1>1. "info" # "logical"
  OBVIOUS
<1> QED BY <1>1 DEF Says, View

LEMMA ModesetLists ==
    ASSUME IInv, MInv, FInv, MInv', DesktopChanges, NEW c \in Connectors, Modeset(c) PROVE FInv'
<1>1. UNCHANGED <<bound, described, loose>> /\ c \in DOMAIN desktop
  BY DEF DesktopChanges, Modeset
<1>2. PICK mode \in Modes, scale \in Scales :
         desktop' = [desktop EXCEPT ![c].mode = mode, ![c].scale = scale]
  BY DEF Modeset
<1>3. DOMAIN desktop' = DOMAIN desktop
  BY <1>2
<1>4. ASSUME NEW d \in DOMAIN desktop
      PROVE  desktop'[d].id = desktop[d].id /\ (d # c => desktop'[d] = desktop[d])
  <2>1. desktop[d] \in [id : 1..Highest, mode : Modes, scale : Scales]
    BY DEF MInv, Plugs
  <2>2. desktop'[d] = IF d = c THEN [desktop[d] EXCEPT !.mode = mode, !.scale = scale] ELSE desktop[d]
    BY <1>1, <1>2
  <2> QED BY <2>1, <2>2
<1>5. Same(desktop, desktop', loose') /\ Plugs(desktop', Highest')
  BY <1>1, <1>3, <1>4 DEF Same, MInv, Steady
<1> DEFINE n == desktop[c].id
           i == Info(c)'
           l == LogicalSize(c)'
           a == IF n \in bound THEN <<i>> ELSE <<>>
           b == IF Contains(described, n) THEN <<l>> ELSE <<>>
           t == a \o b
<1>6. wire' = (wire \o a) \o b
  BY DEF Modeset
<1>7. /\ i.ev = "info" /\ i.name = c /\ i.id = n /\ i.mode = desktop'[c].mode
      /\ i.scale = desktop'[c].scale /\ l.ev = "logical" /\ l.id = n /\ l.size = Logical(desktop'[c])
  <2>1. desktop'[c].id = n
    BY <1>1, <1>4
  <2> QED BY <2>1 DEF Info, LogicalSize, Logical
<1> HIDE DEF i, l
<1>8. Says(i) = View("info", c, desktop'[c]) /\ Says(l) = View("logical", c, desktop'[c])
  BY <1>7, SaysInfo, SaysLogical
<1>9. IsSeq(a) /\ (\A k \in DOMAIN a : a[k] = i /\ n \in bound) /\ (n \in bound => 1 \in DOMAIN a)
  <2>1. IsSeq(<<i>>) /\ <<i>>[1] = i /\ DOMAIN <<i>> = {1}
    BY OneIsSeq
  <2>2. IsSeq(<<>>) /\ DOMAIN <<>> = {}
    BY NoneIsSeq
  <2>3. CASE n \in bound
    BY <2>1, <2>3
  <2>4. CASE n \notin bound
    BY <2>2, <2>4
  <2> QED BY <2>3, <2>4
<1>10. Contains(described, n) <=> n \in Served("logical")
  <2>1. PICK S : described \in Seq(S)
    BY DEF IInv, IsSeq
  <2>2. DOMAIN described = 1..Len(described) /\ "logical" # "info"
    BY <2>1
  <2> QED BY <2>2 DEF Contains, Served
<1>11. IsSeq(b) /\ (\A k \in DOMAIN b : b[k] = l /\ n \in Served("logical"))
       /\ (n \in Served("logical") => 1 \in DOMAIN b)
  <2>1. IsSeq(<<l>>) /\ <<l>>[1] = l /\ DOMAIN <<l>> = {1}
    BY OneIsSeq
  <2>2. IsSeq(<<>>) /\ DOMAIN <<>> = {}
    BY NoneIsSeq
  <2>3. CASE Contains(described, n)
    BY <1>10, <2>1, <2>3
  <2>4. CASE ~Contains(described, n)
    BY <1>10, <2>2, <2>4
  <2> QED BY <2>3, <2>4
<1> HIDE DEF a, b
<1>12. Joins(a, b, t) /\ Joins(wire, t, wire')
  BY <1>6, <1>9, <1>11, ThreeParts DEF IInv
<1> HIDE DEF t
<1>13. ASSUME NEW k \in DOMAIN t
       PROVE  (t[k] = i /\ n \in bound) \/ (t[k] = l /\ n \in Served("logical"))
  <2>1. (k \in DOMAIN a /\ t[k] = a[k]) \/ \E j \in DOMAIN b : t[k] = b[j]
    BY <1>12, EitherPart
  <2> QED BY <1>9, <1>11, <2>1
<1>14. Heard(t, "info", Served("info")) /\ Heard(t, "logical", Served("logical"))
  <2>1. Served("info") = bound
    BY DEF Served
  <2>2. Heard(t, "info", Served("info"))
    BY <1>7, <1>13, <2>1 DEF Heard
  <2>3. Heard(t, "logical", Served("logical"))
    BY <1>7, <1>13 DEF Heard
  <2> QED BY <2>2, <2>3
<1>15. n \in bound => Speaks(t, "info", n) # {}
  <2> SUFFICES ASSUME n \in bound PROVE Speaks(t, "info", n) # {}
    OBVIOUS
  <2>1. 1 \in DOMAIN a /\ a[1] = i
    BY <1>9
  <2>2. 1 \in DOMAIN t /\ t[1] = i
    BY <1>12, <2>1, AtJoins
  <2> QED BY <1>7, <2>2 DEF Speaks
<1>16. n \in Served("logical") => Speaks(t, "logical", n) # {}
  <2> SUFFICES ASSUME n \in Served("logical") PROVE Speaks(t, "logical", n) # {}
    OBVIOUS
  <2>1. 1 \in DOMAIN b /\ b[1] = l
    BY <1>11
  <2>2. Len(a) + 1 \in DOMAIN t /\ t[Len(a) + 1] = l
    BY <1>12, <2>1, AtJoins
  <2> QED BY <1>7, <2>2 DEF Speaks
<1> HIDE DEF n
<1>17. desktop[c].id = n
  BY DEF n
<1>18. ASSUME NEW ev \in Kinds, NEW d \in DOMAIN desktop'
       PROVE  Renews(t, ev, d, desktop, desktop', Wanted(ev), Served(ev))
  <2>1. CASE d = c
    <3>1. Tells(t, ev, n, {View(ev, c, desktop'[c])})
      <4>1. ASSUME NEW k \in Speaks(t, ev, n) PROVE Says(t[k]) = View(ev, c, desktop'[c])
        <5>1. k \in DOMAIN t /\ t[k].ev = ev
          BY DEF Speaks
        <5>2. t[k] = i \/ t[k] = l
          BY <1>13, <5>1
        <5> QED BY <1>7, <1>8, <5>1, <5>2
      <4> QED BY <4>1 DEF Tells
    <3>2. n \in Served(ev) => Speaks(t, ev, n) # {}
      <4>1. Served("info") = bound
        BY DEF Served
      <4> QED BY <1>15, <1>16, <4>1 DEF Kinds
    <3> QED BY <1>1, <1>4, <1>17, <2>1, <3>1, <3>2 DEF Renews
  <2>2. CASE d # c
    <3>1. desktop[d].id # n /\ desktop'[d] = desktop[d]
      BY <1>1, <1>3, <1>4, <1>17, <2>2 DEF MInv, Plugs
    <3>2. Speaks(t, ev, desktop'[d].id) = {}
      BY <1>7, <1>13, <3>1 DEF Speaks
    <3> QED BY <1>3, <3>1, <3>2 DEF Renews, Tells
  <2> QED BY <2>1, <2>2
<1> QED BY <1>1, <1>5, <1>12, <1>14, <1>18, DesktopTells

LEMMA DesktopLists == ASSUME IInv, MInv, FInv, MInv', DesktopChanges PROVE FInv'
BY PlugLists, UnplugLists, ModesetLists DEF DesktopChanges

------------------------------------------------------------------------------
(* The compositor handles a request.                                       *)

\* The events t answer the request r for the output of the connector c.
Answers(t, ev, c, d, r) ==
    /\ Tells(t, ev, d[c].id, {View(ev, c, d[c])})
    /\ r.rq = Source(ev) /\ r.id = d[c].id => Speaks(t, ev, d[c].id) # {}

LEMMA StreamAnswers ==
    ASSUME IInv, MInv, FInv, NEW ev \in Kinds, Streams(ev), NEW t, Joins(wire, t, wire'),
           Drops(requests, requests'), UNCHANGED <<desktop, mirror, task, done, seen>>,
           Head(requests).rq # "sync" => Dones(wire') = Dones(wire),
           \A c \in DOMAIN desktop : Answers(t, ev, c, desktop, Head(requests))
    PROVE  Streams(ev)'
<1>1. Wanted(ev)' = Wanted(ev) /\ Listed' = Listed
  BY DEF Wanted, Listed, Attached
<1> SUFFICES ASSUME NEW c \in DOMAIN desktop, desktop[c].id \in Wanted(ev)
             PROVE  /\ Current(wire', requests', ev, c, mirror, desktop)
                    /\ desktop[c].id \in Listed
                          => InTime(wire', requests', done, ev, c, mirror, desktop, seen)
  BY <1>1 DEF Streams
<1> DEFINE i == desktop[c].id
           view == View(ev, c, desktop[c])
           has == Has(ev, mirror[i])
           good == Views(ev, c, i, seen)
           r == Head(requests)
<1>2. /\ Settles(wire, requests, ev, i, has, {view}, DOMAIN wire, DOMAIN requests)
      /\ i \in Listed => Settles(wire, requests, ev, i, has, good,
                                 Before(wire, done), Sooner(requests, done))
  BY DEF Streams, Current, InTime
<1>3. Tells(t, ev, i, {view}) /\ (r.rq = Source(ev) /\ r.id = i => Speaks(t, ev, i) # {})
  BY DEF Answers
<1>4. 1 \in Asks(requests, Source(ev), i) => Speaks(wire', ev, i) \cap DOMAIN wire' # {}
  <2> SUFFICES ASSUME 1 \in Asks(requests, Source(ev), i) PROVE Speaks(wire', ev, i) \cap DOMAIN wire' # {}
    OBVIOUS
  <2>1. r = requests[1]
    BY AtDrops
  <2>2. r.rq = Source(ev) /\ r.id = i
    BY <2>1 DEF Asks
  <2>3. PICK l \in Speaks(t, ev, i) : TRUE
    BY <1>3, <2>2
  <2>4. Len(wire) + l \in DOMAIN wire' /\ wire'[Len(wire) + l] = t[l]
    BY AtJoins DEF Speaks
  <2> QED BY <2>4 DEF Speaks
<1>5. Current(wire', requests', ev, c, mirror, desktop)
  <2>1. \A k \in DOMAIN requests \cap DOMAIN requests : k # 1 => k - 1 \in DOMAIN requests'
    BY AtDrops
  <2>2. Passes(requests, DOMAIN requests, requests', DOMAIN requests', wire', DOMAIN wire', ev, i)
    BY <1>4, <2>1, PassesHandled
  <2>3. \A k \in DOMAIN wire : k \in DOMAIN wire => k \in DOMAIN wire'
    BY AtJoins
  <2>4. {view} \subseteq {view}
    OBVIOUS
  <2> HIDE DEF has, view, i
  <2>5. Settles(wire', requests', ev, i, has, {view}, DOMAIN wire', DOMAIN requests')
    BY <1>2, <1>3, <2>2, <2>3, <2>4, SettlesLonger
  <2> QED BY <2>5 DEF Current, has, view, i
<1>6. ASSUME i \in Listed PROVE InTime(wire', requests', done, ev, c, mirror, desktop, seen)
  <2>1. desktop \in seen
    BY <1>6 DEF Listed, FInv, Asking, MInv, Steady
  <2>2. view \in good
    BY <2>1, ViewsNow
  <2>3. Settles(wire, requests, ev, i, has, good, Before(wire, done), Sooner(requests, done))
    BY <1>2, <1>6
  <2>4. \A k \in DOMAIN wire : k \in Before(wire, done) => k \in Before(wire', done)
    BY BeforeLonger
  <2>5. \A k \in Sooner(requests, done) \cap DOMAIN requests : k # 1 => k - 1 \in Sooner(requests', done)
    BY SoonerHandled
  <2>6. 1 \in Sooner(requests, done) /\ 1 \in Asks(requests, Source(ev), i)
           => Speaks(wire', ev, i) \cap Before(wire', done) # {}
    <3> SUFFICES ASSUME 1 \in Sooner(requests, done), 1 \in Asks(requests, Source(ev), i)
                 PROVE  Speaks(wire', ev, i) \cap Before(wire', done) # {}
      OBVIOUS
    <3>1. ~done /\ Dones(wire) = {} /\ r.rq # "sync"
      BY SoonerFirst DEF MInv
    <3>2. Before(wire', done) = DOMAIN wire'
      BY <3>1, BeforeAny DEF MInv
    <3> QED BY <1>4, <3>2
  <2>7. Passes(requests, Sooner(requests, done), requests', Sooner(requests', done), wire',
               Before(wire', done), ev, i)
    BY <2>5, <2>6, PassesHandled
  <2>8. Tells(t, ev, i, good)
    <3>1. {view} \subseteq good
      BY <2>2
    <3> QED BY <1>3, <3>1, TellsMore
  <2>9. good \subseteq good
    OBVIOUS
  <2> HIDE DEF has, view, i, good
  <2>10. Settles(wire', requests', ev, i, has, good, Before(wire', done), Sooner(requests', done))
    BY <2>3, <2>4, <2>7, <2>8, <2>9, SettlesLonger
  <2> QED BY <2>10 DEF InTime, has, i, good
<1> QED BY <1>5, <1>6

LEMMA AnswerLists ==
    ASSUME IInv, MInv, FInv, NEW t, Joins(wire, t, wire'), Drops(requests, requests'),
           UNCHANGED <<desktop, mirror, task, done, seen, loose>>,
           Head(requests).rq # "sync" => Dones(wire') = Dones(wire),
           \A ev \in Kinds : \A c \in DOMAIN desktop : Answers(t, ev, c, desktop, Head(requests)),
           bound' = IF Head(requests).rq = "bind" THEN bound \cup {Head(requests).id} ELSE bound,
           Served("logical") \subseteq Served("logical")',
           Heard(t, "info", bound'), Heard(t, "logical", Served("logical")')
    PROVE  FInv'
<1> DEFINE r == Head(requests)
<1>1. Attached' = Attached /\ Served("info") = bound /\ Served("info")' = bound' /\ bound \subseteq bound'
  BY DEF Attached, Served
<1>2. Bound'
  <2> SUFFICES ASSUME NEW i
               PROVE  i \in DOMAIN mirror <=> i \in bound' \/ Asks(requests', "bind", i) # {}
    BY DEF Bound
  <2>1. i \in DOMAIN mirror <=> i \in bound \/ Asks(requests, "bind", i) # {}
    BY DEF FInv, Bound
  <2>2. \A k \in Asks(requests', "bind", i) : k + 1 \in Asks(requests, "bind", i)
    BY AtDrops DEF Asks
  <2>3. \A k \in Asks(requests, "bind", i) : k # 1 => k - 1 \in Asks(requests', "bind", i)
    BY AtDrops DEF Asks
  <2>4. 1 \in Asks(requests, "bind", i) <=> r.rq = "bind" /\ r.id = i
    BY AtDrops DEF Asks
  <2>5. i \in bound' <=> i \in bound \/ 1 \in Asks(requests, "bind", i)
    BY <2>4
  <2> QED BY <2>1, <2>2, <2>3, <2>5
<1>3. Heard(wire', "info", Served("info")') /\ Heard(wire', "logical", Served("logical")')
  <2>1. Heard(wire, "info", bound) /\ Heard(wire, "logical", Served("logical"))
    BY <1>1 DEF FInv
  <2>2. Heard(wire', "info", bound')
    BY <1>1, <2>1, HeardJoins
  <2>3. Heard(wire', "logical", Served("logical")')
    BY <2>1, HeardJoins
  <2> QED BY <1>1, <2>2, <2>3
<1>4. Streams("info")' /\ Streams("logical")'
  <2>1. \A ev \in Kinds : Streams(ev)
    BY DEF Kinds, FInv
  <2>2. \A ev \in Kinds : Streams(ev)'
    BY <2>1, StreamAnswers
  <2> QED BY <2>2 DEF Kinds
<1>5. Registered'
  <2> SUFFICES ASSUME NEW c \in Connectors \ loose
               PROVE  desktop[c].id \in DOMAIN mirror
                      \/ (task.op = "registry" /\ ~done /\ Announcing(wire', desktop[c].id))
    BY DEF Registered
  <2>1. Announcing(wire, desktop[c].id) => Announcing(wire', desktop[c].id)
    BY AnnouncingLonger
  <2> QED BY <2>1 DEF FInv, Registered
<1>6. Asking' /\ Partial(mirror', Attached') /\ Sizes(seen')
  BY <1>1 DEF FInv, Asking
<1> QED BY <1>2, <1>3, <1>4, <1>5, <1>6 DEF FInv

\* An answer about the output of that id, if it is plugged in.
LEMMA OneAnswer ==
    ASSUME IInv, MInv, NEW r, NEW ev \in Kinds, r.rq = Source(ev), NEW e, e.ev = ev, e.id = r.id,
           Plugged(r.id) => Says(e) = View(ev, Of(r.id), desktop[Of(r.id)]),
           wire' = IF Plugged(r.id) THEN Append(wire, e) ELSE wire
    PROVE  \E t : /\ Joins(wire, t, wire') /\ Dones(wire') = Dones(wire)
                  /\ \A x \in Kinds : \A c \in DOMAIN desktop : Answers(t, x, c, desktop, r)
                  /\ \A k \in DOMAIN t : t[k].ev = ev /\ t[k].id = r.id
<1>0. IsSeq(wire)
  BY DEF IInv
<1>1. \A c \in DOMAIN desktop : desktop[c].id = r.id => Plugged(r.id)
  BY DEF Plugged
<1>2. \A x \in Kinds : x # ev => Source(x) # Source(ev)
  BY DEF Kinds, Source
<1>3. CASE Plugged(r.id)
  <2>1. Of(r.id) \in DOMAIN desktop /\ desktop[Of(r.id)].id = r.id
    BY <1>3, WhoIsPlugged
  <2>2. \A c \in DOMAIN desktop : desktop[c].id = r.id => c = Of(r.id)
    BY <2>1 DEF MInv, Plugs
  <2> DEFINE t == <<e>>
  <2>3. wire' = wire \o t /\ IsSeq(t) /\ DOMAIN t = {1} /\ t[1] = e
    BY <1>0, <1>3, AppendIsJoin, OneIsSeq
  <2> HIDE DEF t
  <2>4. Joins(wire, t, wire \o t)
    BY <1>0, <2>3, TwoParts
  <2>5. Joins(wire, t, wire')
    BY <2>3, <2>4
  <2>6. Dones(wire') = Dones(wire)
    <3>1. ASSUME NEW k \in DOMAIN wire'
          PROVE  (k \in DOMAIN wire /\ wire'[k] = wire[k]) \/ \E l \in DOMAIN t : wire'[k] = t[l]
      BY ONLY <2>5, EitherPart
    <3>2. ev # "done"
      BY DEF Kinds
    <3>3. \A k \in Dones(wire') : k \in Dones(wire)
      BY <2>3, <3>1, <3>2 DEF Dones
    <3>4. \A k \in Dones(wire) : k \in Dones(wire')
      BY <2>5, AtJoins DEF Dones
    <3> QED BY <3>3, <3>4
  <2>7. ASSUME NEW x \in Kinds, NEW c \in DOMAIN desktop PROVE Answers(t, x, c, desktop, r)
    <3>1. Tells(t, x, desktop[c].id, {View(x, c, desktop[c])})
      <4>1. ASSUME NEW k \in Speaks(t, x, desktop[c].id) PROVE Says(t[k]) = View(x, c, desktop[c])
        <5>1. t[k] = e /\ x = ev /\ desktop[c].id = r.id
          BY <2>3 DEF Speaks
        <5> QED BY <1>3, <2>2, <5>1
      <4> QED BY <4>1 DEF Tells
    <3>2. ASSUME r.rq = Source(x), r.id = desktop[c].id PROVE Speaks(t, x, desktop[c].id) # {}
      <4>1. x = ev
        BY <1>2, <3>2
      <4> QED BY <2>3, <3>2, <4>1 DEF Speaks
    <3> QED BY <3>1, <3>2 DEF Answers
  <2> QED BY <2>3, <2>5, <2>6, <2>7
<1>4. CASE ~Plugged(r.id)
  <2> DEFINE t == <<>>
  <2>1. Joins(wire, t, wire') /\ DOMAIN t = {}
    BY <1>0, <1>4, NoneJoins
  <2> HIDE DEF t
  <2>2. ASSUME NEW x \in Kinds, NEW c \in DOMAIN desktop PROVE Answers(t, x, c, desktop, r)
    BY <1>1, <1>4, <2>1 DEF Answers, Tells, Speaks
  <2> QED BY <1>4, <2>1, <2>2
<1> QED BY <1>3, <1>4

LEMMA HandleLists == ASSUME IInv, MInv, FInv, Handle PROVE FInv'
<1> DEFINE r == Head(requests)
<1>1. /\ requests # <<>> /\ requests' = Tail(requests)
      /\ UNCHANGED <<desktop, mirror, task, done, seen, loose>>
  BY DEF Handle, worker, bounds
<1>2. Drops(requests, requests')
  BY <1>1, AllButFirst DEF IInv
<1>3. "info" \in Kinds /\ "logical" \in Kinds /\ Source("info") = "bind" /\ Source("logical") = "xdg"
      /\ Served("info") = bound
  BY DEF Kinds, Source, Served
<1>4. described' = described => Served("logical")' = Served("logical")
  BY DEF Served
<1>5. CASE r.rq = "bind"
  <2>1. /\ bound' = bound \cup {r.id} /\ described' = described
        /\ wire' = IF Plugged(r.id) THEN Append(wire, Info(Of(r.id))) ELSE wire
    BY <1>5 DEF Handle
  <2> DEFINE e == Info(Of(r.id))
  <2>2. /\ e.ev = "info" /\ e.name = Of(r.id) /\ e.id = desktop[Of(r.id)].id
        /\ e.mode = desktop[Of(r.id)].mode /\ e.scale = desktop[Of(r.id)].scale
    BY DEF Info
  <2>3. wire' = IF Plugged(r.id) THEN Append(wire, e) ELSE wire
    BY <2>1
  <2> HIDE DEF e
  <2>4. CASE Plugged(r.id)
    <3>1. e.id = r.id
      BY <2>2, <2>4, WhoIsPlugged
    <3>2. Says(e) = View("info", Of(r.id), desktop[Of(r.id)])
      BY <2>2, SaysInfo
    <3>3. PICK t : /\ Joins(wire, t, wire') /\ Dones(wire') = Dones(wire)
                   /\ \A x \in Kinds : \A c \in DOMAIN desktop : Answers(t, x, c, desktop, r)
                   /\ \A k \in DOMAIN t : t[k].ev = "info" /\ t[k].id = r.id
      BY <1>3, <1>5, <2>2, <2>3, <3>1, <3>2, OneAnswer
    <3>4. Heard(t, "info", bound') /\ Heard(t, "logical", Served("logical")')
      BY <2>1, <3>3 DEF Heard
    <3> QED BY <1>1, <1>2, <1>4, <1>5, <2>1, <3>3, <3>4, AnswerLists
  <2>5. CASE ~Plugged(r.id)
    <3> DEFINE f == [ev |-> "info", id |-> r.id]
    <3>1. f.ev = "info" /\ f.id = r.id
      OBVIOUS
    <3> HIDE DEF f
    <3>2. wire' = IF Plugged(r.id) THEN Append(wire, f) ELSE wire
      BY <2>3, <2>5
    <3>3. r.rq = Source("info") /\ "info" \in Kinds
      BY <1>3, <1>5
    <3>4. Plugged(r.id) => Says(f) = View("info", Of(r.id), desktop[Of(r.id)])
      BY <2>5
    <3>5. PICK t : /\ Joins(wire, t, wire') /\ Dones(wire') = Dones(wire)
                   /\ \A x \in Kinds : \A c \in DOMAIN desktop : Answers(t, x, c, desktop, r)
                   /\ \A k \in DOMAIN t : t[k].ev = "info" /\ t[k].id = r.id
      BY ONLY IInv, MInv, <3>1, <3>2, <3>3, <3>4, OneAnswer
    <3>6. Heard(t, "info", bound') /\ Heard(t, "logical", Served("logical")')
      BY <2>1, <3>5 DEF Heard
    <3> QED BY <1>1, <1>2, <1>4, <1>5, <2>1, <3>5, <3>6, AnswerLists
  <2> QED BY <2>4, <2>5
<1>6. CASE r.rq = "xdg"
  <2>1. /\ described' = Append(described, r.id) /\ bound' = bound
        /\ wire' = IF Plugged(r.id) THEN Append(wire, LogicalSize(Of(r.id))) ELSE wire
    BY <1>6 DEF Handle
  <2>2. Served("logical") \subseteq Served("logical")' /\ r.id \in Served("logical")'
    <3> DEFINE one == <<r.id>>
    <3>1. described' = described \o one /\ IsSeq(one) /\ DOMAIN one = {1} /\ one[1] = r.id
      BY <2>1, AppendIsJoin, OneIsSeq DEF IInv
    <3> HIDE DEF one
    <3>2. Joins(described, one, described \o one)
      BY <3>1, TwoParts DEF IInv
    <3>3. Joins(described, one, described')
      BY <3>1, <3>2
    <3>4. Served("logical") = {described[j] : j \in DOMAIN described}
          /\ Served("logical")' = {described'[j] : j \in DOMAIN described'}
      BY DEF Served
    <3>5. \A j \in DOMAIN described : j \in DOMAIN described' /\ described'[j] = described[j]
      BY <3>3, AtJoins
    <3>6. Len(described) + 1 \in DOMAIN described' /\ described'[Len(described) + 1] = r.id
      BY <3>1, <3>3, AtJoins
    <3> QED BY <3>4, <3>5, <3>6
  <2> DEFINE e == LogicalSize(Of(r.id))
  <2>3. /\ e.ev = "logical" /\ e.id = desktop[Of(r.id)].id /\ e.size = Logical(desktop[Of(r.id)])
    BY DEF LogicalSize
  <2>4. wire' = IF Plugged(r.id) THEN Append(wire, e) ELSE wire
    BY <2>1
  <2> HIDE DEF e
  <2>5. CASE Plugged(r.id)
    <3>1. e.id = r.id
      BY <2>3, <2>5, WhoIsPlugged
    <3>2. Says(e) = View("logical", Of(r.id), desktop[Of(r.id)])
      BY <2>3, SaysLogical
    <3>3. r.rq = Source("logical") /\ "logical" \in Kinds
      BY <1>3, <1>6
    <3>4. Plugged(r.id) => Says(e) = View("logical", Of(r.id), desktop[Of(r.id)])
      BY <3>2
    <3>5. e.ev = "logical"
      BY <2>3
    <3>6. PICK t : /\ Joins(wire, t, wire') /\ Dones(wire') = Dones(wire)
                   /\ \A x \in Kinds : \A c \in DOMAIN desktop : Answers(t, x, c, desktop, r)
                   /\ \A k \in DOMAIN t : t[k].ev = "logical" /\ t[k].id = r.id
      BY ONLY IInv, MInv, <2>4, <3>1, <3>3, <3>4, <3>5, OneAnswer
    <3>7. Heard(t, "info", bound') /\ Heard(t, "logical", Served("logical")')
      BY <2>2, <3>6 DEF Heard
    <3> QED BY <1>1, <1>2, <1>6, <2>1, <2>2, <3>6, <3>7, AnswerLists
  <2>6. CASE ~Plugged(r.id)
    <3> DEFINE f == [ev |-> "logical", id |-> r.id]
    <3>1. f.ev = "logical" /\ f.id = r.id
      OBVIOUS
    <3> HIDE DEF f
    <3>2. wire' = IF Plugged(r.id) THEN Append(wire, f) ELSE wire
      BY <2>4, <2>6
    <3>3. r.rq = Source("logical") /\ "logical" \in Kinds
      BY <1>3, <1>6
    <3>4. Plugged(r.id) => Says(f) = View("logical", Of(r.id), desktop[Of(r.id)])
      BY <2>6
    <3>5. PICK t : /\ Joins(wire, t, wire') /\ Dones(wire') = Dones(wire)
                   /\ \A x \in Kinds : \A c \in DOMAIN desktop : Answers(t, x, c, desktop, r)
                   /\ \A k \in DOMAIN t : t[k].ev = "logical" /\ t[k].id = r.id
      BY ONLY IInv, MInv, <3>1, <3>2, <3>3, <3>4, OneAnswer
    <3>6. Heard(t, "info", bound') /\ Heard(t, "logical", Served("logical")')
      BY <2>2, <3>5 DEF Heard
    <3> QED BY <1>1, <1>2, <1>6, <2>1, <2>2, <3>5, <3>6, AnswerLists
  <2> QED BY <2>5, <2>6
<1>7. ASSUME r.rq \notin {"bind", "xdg"}, bound' = bound, described' = described,
             NEW t, Joins(wire, t, wire'), \A k \in DOMAIN t : t[k].ev \notin Kinds,
             r.rq # "sync" => wire' = wire
      PROVE  FInv'
  <2>1. \A ev \in Kinds : \A i : Speaks(t, ev, i) = {}
    BY <1>7 DEF Speaks
  <2>2. \A ev \in Kinds : \A c \in DOMAIN desktop : Answers(t, ev, c, desktop, r)
    BY <1>7, <2>1 DEF Answers, Tells, Source
  <2>3. Heard(t, "info", bound') /\ Heard(t, "logical", Served("logical")')
    BY <1>3, <1>7 DEF Heard
  <2> QED BY <1>1, <1>2, <1>4, <1>7, <2>2, <2>3, AnswerLists
<1>8. CASE r.rq = "sync"
  <2>1. wire' = Append(wire, [ev |-> "done"]) /\ bound' = bound /\ described' = described
    BY <1>8 DEF Handle
  <2> DEFINE e == [ev |-> "done"]
             t == <<e>>
  <2>2. e.ev = "done" /\ wire' = Append(wire, e)
    BY <2>1
  <2> HIDE DEF e
  <2>3. wire' = wire \o t /\ IsSeq(t) /\ DOMAIN t = {1} /\ t[1] = e
    BY <2>2, AppendIsJoin, OneIsSeq DEF IInv
  <2> HIDE DEF t
  <2>4. Joins(wire, t, wire \o t)
    BY <2>3, TwoParts DEF IInv
  <2>5. \A k \in DOMAIN t : t[k].ev \notin Kinds
    BY <2>2, <2>3 DEF Kinds
  <2> QED BY <1>7, <1>8, <2>1, <2>3, <2>4, <2>5
<1>9. CASE r.rq \in {"pointer", "motion", "relative", "button"}
  <2>1. wire' = wire /\ bound' = bound /\ described' = described
    BY <1>9 DEF Handle
  <2> DEFINE t == <<>>
  <2>2. Joins(wire, t, wire') /\ DOMAIN t = {}
    BY <2>1, NoneJoins DEF IInv
  <2> HIDE DEF t
  <2> QED BY <1>7, <1>9, <2>1, <2>2
<1> QED BY <1>5, <1>6, <1>8, <1>9 DEF Handle

------------------------------------------------------------------------------
(* The worker reads an event.                                              *)

\* What is kept of the output i is what the event says, if it is about it.
Learns(ev, i, w, m, n) ==
    Has(ev, n[i]) = IF 1 \in Speaks(w, ev, i) THEN Says(Head(w)) ELSE Has(ev, m[i])

\* The output i was wanted before, or is new and asked for.
Starts(ev, i, w, m, n, v, s, wanted) ==
    \/ i \in wanted /\ Learns(ev, i, w, m, n)
    \/ i \notin DOMAIN m /\ Speaks(v, ev, i) = {} /\ Asks(s, Source(ev), i) # {}

LEMMA StreamRead ==
    ASSUME IInv, MInv, FInv, NEW ev \in Kinds, Streams(ev), Drops(wire, wire'),
           UNCHANGED <<desktop, task, seen>>, NEW x, Joins(requests, x, requests'),
           \/ Head(wire).ev # "done" /\ done' = done
           \/ Head(wire).ev = "done" /\ done' = TRUE,
           \A c \in DOMAIN desktop : desktop[c].id \in Wanted(ev)' =>
               Starts(ev, desktop[c].id, wire, mirror, mirror', wire', requests', Wanted(ev))
    PROVE  Streams(ev)'
<1>1. Listed' = Listed
  BY DEF Listed
<1> SUFFICES ASSUME NEW c \in DOMAIN desktop, desktop[c].id \in Wanted(ev)'
             PROVE  /\ Current(wire', requests', ev, c, mirror', desktop)
                    /\ desktop[c].id \in Listed
                          => InTime(wire', requests', done', ev, c, mirror', desktop, seen)
  BY <1>1 DEF Streams
<1> DEFINE i == desktop[c].id
           view == View(ev, c, desktop[c])
           has == Has(ev, mirror[i])
           new == Has(ev, mirror'[i])
           good == Views(ev, c, i, seen)
<1>2. CASE i \notin DOMAIN mirror /\ Speaks(wire', ev, i) = {} /\ Asks(requests', Source(ev), i) # {}
  <2>1. i \notin Listed
    BY <1>2 DEF FInv, Asking, Listed
  <2>2. Asks(requests', Source(ev), i) \cap DOMAIN requests' # {}
    BY <1>2 DEF Asks
  <2>3. Current(wire', requests', ev, c, mirror', desktop)
    BY <1>2, <2>2, SettlesLater DEF Current
  <2> QED BY <2>1, <2>3
<1>3. CASE i \in Wanted(ev) /\ Learns(ev, i, wire, mirror, mirror')
  <2>1. /\ Settles(wire, requests, ev, i, has, {view}, DOMAIN wire, DOMAIN requests)
        /\ i \in Listed => Settles(wire, requests, ev, i, has, good,
                                   Before(wire, done), Sooner(requests, done))
    BY <1>3 DEF Streams, Current, InTime
  <2>2. new = IF 1 \in Speaks(wire, ev, i) THEN Says(Head(wire)) ELSE has
    BY <1>3 DEF Learns
  <2> HIDE DEF has, new, view, i, good
  <2>3. ASSUME NEW g, NEW T, NEW U, NEW T2, NEW U2, Settles(wire, requests, ev, i, has, g, T, U),
               Reads(wire, wire', T, T2, ev, i), Passes(requests, U, requests', U2, wire', T2, ev, i)
        PROVE  Settles(wire', requests', ev, i, new, g, T2, U2)
    <3>1. /\ 1 \notin Speaks(wire, ev, i) => Settles(wire', requests', ev, i, has, g, T2, U2)
          /\ 1 \in Speaks(wire, ev, i) => Settles(wire', requests', ev, i, Says(Head(wire)), g, T2, U2)
      BY <2>3, SettlesRead
    <3> QED BY <2>2, <3>1
  <2>4. Current(wire', requests', ev, c, mirror', desktop)
    <3>1. Reads(wire, wire', DOMAIN wire, DOMAIN wire', ev, i)
      BY AtDrops DEF Reads
    <3>2. \A k \in DOMAIN requests : k \in DOMAIN requests => k \in DOMAIN requests'
      BY AtJoins
    <3>3. Passes(requests, DOMAIN requests, requests', DOMAIN requests', wire', DOMAIN wire', ev, i)
      BY <3>2, PassesLonger
    <3>4. Settles(wire', requests', ev, i, new, {view}, DOMAIN wire', DOMAIN requests')
      BY <2>1, <2>3, <3>1, <3>3
    <3> QED BY <3>4 DEF Current, new, view, i
  <2>5. ASSUME i \in Listed PROVE InTime(wire', requests', done', ev, c, mirror', desktop, seen)
    <3>1. Settles(wire, requests, ev, i, has, good, Before(wire, done), Sooner(requests, done))
      BY <2>1, <2>5
    <3>2. CASE done' = done
      <4>1. Reads(wire, wire', Before(wire, done), Before(wire', done'), ev, i)
        BY <3>2, BeforeRead DEF Reads
      <4>2. \A k \in DOMAIN requests : k \in Sooner(requests, done) => k \in Sooner(requests', done')
        BY <3>2, SoonerLonger
      <4>3. Passes(requests, Sooner(requests, done), requests', Sooner(requests', done'), wire',
                   Before(wire', done'), ev, i)
        BY <4>2, PassesLonger
      <4> QED BY <2>3, <3>1, <4>1, <4>3 DEF InTime, new, i, good
    <3>3. CASE Head(wire).ev = "done" /\ done' = TRUE
      <4>1. \A k \in Before(wire, done) : k = 1
        BY <3>3, BeforeRead
      <4>2. Reads(wire, wire', Before(wire, done), Before(wire', done'), ev, i)
        BY <4>1 DEF Reads
      <4>3. Sooner(requests, done) = {}
        <5>1. 1 \in DOMAIN wire /\ Head(wire) = wire[1]
          BY AtDrops
        <5>2. 1 \in Dones(wire)
          BY <3>3, <5>1 DEF Dones
        <5>3. At(requests, "sync") = {}
          BY <5>2 DEF MInv, Turn
        <5> QED BY <5>3 DEF Sooner
      <4>4. Passes(requests, Sooner(requests, done), requests', Sooner(requests', done'), wire',
                   Before(wire', done'), ev, i)
        BY <4>3 DEF Passes
      <4> QED BY <2>3, <3>1, <4>2, <4>4 DEF InTime, new, i, good
    <3> QED BY <3>2, <3>3
  <2> QED BY <2>4, <2>5 DEF i
<1> QED BY <1>2, <1>3 DEF Starts

LEMMA AnnouncingRead ==
    ASSUME NEW w, NEW v, Drops(w, v), NEW i, Announcing(w, i)
    PROVE  \/ Head(w).ev = "output" /\ Head(w).id = i
           \/ Head(w).ev # "done" /\ Announcing(v, i)
<1>1. PICK k \in Outputs(w) : w[k].id = i /\ Ahead(w, k)
  BY DEF Announcing
<1>2. k \in DOMAIN w /\ k \in Before(w, FALSE) /\ w[k].ev = "output"
  BY <1>1 DEF Outputs, Before
<1>3. CASE k = 1
  BY <1>1, <1>2, <1>3, AtDrops
<1>4. CASE k # 1
  <2>1. k - 1 \in Before(v, FALSE)
    BY <1>2, <1>4, BeforeRead
  <2>2. k - 1 \in DOMAIN v /\ v[k - 1] = w[k]
    BY <1>2, <1>4, AtDrops
  <2>3. Announcing(v, i)
    BY <1>1, <1>2, <2>1, <2>2 DEF Announcing, Outputs, Before
  <2>4. Head(w).ev # "done"
    BY <1>2, <1>4, BeforeRead
  <2> QED BY <2>3, <2>4
<1> QED BY <1>3, <1>4

LEMMA AfterRead ==
    ASSUME IInv, MInv, FInv, Drops(wire, wire'), UNCHANGED <<desktop, task, seen, loose, bound, described>>,
           NEW x, Joins(requests, x, requests'), DOMAIN mirror \subseteq DOMAIN mirror',
           Head(wire).ev = "output" => Head(wire).id \in DOMAIN mirror',
           \/ Head(wire).ev # "done" /\ done' = done
           \/ Head(wire).ev = "done" /\ done' = TRUE,
           Bound', Partial(mirror', Attached'),
           \A ev \in Kinds : \A c \in DOMAIN desktop : desktop[c].id \in Wanted(ev)' =>
               Starts(ev, desktop[c].id, wire, mirror, mirror', wire', requests', Wanted(ev))
    PROVE  FInv'
<1>1. Heard(wire', "info", Served("info")') /\ Heard(wire', "logical", Served("logical")')
  <2>1. Served("info")' = Served("info") /\ Served("logical")' = Served("logical")
    BY DEF Served
  <2>2. \A k \in DOMAIN wire' : k + 1 \in DOMAIN wire /\ wire'[k] = wire[k + 1]
    BY AtDrops
  <2> QED BY <2>1, <2>2 DEF Heard, FInv
<1>2. Streams("info")' /\ Streams("logical")'
  <2>1. \A ev \in Kinds : Streams(ev)
    BY DEF Kinds, FInv
  <2>2. \A ev \in Kinds : Streams(ev)'
    BY <2>1, StreamRead
  <2> QED BY <2>2 DEF Kinds
<1>3. Registered'
  <2> SUFFICES ASSUME NEW c \in Connectors \ loose
               PROVE  desktop[c].id \in DOMAIN mirror'
                      \/ (task.op = "registry" /\ ~done' /\ Announcing(wire', desktop[c].id))
    BY DEF Registered
  <2>1. CASE desktop[c].id \in DOMAIN mirror
    BY <2>1
  <2>2. CASE task.op = "registry" /\ ~done /\ Announcing(wire, desktop[c].id)
    <3>1. \/ Head(wire).ev = "output" /\ Head(wire).id = desktop[c].id
          \/ Head(wire).ev # "done" /\ Announcing(wire', desktop[c].id)
      BY <2>2, AnnouncingRead
    <3> QED BY <2>2, <3>1
  <2> QED BY <2>1, <2>2 DEF FInv, Registered
<1>4. Asking' /\ Sizes(seen')
  BY DEF FInv, Asking
<1> QED BY <1>1, <1>2, <1>3, <1>4 DEF FInv

\* One request, and perhaps another.
OneOrTwo(x, a, b, both) ==
    /\ x = <<a>> \o (IF both THEN <<b>> ELSE <<>>) /\ IsSeq(x)
    /\ \A k \in DOMAIN x : x[k] = a \/ (x[k] = b /\ both)
    /\ \E k \in DOMAIN x : x[k] = a
    /\ both => \E k \in DOMAIN x : x[k] = b

LEMMA OnePerhapsTwo == ASSUME NEW a, NEW b, NEW both PROVE \E x : OneOrTwo(x, a, b, both)
<1> DEFINE p == <<a>>
           q == IF both THEN <<b>> ELSE <<>>
           x == p \o q
<1>1. IsSeq(p) /\ DOMAIN p = {1} /\ p[1] = a
  BY OneIsSeq
<1>2. IsSeq(q) /\ (\A k \in DOMAIN q : q[k] = b /\ both) /\ (both => 1 \in DOMAIN q)
  <2>1. IsSeq(<<b>>) /\ <<b>>[1] = b /\ DOMAIN <<b>> = {1}
    BY OneIsSeq
  <2>2. IsSeq(<<>>) /\ DOMAIN <<>> = {}
    BY NoneIsSeq
  <2>3. CASE both
    BY <2>1, <2>3
  <2>4. CASE ~both
    BY <2>2, <2>4
  <2> QED BY <2>3, <2>4
<1>3. x = <<a>> \o (IF both THEN <<b>> ELSE <<>>)
  OBVIOUS
<1> HIDE DEF p, q
<1>4. Joins(p, q, x)
  BY <1>1, <1>2, TwoParts
<1> HIDE DEF x
<1>5. ASSUME NEW k \in DOMAIN x PROVE x[k] = a \/ (x[k] = b /\ both)
  <2>1. (k \in DOMAIN p /\ x[k] = p[k]) \/ \E l \in DOMAIN q : x[k] = q[l]
    BY <1>4, EitherPart
  <2> QED BY <1>1, <1>2, <2>1
<1>6. 1 \in DOMAIN x /\ x[1] = a
  BY <1>1, <1>4, AtJoins
<1>7. ASSUME both PROVE \E k \in DOMAIN x : x[k] = b
  <2>1. 1 \in DOMAIN q /\ q[1] = b
    BY <1>2, <1>7
  <2>2. Len(p) + 1 \in DOMAIN x /\ x[Len(p) + 1] = b
    BY <1>4, <2>1, AtJoins
  <2> QED BY <2>2
<1>8. IsSeq(x)
  BY <1>4 DEF Joins
<1>9. OneOrTwo(x, a, b, both)
  BY <1>3, <1>5, <1>6, <1>7, <1>8 DEF OneOrTwo
<1> QED BY <1>9

\* An output is announced, bound, and given an object if the manager is there.
LEMMA OutputLists ==
    ASSUME IInv, MInv, FInv, Read, Drops(wire, wire'), Head(wire).ev = "output",
           OnOutput(Head(wire))
    PROVE  FInv'
<1> DEFINE h == Head(wire)
           n == h.id
           a == [rq |-> "bind", id |-> n]
           b == [rq |-> "xdg", id |-> n]
<1>1. /\ UNCHANGED <<desktop, task, seen, loose, bound, described, done, manager>>
      /\ mirror' = [i \in DOMAIN mirror \cup {n} |-> IF i = n THEN Entry ELSE mirror[i]]
      /\ requests' = requests \o (<<a>> \o (IF manager THEN <<b>> ELSE <<>>))
  BY DEF Read, OnOutput, Ask, compositor, bounds
<1>2. n \notin DOMAIN mirror
  <2>1. Highest \in Nat
    BY Count DEF Highest, IInv
  <2> QED BY <2>1, FreshRead DEF IInv
<1>3. a.rq = "bind" /\ a.id = n /\ b.rq = "xdg" /\ b.id = n
  OBVIOUS
<1> HIDE DEF a, b
<1>4. PICK x : OneOrTwo(x, a, b, manager)
  BY OnePerhapsTwo
<1>5. requests' = requests \o x /\ IsSeq(x)
  BY <1>1, <1>4 DEF OneOrTwo
<1>6. Joins(requests, x, requests')
  <2>1. Joins(requests, x, requests \o x)
    BY <1>5, TwoParts DEF IInv
  <2> QED BY <1>5, <2>1
<1>7. \A k \in DOMAIN x : x[k] = a \/ (x[k] = b /\ manager)
  BY <1>4 DEF OneOrTwo
<1>8. (\E k \in DOMAIN x : x[k] = a) /\ (manager => \E k \in DOMAIN x : x[k] = b)
  BY <1>4 DEF OneOrTwo
<1>9. ASSUME NEW k \in DOMAIN requests'
       PROVE  (k \in DOMAIN requests /\ requests'[k] = requests[k]) \/ \E l \in DOMAIN x : requests'[k] = x[l]
  BY <1>6, EitherPart
<1>10. \A k \in DOMAIN requests : k \in DOMAIN requests' /\ requests'[k] = requests[k]
  BY <1>6, AtJoins
<1>11. \A l \in DOMAIN x : \E k \in DOMAIN requests' : requests'[k] = x[l]
  <2>1. \A l \in DOMAIN x : Len(requests) + l \in DOMAIN requests' /\ requests'[Len(requests) + l] = x[l]
    BY <1>6, AtJoins
  <2> QED BY <2>1
<1>12. Asks(requests', "bind", n) # {} /\ (manager => Asks(requests', "xdg", n) # {})
  BY <1>3, <1>8, <1>11 DEF Asks
<1> HIDE DEF n, h
<1>13. DOMAIN mirror' = DOMAIN mirror \cup {n} /\ mirror'[n] = Entry
       /\ \A i \in DOMAIN mirror : mirror'[i] = mirror[i]
  BY <1>1, <1>2
<1>14. \A i \in Attached' : i \in Attached \/ (i = n /\ manager)
  <2>1. Entry.attached = manager
    BY DEF Entry
  <2> QED BY <1>13, <2>1 DEF Attached
<1>15. Bound'
  <2> SUFFICES ASSUME NEW i
               PROVE  i \in DOMAIN mirror' <=> i \in bound \/ Asks(requests', "bind", i) # {}
    BY <1>1 DEF Bound
  <2>1. i \in DOMAIN mirror <=> i \in bound \/ Asks(requests, "bind", i) # {}
    BY DEF FInv, Bound
  <2>2. Asks(requests, "bind", i) # {} => Asks(requests', "bind", i) # {}
    BY <1>10 DEF Asks
  <2>3. Asks(requests', "bind", i) # {} => i = n \/ Asks(requests, "bind", i) # {}
    <3>1. \A k \in Asks(requests', "bind", i) : i = n \/ k \in Asks(requests, "bind", i)
      BY <1>3, <1>7, <1>9 DEF Asks
    <3> QED BY <3>1
  <2> QED BY <1>12, <1>13, <2>1, <2>2, <2>3
<1>16. Partial(mirror', Attached')
  <2>1. Entry.name = None /\ Entry.logical = None
    BY DEF Entry
  <2>2. Attached \subseteq Attached'
    BY <1>13 DEF Attached
  <2>3. Partial(mirror, Attached)
    BY DEF FInv
  <2> QED BY <1>13, <2>1, <2>2, <2>3 DEF Partial
<1>17. ASSUME NEW ev \in Kinds, NEW c \in DOMAIN desktop, desktop[c].id \in Wanted(ev)'
       PROVE  Starts(ev, desktop[c].id, wire, mirror, mirror', wire', requests', Wanted(ev))
  <2> DEFINE i == desktop[c].id
  <2>1. 1 \notin Speaks(wire, ev, i)
    BY AtDrops DEF Speaks, Kinds
  <2>2. i \in Wanted(ev) \/ (i = n /\ (ev = "info" \/ manager))
    <3>1. CASE ev = "info"
      BY <1>13, <1>17, <3>1 DEF Wanted
    <3>2. CASE ev # "info"
      BY <1>14, <1>17, <3>2 DEF Wanted
    <3> QED BY <3>1, <3>2
  <2>3. Wanted(ev) \subseteq DOMAIN mirror
    BY DEF Wanted, Attached
  <2>4. CASE i \in Wanted(ev)
    <3>1. mirror'[i] = mirror[i]
      BY <1>13, <2>3, <2>4
    <3> QED BY <2>1, <2>4, <3>1 DEF Starts, Learns
  <2>5. CASE i \notin Wanted(ev)
    <3>1. i = n /\ i \notin DOMAIN mirror
      BY <1>2, <2>2, <2>5
    <3>2. i \notin Served(ev)
      BY <2>5, Linked DEF FInv
    <3>3. Speaks(wire, ev, i) = {}
      BY <3>2, Silent DEF FInv, Kinds
    <3>4. Speaks(wire', ev, i) = {}
      <4>1. \A k \in Speaks(wire', ev, i) : k + 1 \in Speaks(wire, ev, i)
        BY AtDrops DEF Speaks
      <4> QED BY <3>3, <4>1
    <3>5. Asks(requests', Source(ev), i) # {}
      <4>1. CASE ev = "info"
        BY <1>12, <3>1, <4>1 DEF Source
      <4>2. CASE ev # "info"
        BY <1>12, <2>2, <2>5, <3>1, <4>2 DEF Source
      <4> QED BY <4>1, <4>2
    <3> QED BY <3>1, <3>4, <3>5 DEF Starts
  <2> QED BY <2>4, <2>5
<1>18. Head(wire).ev # "done" /\ done' = done
  BY <1>1
<1>19. Head(wire).id \in DOMAIN mirror'
  BY <1>13 DEF n, h
<1>20. DOMAIN mirror \subseteq DOMAIN mirror'
  BY <1>13
<1> QED BY <1>1, <1>6, <1>15, <1>16, <1>17, <1>18, <1>19, <1>20, AfterRead

\* An event that no request answers.
LEMMA QuietLists ==
    ASSUME IInv, MInv, FInv, Drops(wire, wire'), UNCHANGED <<desktop, task, seen, loose, bound, described>>,
           requests' = requests, DOMAIN mirror' = DOMAIN mirror, Attached' = Attached,
           Head(wire).ev # "output",
           \/ Head(wire).ev # "done" /\ done' = done
           \/ Head(wire).ev = "done" /\ done' = TRUE,
           Partial(mirror', Attached),
           \A ev \in Kinds : \A i \in Wanted(ev) : Learns(ev, i, wire, mirror, mirror')
    PROVE  FInv'
<1> DEFINE x == <<>>
<1>1. Joins(requests, x, requests')
  BY NoneJoins DEF IInv
<1> HIDE DEF x
<1>2. Bound'
  BY DEF Bound, FInv
<1>3. \A ev \in Kinds : Wanted(ev)' = Wanted(ev)
  BY DEF Wanted
<1>4. \A ev \in Kinds : \A c \in DOMAIN desktop : desktop[c].id \in Wanted(ev)' =>
         Starts(ev, desktop[c].id, wire, mirror, mirror', wire', requests', Wanted(ev))
  BY <1>3 DEF Starts
<1> QED BY <1>1, <1>2, <1>4, AfterRead

LEMMA ReadLists == ASSUME IInv, MInv, FInv, Read PROVE FInv'
<1> DEFINE e == Head(wire)
<1>1. wire # <<>> /\ wire' = Tail(wire) /\ UNCHANGED <<desktop, task, seen, loose, bound, described>>
  BY DEF Read, compositor, bounds
<1>2. Drops(wire, wire')
  BY <1>1, AllButFirst DEF IInv
<1>3. 1 \in DOMAIN wire /\ e = wire[1]
  BY <1>2, AtDrops
<1>4. PICK S : mirror \in [DOMAIN mirror -> [name : S, mode : S, scale : S, logical : S, attached : BOOLEAN]]
  BY DEF IInv, Entries
<1>5. Partial(mirror, Attached)
  BY DEF FInv
<1>6. CASE e.ev = "output" /\ OnOutput(e)
  BY <1>2, <1>6, OutputLists
<1>7. ASSUME e.ev \notin Kinds, mirror' = mirror
      PROVE  \A ev \in Kinds : \A i \in Wanted(ev) : Learns(ev, i, wire, mirror, mirror')
  BY <1>3, <1>7 DEF Learns, Speaks
<1>8. CASE e.ev = "manager" /\ OnManager
  <2>1. mirror' = mirror /\ done' = done /\ requests' = requests /\ e.ev \notin Kinds
    BY <1>8 DEF OnManager, Kinds
  <2>2. DOMAIN mirror' = DOMAIN mirror /\ Attached' = Attached /\ Partial(mirror', Attached)
    BY <1>5, <2>1 DEF Attached
  <2> QED BY <1>1, <1>2, <1>7, <1>8, <2>1, <2>2, QuietLists
<1>9. CASE e.ev = "done" /\ OnDone
  <2>1. mirror' = mirror /\ done' = TRUE /\ requests' = requests /\ e.ev \notin Kinds
    BY <1>9 DEF OnDone, Kinds
  <2>2. DOMAIN mirror' = DOMAIN mirror /\ Attached' = Attached /\ Partial(mirror', Attached)
    BY <1>5, <2>1 DEF Attached
  <2> QED BY <1>1, <1>2, <1>7, <1>9, <2>1, <2>2, QuietLists
<1>10. CASE e.ev = "info" /\ OnInfo(e)
  <2>1. mirror' = [mirror EXCEPT ![e.id].name = e.name, ![e.id].mode = e.mode, ![e.id].scale = e.scale]
        /\ done' = done /\ requests' = requests
    BY <1>10 DEF OnInfo
  <2>2. DOMAIN mirror' = DOMAIN mirror
    BY <2>1
  <2>3. ASSUME NEW i \in DOMAIN mirror
        PROVE  /\ mirror'[i].attached = mirror[i].attached /\ mirror'[i].logical = mirror[i].logical
               /\ i # e.id => mirror'[i] = mirror[i]
               /\ i = e.id => /\ mirror'[i].name = e.name /\ mirror'[i].mode = e.mode
                              /\ mirror'[i].scale = e.scale
    <3>1. mirror[i] \in [name : S, mode : S, scale : S, logical : S, attached : BOOLEAN]
      BY <1>4
    <3>2. mirror'[i] = IF i = e.id THEN [mirror[i] EXCEPT !.name = e.name, !.mode = e.mode, !.scale = e.scale]
                       ELSE mirror[i]
      BY <1>4, <2>1
    <3> QED BY <3>1, <3>2
  <2> HIDE DEF e
  <2>4. Attached' = Attached
    BY <2>2, <2>3 DEF Attached
  <2>5. Partial(mirror', Attached)
    <3>1. e.name \in Connectors
      BY <1>3, <1>10 DEF MInv, Told, Names
    <3> QED BY <1>5, <2>2, <2>3, <3>1 DEF Partial
  <2>6. ASSUME NEW ev \in Kinds, NEW i \in Wanted(ev) PROVE Learns(ev, i, wire, mirror, mirror')
    <3>1. i \in DOMAIN mirror
      BY DEF Wanted, Attached
    <3>2. 1 \in Speaks(wire, ev, i) <=> ev = "info" /\ i = e.id
      BY <1>3, <1>10 DEF Speaks
    <3>3. CASE ev = "info" /\ i = e.id
      <4>1. Has(ev, mirror'[i]) = Says(e)
        BY <1>10, <2>3, <3>1, <3>3 DEF Has, Says
      <4> QED BY <3>2, <3>3, <4>1 DEF Learns, e
    <3>4. CASE ~(ev = "info" /\ i = e.id)
      <4>1. Has(ev, mirror'[i]) = Has(ev, mirror[i])
        BY <2>3, <3>1, <3>4 DEF Has
      <4> QED BY <3>2, <3>4, <4>1 DEF Learns
    <3> QED BY <3>3, <3>4
  <2>7. Head(wire).ev # "output" /\ Head(wire).ev # "done"
    BY <1>10 DEF e
  <2> QED BY <1>1, <1>2, <2>1, <2>2, <2>4, <2>5, <2>6, <2>7, QuietLists
<1>11. CASE e.ev = "logical" /\ OnLogical(e)
  <2>1. mirror' = [mirror EXCEPT ![e.id].logical = e.size] /\ done' = done /\ requests' = requests
    BY <1>11 DEF OnLogical
  <2>2. DOMAIN mirror' = DOMAIN mirror
    BY <2>1
  <2>3. ASSUME NEW i \in DOMAIN mirror
        PROVE  /\ mirror'[i].attached = mirror[i].attached /\ mirror'[i].name = mirror[i].name
               /\ mirror'[i].mode = mirror[i].mode /\ mirror'[i].scale = mirror[i].scale
               /\ mirror'[i].logical = IF i = e.id THEN e.size ELSE mirror[i].logical
    <3>1. mirror[i] \in [name : S, mode : S, scale : S, logical : S, attached : BOOLEAN]
      BY <1>4
    <3>2. mirror'[i] = IF i = e.id THEN [mirror[i] EXCEPT !.logical = e.size] ELSE mirror[i]
      BY <1>4, <2>1
    <3> QED BY <3>1, <3>2
  <2> HIDE DEF e
  <2>4. Attached' = Attached
    BY <2>2, <2>3 DEF Attached
  <2>5. Partial(mirror', Attached)
    <3>1. "logical" \in Kinds
      BY DEF Kinds
    <3>2. e.id \in Served("logical")
      BY <1>3, <1>11 DEF FInv, Heard
    <3>3. e.id \in Wanted("logical")
      BY <3>1, <3>2, Linked DEF FInv
    <3>4. e.id \in Attached
      BY <3>3 DEF Wanted
    <3> QED BY <1>5, <2>2, <2>3, <3>4 DEF Partial
  <2>6. ASSUME NEW ev \in Kinds, NEW i \in Wanted(ev) PROVE Learns(ev, i, wire, mirror, mirror')
    <3>1. i \in DOMAIN mirror
      BY DEF Wanted, Attached
    <3>2. 1 \in Speaks(wire, ev, i) <=> ev = "logical" /\ i = e.id
      BY <1>3, <1>11 DEF Speaks
    <3>3. CASE ev = "logical" /\ i = e.id
      <4>1. Has(ev, mirror'[i]) = Says(e)
        BY <1>11, <2>3, <3>1, <3>3 DEF Has, Says
      <4> QED BY <3>2, <3>3, <4>1 DEF Learns, e
    <3>4. CASE ev = "info"
      <4>1. Has(ev, mirror'[i]) = Has(ev, mirror[i])
        BY <2>3, <3>1, <3>4 DEF Has
      <4> QED BY <3>2, <3>4, <4>1 DEF Learns
    <3>5. CASE ev = "logical" /\ i # e.id
      <4>1. Has(ev, mirror'[i]) = Has(ev, mirror[i])
        BY <2>3, <3>1, <3>5 DEF Has
      <4> QED BY <3>2, <3>5, <4>1 DEF Learns
    <3> QED BY <3>3, <3>4, <3>5 DEF Kinds
  <2>7. Head(wire).ev # "output" /\ Head(wire).ev # "done"
    BY <1>11 DEF e
  <2> QED BY <1>1, <1>2, <2>1, <2>2, <2>4, <2>5, <2>6, <2>7, QuietLists
<1> QED BY <1>6, <1>8, <1>9, <1>10, <1>11 DEF Read

------------------------------------------------------------------------------
(* The worker's own steps.                                                 *)

\* What is known of the outputs stays, and more of them may be attached.
Alike(m, n) ==
    /\ DOMAIN n = DOMAIN m
    /\ \A i \in DOMAIN m : /\ n[i].name = m[i].name /\ n[i].mode = m[i].mode
                           /\ n[i].scale = m[i].scale /\ n[i].logical = m[i].logical
                           /\ m[i].attached => n[i].attached

LEMMA LaterLists ==
    ASSUME IInv, IInv', FInv, UNCHANGED <<desktop, wire, bound, described, loose>>,
           NEW x, Joins(requests, x, requests'), At(x, "bind") = {}, Alike(mirror, mirror'),
           task.op # "registry" \/ done, Asking', Sizes(seen'),
           \A ev \in Kinds : \A c \in DOMAIN desktop :
               desktop[c].id \in Wanted(ev)' /\ desktop[c].id \in Listed'
                   => InTime(wire, requests', done', ev, c, mirror', desktop, seen')
    PROVE  FInv'
<1>1. DOMAIN mirror' = DOMAIN mirror /\ Attached \subseteq Attached'
  BY DEF Alike, Attached
<1>2. \A i \in DOMAIN mirror : \A ev \in Kinds : Has(ev, mirror'[i]) = Has(ev, mirror[i])
  BY DEF Alike, Has
<1>3. Bound'
  <2>1. \A k \in DOMAIN requests' :
           (k \in DOMAIN requests /\ requests'[k] = requests[k]) \/ \E l \in DOMAIN x : requests'[k] = x[l]
    BY EitherPart
  <2>2. \A k \in DOMAIN requests : k \in DOMAIN requests' /\ requests'[k] = requests[k]
    BY AtJoins
  <2>3. \A l \in DOMAIN x : x[l].rq # "bind"
    BY DEF At
  <2>4. \A i : Asks(requests', "bind", i) = Asks(requests, "bind", i)
    BY <2>1, <2>2, <2>3 DEF Asks
  <2> QED BY <1>1, <2>4 DEF Bound, FInv
<1>4. Heard(wire', "info", Served("info")') /\ Heard(wire', "logical", Served("logical")')
  BY DEF FInv, Served
<1>5. ASSUME NEW ev \in Kinds, NEW c \in DOMAIN desktop, desktop[c].id \in Wanted(ev)'
      PROVE  Current(wire, requests', ev, c, mirror', desktop)
  <2> DEFINE i == desktop[c].id
             has == Has(ev, mirror[i])
             view == View(ev, c, desktop[c])
  <2>1. i \in DOMAIN mirror /\ Has(ev, mirror'[i]) = has
    BY <1>1, <1>2, <1>5 DEF Wanted, Attached
  <2>2. CASE i \in Wanted(ev)
    <3>1. Settles(wire, requests, ev, i, has, {view}, DOMAIN wire, DOMAIN requests)
      BY <2>2 DEF FInv, Streams, Current, Kinds
    <3> DEFINE t == <<>>
    <3>2. Joins(wire, t, wire) /\ DOMAIN t = {}
      BY NoneJoins DEF IInv
    <3> HIDE DEF t, i, has, view
    <3>3. Tells(t, ev, i, {view})
      BY <3>2 DEF Tells, Speaks
    <3>4. \A k \in DOMAIN requests : k \in DOMAIN requests => k \in DOMAIN requests'
      BY AtJoins
    <3>5. Passes(requests, DOMAIN requests, requests', DOMAIN requests', wire, DOMAIN wire, ev, i)
      BY <3>4, PassesLonger
    <3>6. {view} \subseteq {view} /\ \A k \in DOMAIN wire : k \in DOMAIN wire => k \in DOMAIN wire
      OBVIOUS
    <3>7. Settles(wire, requests', ev, i, has, {view}, DOMAIN wire, DOMAIN requests')
      BY <3>1, <3>2, <3>3, <3>5, <3>6, SettlesLonger
    <3> QED BY <2>1, <3>7 DEF Current, i, view
  <2>3. CASE i \notin Wanted(ev)
    <3>1. i \notin Served(ev)
      BY <2>3, Linked DEF FInv
    <3>2. Speaks(wire, ev, i) = {}
      BY <3>1, Silent DEF FInv, Kinds
    <3>3. ev # "info" /\ i \in Attached'
      BY <1>1, <1>5, <2>3 DEF Wanted
    <3>4. \E k \in Xdg(requests') : requests'[k].id = i
      <4>1. (\E j \in DOMAIN described : described[j] = i) \/ \E k \in Xdg(requests') : requests'[k].id = i
        BY <3>3 DEF IInv, Once
      <4>2. ~\E j \in DOMAIN described : described[j] = i
        BY <3>1, <3>3 DEF Served
      <4> QED BY <4>1, <4>2
    <3>5. Asks(requests', Source(ev), i) \cap DOMAIN requests' # {}
      BY <3>3, <3>4 DEF Asks, Xdg, Source
    <3> QED BY <3>2, <3>5, SettlesLater DEF Current
  <2> QED BY <2>2, <2>3
<1>6. \A ev \in Kinds : Streams(ev)'
  BY <1>5 DEF Streams
<1>7. Registered'
  BY <1>1 DEF Registered, FInv
<1>8. Partial(mirror', Attached')
  BY <1>1 DEF Alike, Partial, FInv
<1>9. Streams("info")' /\ Streams("logical")'
  BY <1>6 DEF Kinds
<1> QED BY <1>3, <1>4, <1>7, <1>8, <1>9 DEF FInv

\* No list is under way.
LEMMA NoList ==
    ASSUME IInv, IInv', FInv, UNCHANGED <<desktop, wire, bound, described, loose>>,
           NEW x, Joins(requests, x, requests'), At(x, "bind") = {}, Alike(mirror, mirror'),
           task.op # "registry" \/ done, task'.op # "list", Sizes(seen')
    PROVE  FInv'
<1>1. Asking' /\ Listed' = {}
  BY DEF Asking, Listed
<1> QED BY <1>1, LaterLists

LEMMA SameAlike == ASSUME NEW m PROVE Alike(m, m)
BY DEF Alike

\* A roundtrip is asked for: it ends after all that was asked for before.
LEMMA AskLists ==
    ASSUME IInv, MInv, done, NEW t, IsSeq(t), requests' = requests \o Append(t, Sync),
           \A k \in DOMAIN t : t[k].rq \notin {"bind", "sync"}
    PROVE  \E x : /\ Joins(requests, x, requests') /\ At(x, "bind") = {}
                  /\ \A k \in DOMAIN requests : k \in Sooner(requests', FALSE)
<1> DEFINE x == Append(t, Sync)
           one == <<Sync>>
<1>1. Sync.rq = "sync"
  BY DEF Sync
<1>2. Turn(requests, wire, TRUE)
  BY DEF MInv, Turn
<1>3. Joins(requests, x, requests \o x) /\ Joins(t, one, x) /\ DOMAIN one = {1} /\ one[1] = Sync
  BY <1>1, <1>2, TurnBegun DEF IInv
<1> HIDE DEF one, x
<1>4. Joins(requests, x, requests')
  BY <1>3 DEF x
<1>5. At(x, "bind") = {}
  <2>1. ASSUME NEW k \in DOMAIN x PROVE x[k].rq # "bind"
    <3>1. (k \in DOMAIN t /\ x[k] = t[k]) \/ \E l \in DOMAIN one : x[k] = one[l]
      BY <1>3, EitherPart
    <3> QED BY <1>1, <1>3, <3>1
  <2> QED BY <2>1 DEF At
<1>6. ASSUME NEW k \in DOMAIN requests PROVE k \in Sooner(requests', FALSE)
  <2>1. PICK m \in DOMAIN x : x[m] = Sync /\ m \in Nat /\ m >= 1
    <3>1. Len(t) + 1 \in DOMAIN x /\ x[Len(t) + 1] = Sync /\ Len(t) \in Nat
      BY <1>3, AtJoins
    <3> QED BY <3>1
  <2> DEFINE l == Len(requests) + m
  <2>2. l \in DOMAIN requests' /\ requests'[l] = Sync
    <3>1. \A j \in DOMAIN x : Len(requests) + j \in DOMAIN requests' /\ requests'[Len(requests) + j] = x[j]
      BY ONLY <1>4, AtJoins
    <3> QED BY <2>1, <3>1
  <2>3. k \in Nat /\ k <= Len(requests) /\ k \in DOMAIN requests' /\ Len(requests) \in Nat
    BY <1>4, AtJoins
  <2>4. k < l
    BY <2>1, <2>3
  <2> HIDE DEF l
  <2> QED BY <1>1, <2>2, <2>3, <2>4 DEF Sooner, At
<1> QED BY <1>4, <1>5, <1>6

LEMMA RestLists ==
    ASSUME IInv, IInv', FInv, task.op # "registry", task'.op # "list",
           UNCHANGED <<desktop, wire, bound, described, loose, requests, mirror, seen>>
    PROVE  FInv'
<1> DEFINE x == <<>>
<1>1. Joins(requests, x, requests) /\ DOMAIN x = {}
  BY NoneJoins DEF IInv
<1> HIDE DEF x
<1>2. Joins(requests, x, requests') /\ At(x, "bind") = {}
  BY <1>1 DEF At
<1>3. Alike(mirror, mirror') /\ Sizes(seen')
  BY SameAlike DEF FInv
<1> QED BY <1>2, <1>3, NoList

LEMMA ReplyLists == ASSUME IInv, IInv', MInv, FInv, Reply PROVE FInv'
<1>1. /\ UNCHANGED <<desktop, wire, bound, described, loose, requests, mirror, seen>>
      /\ task'.op = "idle" /\ task.op \in Ops
  BY DEF Reply, compositor, bounds
<1>2. task.op # "registry"
  BY <1>1, PointerAssumption
<1> QED BY <1>1, <1>2, RestLists

LEMMA StartLists == ASSUME IInv, IInv', MInv, FInv, Start PROVE FInv'
<1>1. UNCHANGED <<desktop, wire, bound, described, loose, seen>> /\ Sizes(seen') /\ done
  BY DEF Start, Fixup, CreateObjects, Ready, compositor, bounds, FInv
<1>2. CASE Fixup /\ manager
  <2> DEFINE t == Objects(SetToSeq(Unattached))
  <2>1. requests' = requests \o Append(t, Sync) /\ task' = [op |-> "fixup"]
        /\ mirror' = [i \in DOMAIN mirror |-> [mirror[i] EXCEPT !.attached = TRUE]]
    BY <1>2 DEF Fixup, Roundtrip, Ask, Objects
  <2>2. IsSeq(t) /\ \A k \in DOMAIN t : t[k].rq = "xdg"
    BY FixupAsks
  <2> HIDE DEF t
  <2>3. PICK x : Joins(requests, x, requests') /\ At(x, "bind") = {}
    BY <1>1, <2>1, <2>2, AskLists
  <2>4. Alike(mirror, mirror')
    <3>1. PICK S : mirror \in [DOMAIN mirror ->
                       [name : S, mode : S, scale : S, logical : S, attached : BOOLEAN]]
      BY DEF IInv, Entries
    <3>2. ASSUME NEW i \in DOMAIN mirror
          PROVE  /\ mirror'[i].name = mirror[i].name /\ mirror'[i].mode = mirror[i].mode
                 /\ mirror'[i].scale = mirror[i].scale /\ mirror'[i].logical = mirror[i].logical
                 /\ mirror'[i].attached = TRUE
      BY <2>1, <3>1
    <3>3. DOMAIN mirror' = DOMAIN mirror
      BY <2>1
    <3> QED BY <3>2, <3>3 DEF Alike
  <2>5. task'.op # "list"
    BY <2>1
  <2> QED BY <1>1, <2>3, <2>4, <2>5, NoList
<1>3. CASE (Fixup /\ ~manager) \/ CreateObjects
  <2> DEFINE t == <<>>
  <2>1. requests' = requests \o Append(t, Sync) /\ task'.op = "create" /\ mirror' = mirror
    BY <1>3 DEF Fixup, CreateObjects, Roundtrip, Ask
  <2>2. IsSeq(t) /\ DOMAIN t = {}
    BY NoneIsSeq
  <2> HIDE DEF t
  <2>3. PICK x : Joins(requests, x, requests') /\ At(x, "bind") = {}
    BY <1>1, <2>1, <2>2, AskLists
  <2> QED BY <1>1, <2>1, <2>3, SameAlike, NoList
<1>4. CASE Ready
  <2>1. UNCHANGED <<requests, mirror>> /\ task.op = "create" /\ task'.op = "idle"
    BY <1>4 DEF Ready
  <2> QED BY <1>1, <2>1, RestLists
<1> QED BY <1>2, <1>3, <1>4 DEF Start

\* A list waits for what was said, and asked for, when it was asked for itself.
LEMMA IssueLists == ASSUME IInv, IInv', MInv, FInv, Issue PROVE FInv'
<1>1. UNCHANGED <<desktop, wire, bound, described, loose, mirror>> /\ seen' = {desktop}
      /\ task.op = "idle" /\ done
  BY DEF Issue, compositor, MInv
<1>2. Sizes(seen')
  BY <1>1 DEF MInv, Plugs, Sizes
<1>3. PICK t : /\ IsSeq(t) /\ Inputs(t) /\ requests' = requests \o Append(t, Sync)
               /\ task'.op # "registry" /\ (task'.op = "list" => List)
  BY IssueAsks DEF Commands
<1>4. \A k \in DOMAIN t : t[k].rq \notin {"bind", "sync"}
  BY <1>3 DEF Inputs
<1>5. PICK x : /\ Joins(requests, x, requests') /\ At(x, "bind") = {}
               /\ \A k \in DOMAIN requests : k \in Sooner(requests', FALSE)
  BY <1>1, <1>3, <1>4, AskLists
<1>6. Alike(mirror, mirror')
  BY <1>1, SameAlike
<1>7. CASE task'.op # "list"
  BY <1>1, <1>2, <1>5, <1>6, <1>7, NoList
<1>8. CASE task'.op = "list"
  <2>1. task'.known = DOMAIN mirror /\ done' = FALSE /\ "list" \in Ops
    BY <1>3, <1>8 DEF List, Roundtrip
  <2>2. Asking'
    <3>1. \A c \in Connectors \ loose : desktop[c].id \in DOMAIN mirror
      BY <1>1 DEF FInv, Registered
    <3> QED BY <1>1, <2>1, <3>1 DEF Asking
  <2>3. ASSUME NEW ev \in Kinds, NEW c \in DOMAIN desktop, desktop[c].id \in Wanted(ev)'
        PROVE  InTime(wire, requests', done', ev, c, mirror', desktop, seen')
    <3> DEFINE i == desktop[c].id
               has == Has(ev, mirror[i])
               old == {View(ev, c, desktop[c])}
               good == Views(ev, c, i, seen')
    <3>1. i \in Wanted(ev)
      BY <1>1, <2>3 DEF Wanted, Attached
    <3>2. Settles(wire, requests, ev, i, has, old, DOMAIN wire, DOMAIN requests)
      BY <3>1 DEF FInv, Streams, Current, Kinds
    <3> DEFINE n == <<>>
    <3>3. Joins(wire, n, wire) /\ DOMAIN n = {}
      BY NoneJoins DEF IInv
    <3>4. old \subseteq good
      BY <1>1, ViewsNow
    <3>5. Has(ev, mirror'[i]) = has
      BY <1>1
    <3> HIDE DEF n, i, has, old, good
    <3>6. Tells(n, ev, i, good)
      BY <3>3 DEF Tells, Speaks
    <3>7. Before(wire, FALSE) = DOMAIN wire
      <4>1. Turn(requests, wire, TRUE)
        BY <1>1 DEF MInv, Turn
      <4> QED BY <4>1, TurnCalm, BeforeAny
    <3> DEFINE T == Before(wire, FALSE)
               U == Sooner(requests', FALSE)
    <3>8. \A k \in DOMAIN wire : k \in DOMAIN wire => k \in T
      BY <3>7
    <3>9. \A k \in DOMAIN requests : k \in DOMAIN requests => k \in U
      BY <1>5
    <3> HIDE DEF T, U
    <3>10. Passes(requests, DOMAIN requests, requests', U, wire, T, ev, i)
      BY <1>5, <3>9, PassesLonger
    <3>11. Settles(wire, requests', ev, i, has, good, T, U)
      BY <3>2, <3>3, <3>4, <3>6, <3>8, <3>10, SettlesLonger
    <3> QED BY <2>1, <3>5, <3>11 DEF InTime, T, U, i, good
  <2> QED BY <1>1, <1>2, <1>5, <1>6, <2>2, <2>3, LaterLists
<1> QED BY <1>7, <1>8

\* All outputs are announced before the end of the first roundtrip.
LEMMA InitLists == Init => FInv
<1> SUFFICES ASSUME Init PROVE FInv
  OBVIOUS
<1> DEFINE n == Cardinality(Connectors)
           outputs == [i \in 1..n |-> Global(i)]
           m == [ev |-> "manager"]
<1>1. n \in Nat
  BY Count
<1>2. /\ mirror = <<>> /\ done = FALSE /\ task = [op |-> "registry"] /\ loose = {}
      /\ seen = {desktop} /\ requests = <<Sync>> /\ bound = {} /\ described = <<>>
  BY DEF Init
<1>3. \A i : Global(i).ev = "output" /\ Global(i).id = i
  BY DEF Global
<1>4. m.ev = "manager"
  OBVIOUS
<1>5. \/ \E at \in 1..(n + 1) : wire = InsertAt(outputs, at, m)
      \/ wire = outputs
  BY DEF Init
<1>6. (\A c \in Connectors : desktop[c].id \in 1..n)
      /\ (\A c \in DOMAIN desktop : desktop[c].mode \in Modes /\ desktop[c].scale \in Scales)
  BY DEF Init
<1>7. /\ \A k \in DOMAIN wire : wire[k].ev \in {"output", "manager"}
      /\ \A i \in 1..n : \E k \in DOMAIN wire : wire[k] = Global(i)
  <2> HIDE DEF m
  <2>1. CASE wire = outputs
    BY <1>3, <2>1
  <2>2. CASE \E at \in 1..(n + 1) : wire = InsertAt(outputs, at, m)
    <3>1. PICK at \in 1..(n + 1) : Announced(wire, n, at, m)
      BY <1>1, <2>2, Inserted
    <3> HIDE DEF n
    <3>2. at \in Nat /\ at >= 1 /\ at <= n + 1 /\ DOMAIN wire = 1..(n + 1)
      BY <1>1, <3>1 DEF Announced
    <3>3. \A k \in DOMAIN wire : k \in 1..(at - 1) \/ k = at \/ k \in (at + 1)..(n + 1)
      BY <1>1, <3>2
    <3>4. \A k \in DOMAIN wire : wire[k].ev \in {"output", "manager"}
      BY <1>3, <1>4, <3>1, <3>3 DEF Announced
    <3>5. ASSUME NEW i \in 1..n PROVE \E k \in DOMAIN wire : wire[k] = Global(i)
      <4>1. CASE i < at
        <5>1. i \in 1..(at - 1) /\ i \in DOMAIN wire
          BY <1>1, <3>2, <4>1
        <5> QED BY <3>1, <5>1 DEF Announced
      <4>2. CASE ~(i < at)
        <5>1. i + 1 \in (at + 1)..(n + 1) /\ i + 1 \in DOMAIN wire /\ (i + 1) - 1 = i
          BY <1>1, <3>2, <4>2
        <5>2. wire[i + 1] = Global((i + 1) - 1)
          BY <3>1, <5>1 DEF Announced
        <5> QED BY <5>1, <5>2
      <4> QED BY <4>1, <4>2
    <3> QED BY <3>4, <3>5
  <2> QED BY <1>5, <2>1, <2>2
<1> HIDE DEF n, m, outputs
<1>8. DOMAIN mirror = {} /\ DOMAIN described = {} /\ Attached = {}
  BY <1>2 DEF Attached
<1>9. \A rq \in {"bind", "xdg"} : \A i : Asks(requests, rq, i) = {}
  <2> DEFINE one == <<Sync>>
  <2>1. DOMAIN one = {1} /\ one[1].rq = "sync"
    BY OneIsSeq DEF Sync
  <2>2. requests = one
    BY <1>2
  <2> HIDE DEF one
  <2> QED BY <2>1, <2>2 DEF Asks
<1>10. Bound
  BY <1>2, <1>8, <1>9 DEF Bound
<1>11. Heard(wire, "info", Served("info")) /\ Heard(wire, "logical", Served("logical"))
  BY <1>7 DEF Heard
<1>12. Streams("info") /\ Streams("logical")
  BY <1>8 DEF Streams, Wanted
<1>13. Registered
  <2> SUFFICES ASSUME NEW c \in Connectors PROVE Announcing(wire, desktop[c].id)
    BY <1>2 DEF Registered
  <2>1. PICK k \in DOMAIN wire : wire[k] = Global(desktop[c].id)
    BY <1>6, <1>7
  <2>2. k \in Outputs(wire) /\ wire[k].id = desktop[c].id
    BY <1>3, <2>1 DEF Outputs
  <2>3. Ahead(wire, k)
    BY <1>7 DEF Ahead
  <2> QED BY <2>2, <2>3 DEF Announcing
<1>14. Asking /\ Partial(mirror, Attached) /\ Sizes(seen)
  BY <1>2, <1>6, <1>8 DEF Asking, Partial, Sizes
<1> QED BY <1>10, <1>11, <1>12, <1>13, <1>14 DEF FInv

LEMMA StepLists == IInv /\ IInv' /\ MInv /\ MInv' /\ FInv /\ [Next]_vars => FInv'
<1> SUFFICES ASSUME IInv, IInv', MInv, MInv', FInv, [Next]_vars PROVE FInv'
  OBVIOUS
<1>1. CASE UNCHANGED vars
  <2>1. UNCHANGED <<desktop, bound, described, requests, wire, mirror, task, done, loose, seen>>
    BY <1>1 DEF vars, compositor, worker, bounds
  <2>2. UNCHANGED <<Attached, Listed>> /\ \A ev \in Kinds : Wanted(ev)' = Wanted(ev) /\ Served(ev)' = Served(ev)
    BY <2>1 DEF Attached, Listed, Wanted, Served
  <2>3. Streams("info")' /\ Streams("logical")'
    <3>1. "info" \in Kinds /\ "logical" \in Kinds
      BY DEF Kinds
    <3>2. ASSUME NEW ev \in Kinds, Streams(ev) PROVE Streams(ev)'
      BY <2>1, <2>2, <3>2 DEF Streams
    <3> QED BY <3>1, <3>2 DEF FInv
  <2>4. Bound' /\ Registered' /\ Asking' /\ Partial(mirror', Attached') /\ Sizes(seen')
    BY <2>1, <2>2 DEF FInv, Bound, Registered, Asking
  <2>5. Heard(wire', "info", Served("info")') /\ Heard(wire', "logical", Served("logical")')
    BY <2>1, <2>2 DEF FInv, Kinds
  <2> QED BY <2>3, <2>4, <2>5 DEF FInv
<1> QED BY <1>1, DesktopLists, HandleLists, ReadLists, StartLists, IssueLists, ReplyLists DEF Next

------------------------------------------------------------------------------
(* The end of a list.                                                      *)

\* After the roundtrip all that is known of the outputs is good.
LEMMA EndsFresh ==
    ASSUME IInv, MInv, FInv, done, NEW ev \in Kinds, NEW c \in DOMAIN desktop,
           desktop[c].id \in Wanted(ev), desktop[c].id \in Listed
    PROVE  Has(ev, mirror[desktop[c].id]) \in Views(ev, c, desktop[c].id, seen)
<1>1. InTime(wire, requests, done, ev, c, mirror, desktop, seen)
  BY DEF FInv, Streams, Kinds
<1>2. Before(wire, done) = {} /\ Sooner(requests, done) = {}
  BY DEF Before, Sooner
<1> QED BY <1>1, <1>2 DEF InTime, Settles

LEMMA RowsFresh ==
    ASSUME IInv, MInv, FInv, Reply, task.op = "list"
    PROVE  /\ \A i \in task.known : Plugged(i) => \E o \in Listing : o.id = i
           /\ \A o \in Listing : o.name \in loose \/ AsSeen(o)
<1>1. done /\ task.known \subseteq DOMAIN mirror /\ Listed = task.known
  BY DEF Reply, FInv, Asking, Listed
<1> DEFINE Row(i) == [id |-> i, name |-> mirror[i].name,
                      width |-> IF mirror[i].logical # None THEN mirror[i].logical ELSE mirror[i].mode,
                      scale |-> IF mirror[i].scale > 0 THEN mirror[i].scale ELSE 1]
<1>2. Listing = {Row(i) : i \in {j \in DOMAIN mirror : mirror[j].name # None}}
  BY DEF Listing
<1>3. \A i : /\ Row(i).id = i /\ Row(i).name = mirror[i].name
             /\ Row(i).width = IF mirror[i].logical # None THEN mirror[i].logical ELSE mirror[i].mode
             /\ Row(i).scale = IF mirror[i].scale > 0 THEN mirror[i].scale ELSE 1
  OBVIOUS
<1> HIDE DEF Row
<1>4. "info" \in Kinds /\ "logical" \in Kinds /\ "info" # "logical"
  BY DEF Kinds
<1>5. ASSUME NEW c \in DOMAIN desktop, desktop[c].id \in task.known
      PROVE  LET m == mirror[desktop[c].id]
             IN \E d \in seen : /\ c \in DOMAIN d /\ d[c].id = desktop[c].id
                                /\ m.name = c /\ m.mode = d[c].mode /\ m.scale = d[c].scale
  <2>1. Has("info", mirror[desktop[c].id]) \in Views("info", c, desktop[c].id, seen)
    BY <1>1, <1>4, <1>5, EndsFresh DEF Wanted
  <2> QED BY <2>1 DEF Has, Views, View
<1>6. ASSUME NEW i \in task.known, Plugged(i) PROVE \E o \in Listing : o.id = i
  <2>1. PICK c \in DOMAIN desktop : desktop[c].id = i
    BY <1>6 DEF Plugged
  <2>2. mirror[i].name = c
    BY <1>5, <2>1
  <2>3. c # None
    BY PointerAssumption DEF MInv, Plugs
  <2>4. Row(i) \in Listing
    BY <1>1, <1>2, <2>2, <2>3
  <2> QED BY <1>3, <2>4
<1>7. ASSUME NEW o \in Listing, o.name \notin loose PROVE AsSeen(o)
  <2>1. PICK i \in DOMAIN mirror : mirror[i].name # None /\ o = Row(i)
    BY <1>2
  <2> DEFINE m == mirror[i]
             c == m.name
  <2>2. c \in Connectors \ loose
    BY <1>3, <1>7, <2>1 DEF FInv, Partial
  <2>3. i = desktop[c].id /\ c \in DOMAIN desktop
    BY <2>2 DEF MInv, Known, Names, Steady
  <2>4. i \in task.known
    BY <2>2, <2>3 DEF FInv, Asking
  <2>5. PICK d \in seen : /\ c \in DOMAIN d /\ d[c].id = i /\ m.mode = d[c].mode
                          /\ m.scale = d[c].scale
    BY <1>5, <2>3, <2>4
  <2> DEFINE had == {e[o.name] : e \in {e \in seen : o.name \in DOMAIN e}}
  <2>6. o.name = c /\ o.id = i /\ (\A e \in seen : c \in DOMAIN e => e[c] \in had)
    BY <1>3, <2>1
  <2>7. d[c] \in had
    BY <2>5, <2>6
  <2>8. o.scale = d[c].scale
    <3>1. d[c].scale \in Nat \ {0}
      BY <2>5, PointerAssumption DEF FInv, Sizes
    <3> QED BY <1>3, <2>1, <2>5, <3>1
  <2>9. task.op # "registry" /\ offered \in BOOLEAN
    BY DEF IInv, Managed
  <2>10. \E h \in had : o.width = IF offered THEN Logical(h) ELSE h.mode
    <3>1. CASE offered
      <4>1. i \in Attached
        BY <2>1, <2>9, <3>1 DEF IInv, Managed
      <4>2. Has("logical", mirror[i]) \in Views("logical", c, i, seen)
        BY <1>1, <1>4, <2>3, <2>4, <4>1, EndsFresh DEF Wanted
      <4>3. PICK e \in seen : c \in DOMAIN e /\ m.logical = Logical(e[c])
        BY <1>4, <4>2 DEF Has, Views, View
      <4>4. Logical(e[c]) \in Nat
        <5>1. e[c].mode \in Nat \ {0} /\ e[c].scale \in Nat \ {0}
          BY <4>3, PointerAssumption DEF FInv, Sizes
        <5> QED BY <5>1 DEF Logical
      <4>5. m.logical # None
        BY <4>3, <4>4, PointerAssumption
      <4>6. o.width = Logical(e[c]) /\ e[c] \in had
        BY <1>3, <2>1, <2>6, <4>3, <4>5
      <4> QED BY <3>1, <4>6
    <3>2. CASE ~offered
      <4>1. Attached = {}
        BY <3>2 DEF IInv, Managed
      <4>2. m.logical = None
        BY <2>1, <4>1 DEF FInv, Partial
      <4>3. o.width = d[c].mode
        BY <1>3, <2>1, <2>5, <4>2
      <4> QED BY <2>7, <3>2, <4>3
    <3> QED BY <3>1, <3>2
  <2>11. (\E h \in had : h.id = o.id) /\ (\E h \in had : o.scale = h.scale)
    BY <2>5, <2>6, <2>7, <2>8
  <2> QED BY <2>10, <2>11 DEF AsSeen
<1> QED BY <1>6, <1>7

LEMMA ListEnds ==
    ASSUME IInv, MInv, FInv, [Next]_vars, task.op = "list", task'.op = "idle" PROVE Reply
<1>1. task' # task
  OBVIOUS
<1>2. ~DesktopChanges /\ ~Handle /\ ~Read /\ ~UNCHANGED vars
  BY <1>1 DEF DesktopChanges, Handle, Read, vars, worker
<1>3. ~Start /\ ~Issue
  BY DEF Start, Fixup, CreateObjects, Ready, Issue
<1> QED BY <1>2, <1>3 DEF Next

\* However many outputs and changes there are, a list has every output that was
\* known when it was asked for and stayed plugged in, and what it says of the
\* outputs that were never pulled out was so during the call.
THEOREM ListsAreFresh == Spec => OutputsFresh
<1>1. IInv /\ MInv /\ FInv /\ [Next]_vars =>
        [ (task.op = "list" /\ task'.op = "idle") =>
            /\ \A i \in task.known : Plugged(i) => \E o \in Listing : o.id = i
            /\ \A o \in Listing : o.name \in loose \/ AsSeen(o) ]_vars
  BY ListEnds, RowsFresh
<1>2. Spec => [](IInv /\ MInv /\ FInv)
  BY InitKeeps, StepKeeps, InitMoves, StepMoves, InitLists, StepLists, PTL DEF Spec
<1> QED BY <1>1, <1>2, PTL DEF Spec, OutputsFresh
==============================================================================
