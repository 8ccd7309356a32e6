-------------------------- MODULE LibeiDevicesProofs --------------------------
(***************************************************************************)
(* Proofs about LibeiDevices: the slots follow the server, a backend that  *)
(* is ready has a device, callers that hold nothing leave nothing down,    *)
(* and clients read what was asked for.                                    *)
(***************************************************************************)
EXTENDS LibeiDevices, WellFoundedInduction, SequenceTheorems, TLAPS

Kinds == {"added", "resumed", "paused", "removed", "disconnected"}

Typed ==
    /\ status \in [Devices -> {"new", "paused", "resumed", "removed"}]
    /\ offered \in Seq(Devices)
    /\ wire \in Seq([kind : Kinds, dev : Devices \cup {None}])
    /\ slot \in [Slots -> Devices \cup {None}]

\* A device is offered once.
OfferedOnce ==
    /\ \A i, j \in DOMAIN offered : offered[i] = offered[j] => i = j
    /\ \A i \in DOMAIN offered : status[offered[i]] # "new"
    /\ \A d \in Devices : status[d] # "new" => \E i \in DOMAIN offered : offered[i] = d

\* An event of d is on the wire.
On(kind, d) == \E p \in DOMAIN wire : wire[p].kind = kind /\ wire[p].dev = d

\* The wire speaks of devices that were offered: of each first that it was
\* added, and last that it was removed.
WireInOrder ==
    /\ \A p \in DOMAIN wire : wire[p].kind # "disconnected" => wire[p].dev \in Devices
    /\ \A p \in DOMAIN wire : wire[p].dev \in Devices => status[wire[p].dev] # "new"
    /\ \A p \in DOMAIN wire : wire[p].kind = "removed" => status[wire[p].dev] = "removed"
    /\ \A p, q \in DOMAIN wire :
          (p < q /\ (wire[q].kind = "added" \/ wire[p].kind = "removed"))
              => wire[p].dev # wire[q].dev

\* The devices are added in the order in which they were offered.
AddedInOrder ==
    /\ \A i, j \in DOMAIN offered :
          (i < j /\ On("added", offered[i])) => On("added", offered[j])
    /\ \A p, q \in DOMAIN wire : \A i, j \in DOMAIN offered :
          (/\ p < q /\ wire[p].kind = "added" /\ wire[q].kind = "added"
           /\ offered[i] = wire[p].dev /\ offered[j] = wire[q].dev) => i < j

\* Of the devices that the dispatcher knows of, number i is the newest of a kind.
Latest(s, i) ==
    /\ i \in DOMAIN offered /\ s \in Caps[offered[i]]
    /\ ~On("added", offered[i])
    /\ \A j \in DOMAIN offered : (j > i /\ s \in Caps[offered[j]]) => On("added", offered[j])

\* The dispatcher knows that a device is gone.
Gone(d) == status[d] = "removed" /\ ~On("removed", d)

\* As long as the link is up, the slots are what the events handled make them.
SlotsKnown ==
    link = "up" =>
        /\ \A d \in Devices : On("added", d) => ~Gone(d)
        /\ \A s \in Slots : slot[s] = None =>
              \A i \in DOMAIN offered : Latest(s, i) => Gone(offered[i])
        /\ \A s \in Slots : slot[s] # None =>
              \E i \in DOMAIN offered :
                  Latest(s, i) /\ slot[s] = offered[i] /\ ~Gone(offered[i])

\* A device that is about to resume has the slots that no newer one took.
ResumedHasSlots ==
    \A s \in Slots, i \in DOMAIN offered :
        (On("resumed", offered[i]) /\ Latest(s, i)) => slot[s] = offered[i]

KeymapFollows ==
    (slot["keyboard"] # None /\ Layout[slot["keyboard"]] \in Usable)
        => keymap = Layout[slot["keyboard"]]

Inv == /\ Typed /\ OfferedOnce /\ WireInOrder /\ AddedInOrder
       /\ SlotsKnown /\ ResumedHasSlots /\ KeymapFollows

------------------------------------------------------------------------------
(* What sending an event does to the wire, and what handling one does.     *)

LEMMA Sent ==
    ASSUME Typed, NEW kind \in Kinds, NEW d \in Devices \cup {None},
           wire' = Append(wire, [kind |-> kind, dev |-> d])
    PROVE  /\ wire' \in Seq([kind : Kinds, dev : Devices \cup {None}])
           /\ Len(wire) \in Nat /\ DOMAIN wire = 1..Len(wire) /\ DOMAIN wire' = 1..(Len(wire) + 1)
           /\ \A p \in DOMAIN wire : wire'[p] = wire[p]
           /\ wire'[Len(wire) + 1] = [kind |-> kind, dev |-> d]
BY DEF Typed

LEMMA SentOn ==
    ASSUME Typed, NEW kind \in Kinds, NEW d \in Devices \cup {None},
           wire' = Append(wire, [kind |-> kind, dev |-> d]),
           NEW k \in Kinds, NEW e \in Devices \cup {None}
    PROVE  On(k, e)' <=> On(k, e) \/ (k = kind /\ e = d)
BY Sent DEF On

LEMMA Taken ==
    ASSUME Typed, wire # <<>>, wire' = Tail(wire)
    PROVE  /\ wire' \in Seq([kind : Kinds, dev : Devices \cup {None}])
           /\ DOMAIN wire = 1..Len(wire) /\ Len(wire) \in Nat \ {0}
           /\ DOMAIN wire' = 1..(Len(wire) - 1)
           /\ \A p \in DOMAIN wire' : p + 1 \in DOMAIN wire /\ wire'[p] = wire[p + 1]
           /\ Head(wire) = wire[1] /\ 1 \in DOMAIN wire
           /\ Head(wire) \in [kind : Kinds, dev : Devices \cup {None}]
<1> DEFINE Event == [kind : Kinds, dev : Devices \cup {None}]
<1>1. wire \in Seq(Event)
  BY DEF Typed
<1> HIDE DEF Event
<1>2. /\ wire' \in Seq(Event) /\ Len(wire) \in Nat \ {0} /\ Len(wire') = Len(wire) - 1
      /\ DOMAIN wire = 1..Len(wire)
      /\ \A p \in 1..Len(wire') : wire'[p] = wire[p + 1]
      /\ Head(wire) = wire[1] /\ Head(wire) \in Event
  BY <1>1
<1>3. DOMAIN wire' = 1..(Len(wire) - 1)
  BY <1>2
<1>4. \A p \in DOMAIN wire' : p + 1 \in DOMAIN wire /\ wire'[p] = wire[p + 1]
  BY <1>2, <1>3
<1>5. 1 \in DOMAIN wire
  BY <1>2
<1> QED BY <1>2, <1>3, <1>4, <1>5 DEF Event

LEMMA TakenOn ==
    ASSUME Typed, wire # <<>>, wire' = Tail(wire),
           NEW k \in Kinds, NEW e \in Devices \cup {None}
    PROVE  /\ On(k, e)' => On(k, e)
           /\ On(k, e) => On(k, e)' \/ (Head(wire).kind = k /\ Head(wire).dev = e)
<1>1. On(k, e)' => On(k, e)
  BY Taken DEF On
<1>2. ASSUME On(k, e), ~(Head(wire).kind = k /\ Head(wire).dev = e)
      PROVE  On(k, e)'
  <2>1. PICK p \in DOMAIN wire : wire[p].kind = k /\ wire[p].dev = e
    BY <1>2 DEF On
  <2>2. p > 1 /\ p - 1 \in DOMAIN wire'
    BY <1>2, <2>1, Taken
  <2>3. wire'[p - 1] = wire[p]
    <3>1. wire'[p - 1] = wire[(p - 1) + 1]
      BY <2>2, Taken
    <3>2. (p - 1) + 1 = p
      BY <2>1, Taken
    <3> QED BY <3>1, <3>2
  <2> QED BY <2>1, <2>2, <2>3 DEF On
<1> QED BY <1>1, <1>2

\* A device is added once, and a device whose removal is at the head of the
\* wire has been added, and nothing more of it follows.
LEMMA HeadIsOnly ==
    ASSUME Typed, WireInOrder, wire # <<>>, wire' = Tail(wire),
           NEW d \in Devices, Head(wire).dev = d
    PROVE  /\ Head(wire).kind = "added" => ~On("added", d)'
           /\ Head(wire).kind # "added" => ~On("added", d)
           /\ Head(wire).kind = "removed" => \A k \in Kinds : ~On(k, d)'
<1>1. \A p \in DOMAIN wire' : p + 1 \in DOMAIN wire /\ 1 \in DOMAIN wire /\ 1 < p + 1
                             /\ wire'[p] = wire[p + 1] /\ Head(wire) = wire[1]
  BY Taken
<1>2. \A p \in DOMAIN wire' : Head(wire).kind = "removed" \/ wire'[p].kind = "added"
         => wire'[p].dev # d
  BY <1>1 DEF WireInOrder
<1>3. ~On("added", d)'
  BY <1>2 DEF On
<1>4. Head(wire).kind = "removed" => \A k \in Kinds : ~On(k, d)'
  BY <1>2 DEF On
<1>5. Head(wire).kind # "added" => ~On("added", d)
  BY <1>3, TakenOn DEF Kinds
<1> QED BY <1>3, <1>4, <1>5

------------------------------------------------------------------------------
(* The steps of the server.                                                *)

\* A new device is offered: the last in line.
LEMMA OfferKeeps == ASSUME Inv, NEW d \in Devices, Offer(d) PROVE Inv'
<1> USE DEF Inv
<1>1. /\ status[d] = "new" /\ status' = [status EXCEPT ![d] = "paused"]
      /\ offered' = Append(offered, d) /\ link = "up" /\ link' = "up"
      /\ wire' = Append(wire, [kind |-> "added", dev |-> d])
      /\ slot' = slot /\ keymap' = keymap
  BY DEF Offer, Send, state
<1>2. \A k \in Kinds, e \in Devices \cup {None} :
         On(k, e)' <=> On(k, e) \/ (k = "added" /\ e = d)
  BY <1>1, SentOn DEF Kinds
<1>3. /\ offered' \in Seq(Devices) /\ Len(offered) \in Nat
      /\ DOMAIN offered = 1..Len(offered) /\ DOMAIN offered' = 1..(Len(offered) + 1)
      /\ \A i \in DOMAIN offered : offered'[i] = offered[i] /\ offered[i] \in Devices
      /\ offered'[Len(offered) + 1] = d
  BY <1>1 DEF Typed
<1>4. \A i \in DOMAIN offered : offered[i] # d
  BY <1>1 DEF OfferedOnce
<1>5. /\ \A p \in DOMAIN wire : wire'[p] = wire[p] /\ wire[p].dev # d
      /\ DOMAIN wire = 1..Len(wire) /\ DOMAIN wire' = 1..(Len(wire) + 1) /\ Len(wire) \in Nat
      /\ wire'[Len(wire) + 1] = [kind |-> "added", dev |-> d]
  BY <1>1, Sent DEF WireInOrder, Kinds
<1>6. Typed'
  BY <1>1, <1>3, Sent DEF Typed, Kinds
<1>7. OfferedOnce'
  <2>1. \A i, j \in DOMAIN offered' : offered'[i] = offered'[j] => i = j
    BY <1>3, <1>4 DEF OfferedOnce
  <2>2. \A i \in DOMAIN offered' : status'[offered'[i]] # "new"
    BY <1>1, <1>3, <1>4 DEF OfferedOnce, Typed
  <2>3. \A e \in Devices : status'[e] # "new" => \E i \in DOMAIN offered' : offered'[i] = e
    BY <1>1, <1>3 DEF OfferedOnce, Typed
  <2> QED BY <2>1, <2>2, <2>3 DEF OfferedOnce
<1>8. WireInOrder'
  <2>1. \A p \in DOMAIN wire' :
           /\ wire'[p].kind # "disconnected" => wire'[p].dev \in Devices
           /\ wire'[p].dev \in Devices => status'[wire'[p].dev] # "new"
           /\ wire'[p].kind = "removed" => status'[wire'[p].dev] = "removed"
    BY <1>1, <1>5 DEF WireInOrder, Typed
  <2>2. \A p, q \in DOMAIN wire' :
           (p < q /\ (wire'[q].kind = "added" \/ wire'[p].kind = "removed"))
               => wire'[p].dev # wire'[q].dev
    BY <1>5 DEF WireInOrder
  <2> QED BY <2>1, <2>2 DEF WireInOrder
<1>9. AddedInOrder'
  <2>1. \A i, j \in DOMAIN offered' :
           (i < j /\ On("added", offered[i])') => On("added", offered[j])'
    BY <1>2, <1>3, <1>4 DEF AddedInOrder, Kinds
  <2>2. ASSUME NEW p \in DOMAIN wire', NEW q \in DOMAIN wire',
               NEW i \in DOMAIN offered', NEW j \in DOMAIN offered',
               p < q, wire'[p].kind = "added", wire'[q].kind = "added",
               offered'[i] = wire'[p].dev, offered'[j] = wire'[q].dev
        PROVE  i < j
    <3>1. p \in DOMAIN wire /\ i \in DOMAIN offered
      BY <1>3, <1>5, <2>2
    <3>2. CASE q \in DOMAIN wire
      BY <1>3, <1>5, <2>2, <3>1, <3>2 DEF AddedInOrder
    <3>3. CASE q \notin DOMAIN wire
      BY <1>3, <1>4, <1>5, <2>2, <3>1, <3>3
    <3> QED BY <3>2, <3>3
  <2> QED BY <2>1, <2>2 DEF AddedInOrder
<1>10. \A s \in Slots, i \in DOMAIN offered' :
          Latest(s, i)' => i \in DOMAIN offered /\ Latest(s, i)
  BY <1>2, <1>3, <1>4 DEF Latest, Kinds
<1>11. \A s \in Slots, i \in DOMAIN offered : Latest(s, i) => Latest(s, i)'
  BY <1>2, <1>3, <1>4 DEF Latest, Kinds
<1>12. \A e \in Devices : e # d => (Gone(e)' <=> Gone(e))
  BY <1>1, <1>2 DEF Gone, Typed, Kinds
<1>13. ~Gone(d)'
  BY <1>1 DEF Gone, Typed
<1>14. SlotsKnown'
  <2>1. \A e \in Devices : On("added", e)' => ~Gone(e)'
    BY <1>1, <1>2, <1>12, <1>13 DEF SlotsKnown, Kinds
  <2>2. ASSUME NEW s \in Slots, slot'[s] = None, NEW i \in DOMAIN offered', Latest(s, i)'
        PROVE  Gone(offered[i])'
    BY <1>1, <1>3, <1>4, <1>10, <1>12, <2>2 DEF SlotsKnown
  <2>3. ASSUME NEW s \in Slots, slot'[s] # None
        PROVE  \E i \in DOMAIN offered' :
                  Latest(s, i)' /\ slot'[s] = offered'[i] /\ ~Gone(offered[i])'
    <3>1. PICK i \in DOMAIN offered :
             Latest(s, i) /\ slot[s] = offered[i] /\ ~Gone(offered[i])
      BY <1>1, <2>3 DEF SlotsKnown
    <3>2. i \in DOMAIN offered' /\ offered'[i] = offered[i] /\ offered[i] \in Devices
      BY <1>3, <3>1
    <3>3. ~Gone(offered[i])'
      BY <1>4, <1>12, <3>1, <3>2
    <3> QED BY <1>1, <1>11, <3>1, <3>2, <3>3
  <2> QED BY <2>1, <2>2, <2>3 DEF SlotsKnown
<1>15. ResumedHasSlots'
  BY <1>1, <1>2, <1>3, <1>10 DEF ResumedHasSlots, Kinds
<1>16. KeymapFollows'
  BY <1>1 DEF KeymapFollows
<1> QED BY <1>6, <1>7, <1>8, <1>9, <1>14, <1>15, <1>16

\* The newest device known of a kind is but one.
LEMMA LatestOnce ==
    ASSUME Typed, NEW s \in Slots, NEW i \in DOMAIN offered, NEW j \in DOMAIN offered,
           Latest(s, i), Latest(s, j)
    PROVE  i = j
<1>1. i \in Nat /\ j \in Nat
  BY DEF Typed
<1> QED BY <1>1 DEF Latest

\* A device that was offered and is not gone resumes, pauses or goes.
LEMMA TellKeeps ==
    ASSUME Inv, NEW d \in Devices, NEW kind \in {"resumed", "paused", "removed"},
           status[d] \in {"paused", "resumed"}, status' = [status EXCEPT ![d] = kind],
           wire' = Append(wire, [kind |-> kind, dev |-> d]), link = "up",
           UNCHANGED <<offered, link, slot, keymap>>
    PROVE  Inv'
<1> USE DEF Inv
<1>1. \A k \in Kinds, e \in Devices \cup {None} :
         On(k, e)' <=> On(k, e) \/ (k = kind /\ e = d)
  BY SentOn DEF Kinds
<1>2. /\ \A p \in DOMAIN wire : wire'[p] = wire[p]
      /\ DOMAIN wire = 1..Len(wire) /\ DOMAIN wire' = 1..(Len(wire) + 1) /\ Len(wire) \in Nat
      /\ wire'[Len(wire) + 1] = [kind |-> kind, dev |-> d]
  BY Sent DEF Kinds
<1>3. /\ \A i \in DOMAIN offered : offered[i] \in Devices
      /\ \A e \in Devices : status'[e] = IF e = d THEN kind ELSE status[e]
  BY DEF Typed
<1>4. Typed'
  BY Sent DEF Typed, Kinds
<1>5. OfferedOnce'
  BY <1>3 DEF OfferedOnce
<1>6. WireInOrder'
  <2>1. \A p \in DOMAIN wire' :
           /\ wire'[p].kind # "disconnected" => wire'[p].dev \in Devices
           /\ wire'[p].dev \in Devices => status'[wire'[p].dev] # "new"
           /\ wire'[p].kind = "removed" => status'[wire'[p].dev] = "removed"
    BY <1>2, <1>3 DEF WireInOrder
  <2>2. \A p, q \in DOMAIN wire' :
           (p < q /\ (wire'[q].kind = "added" \/ wire'[p].kind = "removed"))
               => wire'[p].dev # wire'[q].dev
    BY <1>2 DEF WireInOrder
  <2> QED BY <2>1, <2>2 DEF WireInOrder
<1>7. AddedInOrder'
  <2>1. \A i, j \in DOMAIN offered :
           (i < j /\ On("added", offered[i])') => On("added", offered[j])'
    BY <1>1, <1>3 DEF AddedInOrder, Kinds
  <2>2. \A p, q \in DOMAIN wire' : \A i, j \in DOMAIN offered :
           (/\ p < q /\ wire'[p].kind = "added" /\ wire'[q].kind = "added"
            /\ offered[i] = wire'[p].dev /\ offered[j] = wire'[q].dev) => i < j
    BY <1>2 DEF AddedInOrder
  <2> QED BY <2>1, <2>2 DEF AddedInOrder
<1>8. \A s \in Slots, i \in DOMAIN offered : Latest(s, i)' <=> Latest(s, i)
  BY <1>1, <1>3 DEF Latest, Kinds
<1>9. /\ \A e \in Devices : e # d => (Gone(e)' <=> Gone(e))
      /\ ~Gone(d) /\ ~Gone(d)'
  BY <1>1, <1>3 DEF Gone, Kinds
<1>10. SlotsKnown'
  <2>1. \A e \in Devices : On("added", e)' => ~Gone(e)'
    BY <1>1, <1>9 DEF SlotsKnown, Kinds
  <2>2. ASSUME NEW s \in Slots, slot'[s] = None, NEW i \in DOMAIN offered', Latest(s, i)'
        PROVE  Gone(offered[i])'
    BY <1>3, <1>8, <1>9, <2>2 DEF SlotsKnown
  <2>3. ASSUME NEW s \in Slots, slot'[s] # None
        PROVE  \E i \in DOMAIN offered' :
                  Latest(s, i)' /\ slot'[s] = offered'[i] /\ ~Gone(offered[i])'
    BY <1>3, <1>8, <1>9, <2>3 DEF SlotsKnown
  <2> QED BY <2>1, <2>2, <2>3 DEF SlotsKnown
<1>11. ResumedHasSlots'
  <2>1. ASSUME NEW s \in Slots, NEW i \in DOMAIN offered, On("resumed", offered[i])', Latest(s, i)
        PROVE  slot[s] = offered[i]
    <3>1. CASE On("resumed", offered[i])
      BY <2>1, <3>1 DEF ResumedHasSlots
    <3>2. CASE offered[i] = d
      <4>1. slot[s] # None
        BY <1>9, <2>1, <3>2 DEF SlotsKnown
      <4>2. PICK j \in DOMAIN offered : Latest(s, j) /\ slot[s] = offered[j]
        BY <4>1 DEF SlotsKnown
      <4> QED BY <2>1, <4>2, LatestOnce
    <3> QED BY <1>1, <1>3, <2>1, <3>1, <3>2 DEF Kinds
  <2> QED BY <1>8, <2>1 DEF ResumedHasSlots
<1>12. KeymapFollows'
  BY DEF KeymapFollows
<1> QED BY <1>4, <1>5, <1>6, <1>7, <1>10, <1>11, <1>12

\* The server hangs up: from now on only what is on the wire is to come.
LEMMA HangUpKeeps == ASSUME Inv, HangUp PROVE Inv'
<1> USE DEF Inv
<1>1. /\ link' = "down" /\ UNCHANGED <<offered, slot, keymap>>
      /\ status' = [d \in Devices |-> IF status[d] = "new" THEN "new" ELSE "removed"]
      /\ wire' = Append(wire, [kind |-> "disconnected", dev |-> None])
  BY DEF HangUp, state
<1>2. \A k \in Kinds, e \in Devices : On(k, e)' <=> On(k, e)
  BY <1>1, SentOn, DevicesAssumption DEF Kinds
<1>3. /\ \A p \in DOMAIN wire : wire'[p] = wire[p]
      /\ DOMAIN wire = 1..Len(wire) /\ DOMAIN wire' = 1..(Len(wire) + 1) /\ Len(wire) \in Nat
      /\ wire'[Len(wire) + 1] = [kind |-> "disconnected", dev |-> None]
  BY <1>1, Sent DEF Kinds
<1>4. /\ \A i \in DOMAIN offered : offered[i] \in Devices
      /\ \A e \in Devices : status'[e] = IF status[e] = "new" THEN "new" ELSE "removed"
  BY <1>1 DEF Typed
<1>5. Typed'
  BY <1>1, Sent DEF Typed, Kinds
<1>6. OfferedOnce'
  BY <1>1, <1>4 DEF OfferedOnce
<1>7. WireInOrder'
  <2>1. \A p \in DOMAIN wire' :
           /\ wire'[p].kind # "disconnected" => wire'[p].dev \in Devices
           /\ wire'[p].dev \in Devices => status'[wire'[p].dev] # "new"
           /\ wire'[p].kind = "removed" => status'[wire'[p].dev] = "removed"
    BY <1>3, <1>4, DevicesAssumption DEF WireInOrder
  <2>2. \A p, q \in DOMAIN wire' :
           (p < q /\ (wire'[q].kind = "added" \/ wire'[p].kind = "removed"))
               => wire'[p].dev # wire'[q].dev
    BY <1>3, DevicesAssumption DEF WireInOrder
  <2> QED BY <2>1, <2>2 DEF WireInOrder
<1>8. AddedInOrder'
  <2>1. \A i, j \in DOMAIN offered :
           (i < j /\ On("added", offered[i])') => On("added", offered[j])'
    BY <1>1, <1>2, <1>4 DEF AddedInOrder, Kinds
  <2>2. \A p, q \in DOMAIN wire' : \A i, j \in DOMAIN offered :
           (/\ p < q /\ wire'[p].kind = "added" /\ wire'[q].kind = "added"
            /\ offered[i] = wire'[p].dev /\ offered[j] = wire'[q].dev) => i < j
    BY <1>3 DEF AddedInOrder
  <2> QED BY <1>1, <2>1, <2>2 DEF AddedInOrder
<1>9. \A s \in Slots, i \in DOMAIN offered : Latest(s, i)' <=> Latest(s, i)
  BY <1>1, <1>2, <1>4 DEF Latest, Kinds
<1>10. SlotsKnown'
  BY <1>1 DEF SlotsKnown
<1>11. ResumedHasSlots'
  BY <1>1, <1>2, <1>4, <1>9 DEF ResumedHasSlots, Kinds
<1>12. KeymapFollows'
  BY <1>1 DEF KeymapFollows
<1> QED BY <1>5, <1>6, <1>7, <1>8, <1>10, <1>11, <1>12
------------------------------------------------------------------------------
(* The dispatcher.                                                         *)

\* Whatever is at the head of the wire, taking it leaves the rest in order.
LEMMA OrderKeeps ==
    ASSUME Inv, wire # <<>>, wire' = Tail(wire), UNCHANGED <<status, offered, link>>
    PROVE  OfferedOnce' /\ WireInOrder' /\ AddedInOrder'
<1> USE DEF Inv
<1>1. \A p \in DOMAIN wire' : /\ p + 1 \in DOMAIN wire /\ 1 \in DOMAIN wire /\ p \in Nat /\ 1 < p + 1
                              /\ wire'[p] = wire[p + 1] /\ Head(wire) = wire[1]
  BY Taken
<1>2. OfferedOnce'
  BY DEF OfferedOnce
<1>3. WireInOrder'
  <2>1. \A p \in DOMAIN wire' :
           /\ wire'[p].kind # "disconnected" => wire'[p].dev \in Devices
           /\ wire'[p].dev \in Devices => status'[wire'[p].dev] # "new"
           /\ wire'[p].kind = "removed" => status'[wire'[p].dev] = "removed"
    BY <1>1 DEF WireInOrder
  <2>2. \A p, q \in DOMAIN wire' :
           (p < q /\ (wire'[q].kind = "added" \/ wire'[p].kind = "removed"))
               => wire'[p].dev # wire'[q].dev
    BY <1>1 DEF WireInOrder
  <2> QED BY <2>1, <2>2 DEF WireInOrder
<1>4. AddedInOrder'
  <2>1. ASSUME NEW i \in DOMAIN offered, NEW j \in DOMAIN offered, i < j, On("added", offered[i])'
        PROVE  On("added", offered[j])'
    <3>1. offered[i] \in Devices /\ offered[j] \in Devices /\ i \in Nat /\ j \in Nat
      BY DEF Typed
    <3>2. PICK p \in DOMAIN wire' : wire'[p].kind = "added" /\ wire'[p].dev = offered[i]
      BY <2>1 DEF On
    <3>3. On("added", offered[i])
      BY <1>1, <3>2 DEF On
    <3>4. On("added", offered[j])
      BY <2>1, <3>3 DEF AddedInOrder
    <3>5. ~(Head(wire).kind = "added" /\ Head(wire).dev = offered[j])
      BY <1>1, <2>1, <3>1, <3>2 DEF AddedInOrder
    <3>6. PICK q \in DOMAIN wire : wire[q].kind = "added" /\ wire[q].dev = offered[j]
      BY <3>4 DEF On
    <3>7. q - 1 \in DOMAIN wire' /\ (q - 1) + 1 = q
      BY <3>5, <3>6, Taken
    <3>8. wire'[q - 1] = wire[q]
      BY <1>1, <3>7
    <3> QED BY <3>6, <3>7, <3>8 DEF On
  <2>2. \A p, q \in DOMAIN wire' : \A i, j \in DOMAIN offered :
          (/\ p < q /\ wire'[p].kind = "added" /\ wire'[q].kind = "added"
           /\ offered[i] = wire'[p].dev /\ offered[j] = wire'[q].dev) => i < j
    BY <1>1 DEF AddedInOrder
  <2> QED BY <2>1, <2>2 DEF AddedInOrder
<1> QED BY <1>2, <1>3, <1>4

\* Resumed, paused and disconnected leave the slots as they are.
LEMMA PassKeeps ==
    ASSUME Inv, wire # <<>>, wire' = Tail(wire),
           Head(wire).kind \in {"resumed", "paused", "disconnected"},
           UNCHANGED <<status, offered, link, slot, keymap>>
    PROVE  Inv'
<1> USE DEF Inv
<1>1. /\ \A e \in Devices : On("added", e)' <=> On("added", e)
      /\ \A e \in Devices : On("removed", e)' <=> On("removed", e)
      /\ \A e \in Devices : On("resumed", e)' => On("resumed", e)
  BY TakenOn DEF Kinds
<1>2. \A i \in DOMAIN offered : offered[i] \in Devices
  BY DEF Typed
<1>3. Typed'
  BY Taken DEF Typed
<1>4. \A s \in Slots, i \in DOMAIN offered : Latest(s, i)' <=> Latest(s, i)
  BY <1>1, <1>2 DEF Latest
<1>5. \A e \in Devices : Gone(e)' <=> Gone(e)
  BY <1>1 DEF Gone
<1>6. SlotsKnown'
  <2>1. ASSUME link = "up", NEW e \in Devices, On("added", e)' PROVE ~Gone(e)'
    BY <1>1, <1>5, <2>1 DEF SlotsKnown
  <2>2. ASSUME link = "up", NEW s \in Slots, slot[s] = None, NEW i \in DOMAIN offered, Latest(s, i)'
        PROVE  Gone(offered[i])'
    BY <1>2, <1>4, <1>5, <2>2 DEF SlotsKnown
  <2>3. ASSUME link = "up", NEW s \in Slots, slot[s] # None
        PROVE  \E i \in DOMAIN offered : Latest(s, i)' /\ slot[s] = offered[i] /\ ~Gone(offered[i])'
    <3>1. PICK i \in DOMAIN offered : Latest(s, i) /\ slot[s] = offered[i] /\ ~Gone(offered[i])
      BY <2>3 DEF SlotsKnown
    <3>2. ~Gone(offered[i])'
      BY <1>2, <1>5, <3>1
    <3> QED BY <1>4, <3>1, <3>2
  <2> QED BY <2>1, <2>2, <2>3 DEF SlotsKnown
<1>7. ResumedHasSlots'
  BY <1>1, <1>2, <1>4 DEF ResumedHasSlots
<1>8. KeymapFollows'
  BY DEF KeymapFollows
<1> QED BY <1>3, <1>6, <1>7, <1>8, OrderKeeps

\* A device is added: it is the latest of each of its kinds, and has the slots.
LEMMA AddedKeeps ==
    ASSUME Inv, wire # <<>>, wire' = Tail(wire), Head(wire).kind = "added",
           NEW d \in Devices, Head(wire).dev = d,
           slot' = Filled(d), keymap' = IF "keyboard" \in Caps[d] THEN Loaded(d) ELSE keymap,
           UNCHANGED <<status, offered, link>>
    PROVE  Inv'
<1> USE DEF Inv
<1>1. /\ On("added", d) /\ ~On("added", d)'
      /\ \A e \in Devices : e # d => (On("added", e)' <=> On("added", e))
      /\ \A e \in Devices : On("removed", e)' <=> On("removed", e)
      /\ \A e \in Devices : On("resumed", e)' => On("resumed", e)
  BY Taken, TakenOn, HeadIsOnly DEF Kinds, On
<1>2. \A i \in DOMAIN offered : offered[i] \in Devices /\ i \in Nat
  BY DEF Typed
<1>3. \A s \in Slots : slot'[s] = IF s \in Caps[d] THEN d ELSE slot[s]
  BY DEF Filled
<1>4. Typed'
  <2>1. slot' \in [Slots -> Devices \cup {None}]
    BY DEF Filled, Typed
  <2> QED BY <2>1, Taken DEF Typed
<1>5. PICK n \in DOMAIN offered : offered[n] = d
  <2>1. status[d] # "new"
    BY Taken DEF WireInOrder
  <2> QED BY <2>1 DEF OfferedOnce
<1>6. \A i \in DOMAIN offered : i > n => offered[i] # d /\ On("added", offered[i])
  BY <1>1, <1>2, <1>5 DEF AddedInOrder, OfferedOnce
<1>7. ASSUME NEW s \in Slots, s \in Caps[d], NEW i \in DOMAIN offered
      PROVE  Latest(s, i)' <=> i = n
  <2>1. ASSUME Latest(s, i)' PROVE i = n
    <3>1. ~(i < n)
      BY <1>1, <1>2, <1>5, <1>7, <2>1 DEF Latest
    <3>2. ~(i > n)
      BY <1>1, <1>2, <1>6, <2>1 DEF Latest
    <3> QED BY <1>2, <3>1, <3>2
  <2>2. Latest(s, n)'
    BY <1>1, <1>2, <1>5, <1>6, <1>7 DEF Latest
  <2> QED BY <2>1, <2>2
<1>8. ASSUME NEW s \in Slots, s \notin Caps[d], NEW i \in DOMAIN offered
      PROVE  Latest(s, i)' <=> Latest(s, i)
  BY <1>1, <1>2, <1>8 DEF Latest
<1>9. \A e \in Devices : Gone(e)' <=> Gone(e)
  BY <1>1 DEF Gone
<1>10. d # None
  BY DevicesAssumption
<1>11. SlotsKnown'
  <2>1. ASSUME link = "up", NEW e \in Devices, On("added", e)' PROVE ~Gone(e)'
    BY <1>1, <1>9, <2>1 DEF SlotsKnown
  <2>2. ASSUME link = "up", NEW s \in Slots, slot'[s] = None, NEW i \in DOMAIN offered, Latest(s, i)'
        PROVE  Gone(offered[i])'
    <3>1. s \notin Caps[d] /\ slot[s] = None
      BY <1>3, <1>10, <2>2
    <3> QED BY <1>2, <1>8, <1>9, <2>2, <3>1 DEF SlotsKnown
  <2>3. ASSUME link = "up", NEW s \in Slots, slot'[s] # None
        PROVE  \E i \in DOMAIN offered : Latest(s, i)' /\ slot'[s] = offered[i] /\ ~Gone(offered[i])'
    <3>1. CASE s \in Caps[d]
      <4>1. ~Gone(d)
        BY <1>1, <2>3 DEF SlotsKnown
      <4>2. ~Gone(offered[n])'
        BY <1>2, <1>5, <1>9, <4>1
      <4> QED BY <1>3, <1>5, <1>7, <3>1, <4>2
    <3>2. CASE s \notin Caps[d]
      <4>1. PICK i \in DOMAIN offered : Latest(s, i) /\ slot[s] = offered[i] /\ ~Gone(offered[i])
        BY <1>3, <2>3, <3>2 DEF SlotsKnown
      <4>2. ~Gone(offered[i])'
        BY <1>2, <1>9, <4>1
      <4> QED BY <1>3, <1>8, <3>2, <4>1, <4>2
    <3> QED BY <3>1, <3>2
  <2> QED BY <2>1, <2>2, <2>3 DEF SlotsKnown
<1>12. ResumedHasSlots'
  BY <1>1, <1>2, <1>3, <1>5, <1>7, <1>8 DEF ResumedHasSlots
<1>13. KeymapFollows'
  <2>1. CASE "keyboard" \in Caps[d]
    BY <1>3, <2>1 DEF KeymapFollows, Loaded, Slots
  <2>2. CASE "keyboard" \notin Caps[d]
    BY <1>3, <2>2 DEF KeymapFollows, Slots
  <2> QED BY <2>1, <2>2
<1> QED BY <1>4, <1>11, <1>12, <1>13, OrderKeeps

\* A device is removed: its slots are empty, and nothing more is heard of it.
LEMMA RemovedKeeps ==
    ASSUME Inv, wire # <<>>, wire' = Tail(wire), Head(wire).kind = "removed",
           NEW d \in Devices, Head(wire).dev = d,
           slot' = Emptied(d), UNCHANGED <<status, offered, link, keymap>>
    PROVE  Inv'
<1> USE DEF Inv
<1>1. /\ ~On("added", d) /\ ~On("resumed", d)' /\ ~On("removed", d)'
      /\ \A e \in Devices : On("added", e)' <=> On("added", e)
      /\ \A e \in Devices : e # d => (On("removed", e)' <=> On("removed", e))
      /\ \A e \in Devices : On("resumed", e)' => On("resumed", e)
  BY TakenOn, HeadIsOnly DEF Kinds
<1>2. \A i \in DOMAIN offered : offered[i] \in Devices
  BY DEF Typed
<1>3. \A s \in Slots : slot'[s] = IF slot[s] = d THEN None ELSE slot[s]
  BY DEF Emptied
<1>4. Typed'
  <2>1. slot' \in [Slots -> Devices \cup {None}]
    BY DEF Emptied, Typed
  <2> QED BY <2>1, Taken DEF Typed
<1>5. \A s \in Slots, i \in DOMAIN offered : Latest(s, i)' <=> Latest(s, i)
  BY <1>1, <1>2 DEF Latest
<1>6. Gone(d)'
  BY <1>1, Taken DEF Gone, WireInOrder
<1>7. \A e \in Devices : e # d => (Gone(e)' <=> Gone(e))
  BY <1>1 DEF Gone
<1>8. SlotsKnown'
  <2>1. ASSUME link = "up", NEW e \in Devices, On("added", e)' PROVE ~Gone(e)'
    BY <1>1, <1>7, <2>1 DEF SlotsKnown
  <2>2. ASSUME link = "up", NEW s \in Slots, slot'[s] = None, NEW i \in DOMAIN offered, Latest(s, i)'
        PROVE  Gone(offered[i])'
    <3>1. Latest(s, i) /\ offered[i] \in Devices
      BY <1>2, <1>5, <2>2
    <3>2. CASE slot[s] = None
      <4>1. Gone(offered[i])
        BY <2>2, <3>1, <3>2 DEF SlotsKnown
      <4> QED BY <1>6, <1>7, <3>1, <4>1
    <3>3. CASE slot[s] # None
      <4>1. PICK j \in DOMAIN offered : Latest(s, j) /\ slot[s] = offered[j]
        BY <2>2, <3>3 DEF SlotsKnown
      <4>2. offered[i] = d
        BY <1>3, <2>2, <3>1, <3>3, <4>1, LatestOnce
      <4> QED BY <1>6, <4>2
    <3> QED BY <3>2, <3>3
  <2>3. ASSUME link = "up", NEW s \in Slots, slot'[s] # None
        PROVE  \E i \in DOMAIN offered : Latest(s, i)' /\ slot'[s] = offered[i] /\ ~Gone(offered[i])'
    <3>1. slot[s] # None /\ slot[s] # d /\ slot'[s] = slot[s]
      BY <1>3, <2>3
    <3>2. PICK i \in DOMAIN offered : Latest(s, i) /\ slot[s] = offered[i] /\ ~Gone(offered[i])
      BY <2>3, <3>1 DEF SlotsKnown
    <3>3. ~Gone(offered[i])'
      BY <1>2, <1>7, <3>1, <3>2
    <3> QED BY <1>5, <3>1, <3>2, <3>3
  <2> QED BY <2>1, <2>2, <2>3 DEF SlotsKnown
<1>9. ResumedHasSlots'
  BY <1>1, <1>2, <1>3, <1>5 DEF ResumedHasSlots
<1>10. KeymapFollows'
  <2>1. slot'["keyboard"] # None => slot'["keyboard"] = slot["keyboard"]
    BY <1>3 DEF Slots
  <2> QED BY <2>1 DEF KeymapFollows
<1> QED BY <1>4, <1>8, <1>9, <1>10, OrderKeeps

LEMMA HandleKeeps == ASSUME Inv, HandleEvent PROVE Inv'
<1> DEFINE e == Head(wire)
<1>1. /\ wire # <<>> /\ wire' = Tail(wire) /\ UNCHANGED <<status, offered, link>>
      /\ \/ e.kind = "added" /\ OnAdded(e.dev)
         \/ e.kind = "resumed" /\ OnResumed(e.dev)
         \/ e.kind = "removed" /\ OnRemoved(e.dev)
         \/ e.kind \in {"paused", "disconnected"} /\ OnOther(e.kind)
  BY DEF HandleEvent, server
<1>2. e.kind # "disconnected" => e.dev \in Devices
  BY <1>1, Taken DEF Inv, WireInOrder
<1>3. CASE e.kind = "added"
  BY <1>1, <1>2, <1>3, AddedKeeps DEF OnAdded
<1>4. CASE e.kind = "removed"
  BY <1>1, <1>2, <1>4, RemovedKeeps DEF OnRemoved
<1>5. CASE e.kind = "resumed"
  BY <1>1, <1>5, PassKeeps DEF OnResumed
<1>6. CASE e.kind \in {"paused", "disconnected"}
  BY <1>1, <1>6, PassKeeps DEF OnOther, state
<1> QED BY <1>1, <1>3, <1>4, <1>5, <1>6

------------------------------------------------------------------------------
(* The calls and the frames touch neither the slots nor the events.        *)

LEMMA Aside == ASSUME Inv, UNCHANGED <<server, wire, state>> PROVE Inv'
<1>1. UNCHANGED <<status, offered, link, wire, slot, keymap>>
  BY DEF server, state
<1>2. Typed' /\ OfferedOnce' /\ WireInOrder' /\ KeymapFollows'
  BY <1>1 DEF Inv, Typed, OfferedOnce, WireInOrder, KeymapFollows
<1>3. AddedInOrder' /\ ResumedHasSlots'
  BY <1>1 DEF Inv, AddedInOrder, ResumedHasSlots, On, Latest
<1>4. SlotsKnown'
  BY <1>1 DEF Inv, SlotsKnown, On, Latest, Gone
<1> QED BY <1>2, <1>3, <1>4 DEF Inv

LEMMA CallsAside == ASSUME NEW c \in Callers, Calls(c) PROVE UNCHANGED <<server, wire, state>>
<1>1. ASSUME NEW r \in Requests, BeginKey(c, r) PROVE UNCHANGED <<server, wire, state>>
  <2>1. ASSUME NEW t, NEW due, Begin(c, t, due) PROVE UNCHANGED <<server, wire, state>>
    BY <2>1 DEF Begin
  <2> QED BY <1>1, <2>1 DEF BeginKey
<1>2. ASSUME NEW r \in Requests, BeginText(c, r) PROVE UNCHANGED <<server, wire, state>>
  <2>1. ASSUME NEW t, NEW due, Begin(c, t, due) PROVE UNCHANGED <<server, wire, state>>
    BY <2>1 DEF Begin
  <2> QED BY <1>2, <2>1 DEF BeginText
<1>3. ASSUME NEW r \in Requests, Point(c, r) PROVE UNCHANGED <<server, wire, state>>
  BY <1>3 DEF Point
<1>4. FindShift(c) => UNCHANGED <<server, wire, state>>
  BY DEF FindShift
<1>5. EmitKey(c) => UNCHANGED <<server, wire, state>>
  BY DEF EmitKey
<1>6. NothingToEmit(c) => UNCHANGED <<server, wire, state>>
  BY DEF NothingToEmit
<1> QED BY <1>1, <1>2, <1>3, <1>4, <1>5, <1>6 DEF Calls

LEMMA StepKeeps == ASSUME Inv, [Next]_vars PROVE Inv'
<1>1. ASSUME NEW d \in Devices, Offer(d) PROVE Inv'
  BY <1>1, OfferKeeps
<1>2. ASSUME NEW d \in Devices, Resume(d) PROVE Inv'
  BY <1>2, TellKeeps DEF Resume, Send, state
<1>3. ASSUME NEW d \in Devices, NEW kind \in {"paused", "removed"}, Withdraw(d, kind) PROVE Inv'
  BY <1>3, TellKeeps DEF Withdraw, Send, state
<1>4. CASE HangUp
  BY <1>4, HangUpKeeps
<1>5. CASE ReadFrame
  BY <1>5, Aside DEF ReadFrame
<1>6. CASE HandleEvent
  BY <1>6, HandleKeeps
<1>7. CASE TimeOut
  BY <1>7, Aside DEF TimeOut
<1>8. CASE \E c \in Callers : Calls(c)
  BY <1>8, CallsAside, Aside
<1>9. CASE UNCHANGED vars
  BY <1>9, Aside DEF vars
<1> QED BY <1>1, <1>2, <1>3, <1>4, <1>5, <1>6, <1>7, <1>8, <1>9 DEF Next, Server

LEMMA InitHolds == Init => Inv
<1> SUFFICES ASSUME Init PROVE Inv
  OBVIOUS
<1>1. /\ status = [d \in Devices |-> "new"] /\ offered = <<>> /\ wire = <<>>
      /\ slot = [s \in Slots |-> None] /\ keymap = None
  BY DEF Init
<1>2. DOMAIN wire = {} /\ DOMAIN offered = {}
  BY <1>1
<1>3. Typed
  BY <1>1 DEF Typed
<1>4. OfferedOnce /\ WireInOrder /\ AddedInOrder /\ ResumedHasSlots
  BY <1>1, <1>2 DEF OfferedOnce, WireInOrder, AddedInOrder, ResumedHasSlots
<1>5. SlotsKnown
  BY <1>1, <1>2 DEF SlotsKnown, On
<1>6. KeymapFollows
  BY <1>1 DEF KeymapFollows, Slots
<1> QED BY <1>3, <1>4, <1>5, <1>6 DEF Inv

LEMMA Invariance == Spec => []Inv
<1>1. Inv /\ [Next]_vars => Inv'
  BY StepKeeps
<1> QED BY InitHolds, <1>1, PTL DEF Spec

------------------------------------------------------------------------------
\* Once the dispatcher has caught up, a slot has the newest device of its kind
\* and never one that is gone, and the keymap is the one of that keyboard: the
\* handlers of DeviceAdded and DeviceRemoved get this right in every order in
\* which a server may offer, resume, pause and remove any number of devices.
THEOREM SlotsFollow == Spec => []SlotsFollowServer
<1>1. Inv => SlotsFollowServer
  <2> SUFFICES ASSUME Inv, wire = <<>>, link = "up"
               PROVE  /\ \A s \in Slots :
                            \/ slot[s] = None
                                  /\ \A i \in DOMAIN offered :
                                        Newest(s, i) => status[offered[i]] = "removed"
                            \/ \E i \in DOMAIN offered :
                                  Newest(s, i) /\ slot[s] = offered[i]
                                  /\ status[offered[i]] # "removed"
                      /\ slot["keyboard"] # None /\ Layout[slot["keyboard"]] \in Usable
                            => keymap = Layout[slot["keyboard"]]
    BY DEF SlotsFollowServer
  <2>1. \A k, e : ~On(k, e)
    BY DEF On
  <2>2. \A s \in Slots, i \in DOMAIN offered : Latest(s, i) <=> Newest(s, i)
    BY <2>1 DEF Latest, Newest
  <2>3. \A d : Gone(d) <=> status[d] = "removed"
    BY <2>1 DEF Gone
  <2> QED BY <2>2, <2>3 DEF Inv, SlotsKnown, KeymapFollows
<1> QED BY Invariance, <1>1, PTL

\* When try_new reports the backend ready, some slot holds a device that has
\* resumed, however many devices come and go meanwhile, provided each fits a
\* slot of its own.
THEOREM ReadyHasDevice == Spec => ReadyMeansUsable
<1>1. ASSUME Inv, Next, phase = "waiting", phase' = "up", OneEach
      PROVE  \E s \in Slots : slot'[s] \in seen'
  <2>1. /\ wire # <<>> /\ Head(wire).kind = "resumed" /\ OnResumed(Head(wire).dev)
        /\ wire' = Tail(wire)
    <3>1. HandleEvent
      <4>1. \A d \in Devices : ~Offer(d) /\ ~Resume(d)
        BY <1>1 DEF Offer, Resume, Send
      <4>2. \A d \in Devices, kind \in {"paused", "removed"} : ~Withdraw(d, kind)
        BY <1>1 DEF Withdraw, Send
      <4>3. ~HangUp /\ ~ReadFrame /\ ~TimeOut
        BY <1>1 DEF HangUp, ReadFrame, TimeOut
      <4>4. \A c \in Callers, r \in Requests : ~BeginKey(c, r) /\ ~BeginText(c, r) /\ ~Point(c, r)
        BY <1>1 DEF BeginKey, BeginText, Point, Begin
      <4>5. \A c \in Callers : ~FindShift(c) /\ ~EmitKey(c) /\ ~NothingToEmit(c)
        BY <1>1 DEF FindShift, EmitKey, NothingToEmit
      <4> QED BY <1>1, <4>1, <4>2, <4>3, <4>4, <4>5 DEF Next, Server, Calls
    <3>2. ASSUME NEW d PROVE ~OnAdded(d) /\ ~OnRemoved(d)
      BY <1>1 DEF OnAdded, OnRemoved
    <3>3. ~OnOther(Head(wire).kind)
      BY <1>1 DEF OnOther
    <3> QED BY <3>1, <3>2, <3>3 DEF HandleEvent
  <2> DEFINE d == Head(wire).dev
  <2>2. d \in Devices /\ status[d] # "new" /\ On("resumed", d)
    BY <1>1, <2>1, Taken DEF Inv, WireInOrder, On
  <2>3. PICK n \in DOMAIN offered : offered[n] = d
    BY <1>1, <2>2 DEF Inv, OfferedOnce
  <2>4. PICK s \in Slots : s \in Caps[d]
    BY <1>1, <2>3 DEF OneEach, Range
  <2>5. \A j \in DOMAIN offered : j > n => s \notin Caps[offered[j]]
    <3>1. \A j \in DOMAIN offered : j > n => offered[j] # d
      BY <1>1, <2>3 DEF Inv, OfferedOnce, Typed
    <3> QED BY <1>1, <2>3, <2>4, <3>1 DEF OneEach, Range
  <2>6. ~On("added", d)
    BY <1>1, <2>1, <2>2, HeadIsOnly DEF Inv
  <2>7. Latest(s, n)
    BY <2>3, <2>4, <2>5, <2>6 DEF Latest
  <2>8. slot[s] = d
    BY <1>1, <2>2, <2>3, <2>7 DEF Inv, ResumedHasSlots
  <2> QED BY <2>1, <2>4, <2>8 DEF OnResumed
<1>2. Inv /\ [Next]_vars
        => [(phase = "waiting" /\ phase' = "up" /\ OneEach) => \E s \in Slots : slot'[s] \in seen']_vars
  BY <1>1 DEF vars
<1> QED BY Invariance, <1>2, PTL DEF Spec, ReadyMeansUsable

------------------------------------------------------------------------------
(* What is down.                                                           *)

\* Stroke i is the last of its code.
LastOf(st, i) == i \in DOMAIN st /\ \A j \in DOMAIN st : j > i => st[j].code # st[i].code
Presses(st, k) == \E i \in DOMAIN st : LastOf(st, i) /\ st[i].code = k /\ st[i].on
Releases(st, k) == \E i \in DOMAIN st : LastOf(st, i) /\ st[i].code = k /\ ~st[i].on

\* Code k of device d is down on purpose: of a key that is held, or a button.
KeyCodes(map, s) ==
    {Table[map][s].code}
        \cup {k \in {ShiftOf(map)} : k # None /\ Table[map][s].level = 1}
Buttons == {r.what : r \in {q \in Requests : q.op = "point" /\ q.what # None}}
Meant(d, k) ==
    \/ /\ d = slot["keyboard"] /\ keymap \in Usable
       /\ \E s \in held \cap DOMAIN Table[keymap] : k \in KeyCodes(keymap, s)
    \/ d = slot["pointer"] /\ "button" \in Caps[d] /\ k \in held \cap Buttons

\* A frame after number n takes code k of device d up again.
Undone(d, k, n) ==
    \E j \in DOMAIN frames : j > n /\ frames[j].dev = d /\ Releases(frames[j].strokes, k)

\* What is down, or will be, is meant to be or will be taken up again.
Settled ==
    \A d \in Devices : \A k :
        /\ k \in down[d] => Meant(d, k) \/ Undone(d, k, 0)
        /\ \A i \in DOMAIN frames :
              (frames[i].dev = d /\ Presses(frames[i].strokes, k)) => Meant(d, k) \/ Undone(d, k, i)

\* A key about to be pressed or released was looked up in the present keymap.
KeysKnown ==
    \A c \in Callers : (task[c].left # <<>> /\ task[c].dir \in {"Press", "Release"}) =>
        /\ keymap \in Usable /\ task[c].shift = ShiftOf(keymap)
        /\ \E s \in DOMAIN Table[keymap] : task[c].left = <<LookUp(s)>>

IsSeq(s) == \E S : s \in Seq(S)
Record(t) == t = [op |-> t.op, id |-> t.id, left |-> t.left, shift |-> t.shift, dir |-> t.dir]

BInv ==
    /\ moved \in BOOLEAN /\ IsSeq(frames) /\ DOMAIN down = Devices
    /\ DOMAIN task = Callers /\ \A c \in Callers : Record(task[c])
    /\ \A c \in Callers : task[c].op = "text" => task[c].dir = "PressRelease"
    /\ \A d \in Devices : status[d] # "resumed" => down[d] = {}
    /\ link # "up" => frames = <<>> /\ \A d \in Devices : down[d] = {}
    /\ (link = "up" /\ ~moved) => KeysKnown /\ Settled

LEMMA Appended ==
    ASSUME NEW s, IsSeq(s), NEW e
    PROVE  /\ IsSeq(Append(s, e)) /\ Len(s) \in Nat
           /\ DOMAIN s = 1..Len(s) /\ DOMAIN Append(s, e) = 1..(Len(s) + 1)
           /\ \A i \in DOMAIN s : Append(s, e)[i] = s[i]
           /\ Append(s, e)[Len(s) + 1] = e
<1>1. PICK S : s \in Seq(S)
  BY DEF IsSeq
<1>2. s \in Seq(S \cup {e}) /\ Append(s, e) \in Seq(S \cup {e})
  BY <1>1
<1>3. IsSeq(Append(s, e))
  BY <1>2 DEF IsSeq
<1> QED BY <1>2, <1>3

LEMMA AllButFirst ==
    ASSUME NEW s, IsSeq(s), s # <<>>
    PROVE  /\ IsSeq(Tail(s)) /\ Len(s) \in Nat /\ Head(s) = s[1] /\ 1 \in DOMAIN s
           /\ DOMAIN s = 1..Len(s) /\ DOMAIN Tail(s) = 1..(Len(s) - 1)
           /\ \A i \in DOMAIN Tail(s) : i + 1 \in DOMAIN s /\ Tail(s)[i] = s[i + 1]
<1>1. PICK S : s \in Seq(S)
  BY DEF IsSeq
<1>2. Tail(s) \in Seq(S) /\ Len(s) \in Nat /\ Len(s) >= 1 /\ Len(Tail(s)) = Len(s) - 1
  BY <1>1
<1>3. DOMAIN s = 1..Len(s) /\ DOMAIN Tail(s) = 1..Len(Tail(s)) /\ Head(s) = s[1]
  BY <1>1, <1>2
<1>4. \A i \in 1..Len(Tail(s)) : Tail(s)[i] = s[i + 1]
  BY <1>1, <1>2
<1>5. IsSeq(Tail(s))
  BY <1>2 DEF IsSeq
<1> QED BY <1>2, <1>3, <1>4, <1>5

\* A code is down after the strokes if they press it, or if it was and they do
\* not release it.
LEMMA StrokesSettle ==
    ASSUME NEW codes, NEW st, NEW k
    PROVE  k \in After(codes, st) => Presses(st, k) \/ (k \in codes /\ ~Releases(st, k))
BY DEF After, Presses, Releases, LastOf

LEMMA Pair == \A a, b : <<a>> \o <<b>> = <<a, b>>
<1> SUFFICES ASSUME NEW a, NEW b PROVE <<a>> \o <<b>> = <<a, b>>
  OBVIOUS
<1>1. PICK s : s = <<a>> \o <<b>>
  OBVIOUS
<1>2. <<a>> \in Seq({a, b}) /\ <<b>> \in Seq({a, b})
  OBVIOUS
<1>3. s \in Seq({a, b}) /\ Len(s) = 2 /\ s[1] = a /\ s[2] = b
  BY <1>1, <1>2
<1>4. s = [i \in 1..2 |-> s[i]]
  BY <1>3
<1>5. PICK t : t = <<a, b>>
  OBVIOUS
<1>6. t \in Seq({a, b}) /\ Len(t) = 2 /\ t[1] = a /\ t[2] = b
  BY <1>5
<1>7. t = [i \in 1..2 |-> t[i]]
  BY <1>6
<1>8. \A i \in 1..2 : s[i] = t[i]
  BY <1>3, <1>6
<1> QED BY <1>1, <1>4, <1>5, <1>7, <1>8

LEMMA Single == \A a : <<>> \o <<a>> = <<a>> /\ <<a>> \o <<>> = <<a>>
OBVIOUS

LEMMA Four == \A a, b, c, d : <<a, b>> \o <<c, d>> = <<a, b, c, d>>
<1> SUFFICES ASSUME NEW a, NEW b, NEW c, NEW d PROVE <<a, b>> \o <<c, d>> = <<a, b, c, d>>
  OBVIOUS
<1>1. PICK s : s = <<a, b>> \o <<c, d>>
  OBVIOUS
<1>2. <<a, b>> \in Seq({a, b, c, d}) /\ <<c, d>> \in Seq({a, b, c, d})
  OBVIOUS
<1>3. s \in Seq({a, b, c, d}) /\ Len(s) = 4
  BY <1>1, <1>2
<1>4. s[1] = a /\ s[2] = b /\ s[3] = c /\ s[4] = d
  BY <1>1, <1>2
<1>5. s = [i \in 1..4 |-> s[i]]
  BY <1>3
<1>6. PICK t : t = <<a, b, c, d>>
  OBVIOUS
<1>7. t \in Seq({a, b, c, d}) /\ Len(t) = 4 /\ t[1] = a /\ t[2] = b /\ t[3] = c /\ t[4] = d
  BY <1>6
<1>8. t = [i \in 1..4 |-> t[i]]
  BY <1>7
<1>9. \A i \in 1..4 : s[i] = t[i]
  BY <1>4, <1>7
<1> QED BY <1>1, <1>5, <1>6, <1>8, <1>9

\* The strokes of a key, or of a button.
OneOff(k, shift) == {k.code} \cup {x \in {shift} : x # None /\ k.level = 1}

LEMMA PressOf ==
    ASSUME NEW k, NEW shift, NEW dir, dir = "Press"
    PROVE  \A x : /\ Presses(Strokes(k, shift, dir), x) => x \in OneOff(k, shift)
                  /\ ~Releases(Strokes(k, shift, dir), x)
<1>1. CASE k.level = 1 /\ shift # None
  <2>1. Strokes(k, shift, dir) = <<Stroke(shift, TRUE, None), Stroke(k.code, TRUE, k.want)>>
    BY <1>1, Pair, Single DEF Strokes
  <2> QED BY <1>1, <2>1 DEF Presses, Releases, LastOf, Stroke, OneOff
<1>2. CASE ~(k.level = 1 /\ shift # None)
  <2>1. Strokes(k, shift, dir) = <<Stroke(k.code, TRUE, k.want)>>
    BY <1>2, Pair, Single DEF Strokes
  <2> QED BY <1>2, <2>1 DEF Presses, Releases, LastOf, Stroke, OneOff
<1> QED BY <1>1, <1>2

LEMMA ReleaseOf ==
    ASSUME NEW k, NEW shift, NEW dir, dir = "Release"
    PROVE  \A x : /\ ~Presses(Strokes(k, shift, dir), x)
                  /\ x \in OneOff(k, shift) => Releases(Strokes(k, shift, dir), x)
<1>1. CASE k.level = 1 /\ shift # None
  <2>1. Strokes(k, shift, dir) = <<Stroke(k.code, FALSE, None), Stroke(shift, FALSE, None)>>
    BY <1>1, Pair, Single DEF Strokes
  <2> QED BY <1>1, <2>1 DEF Presses, Releases, LastOf, Stroke, OneOff
<1>2. CASE ~(k.level = 1 /\ shift # None)
  <2>1. Strokes(k, shift, dir) = <<Stroke(k.code, FALSE, None)>>
    BY <1>2, Pair, Single DEF Strokes
  <2> QED BY <1>2, <2>1 DEF Presses, Releases, LastOf, Stroke, OneOff
<1> QED BY <1>1, <1>2

LEMMA ClickOf ==
    ASSUME NEW k, NEW shift, NEW dir, dir \notin {"Press", "Release"}
    PROVE  \A x : ~Presses(Strokes(k, shift, dir), x)
<1>1. CASE k.level = 1 /\ shift # None
  <2>1. Strokes(k, shift, dir) = (<<Stroke(shift, TRUE, None)>> \o <<Stroke(k.code, TRUE, k.want)>>)
                              \o (<<Stroke(k.code, FALSE, None)>> \o <<Stroke(shift, FALSE, None)>>)
    BY <1>1 DEF Strokes
  <2>2. Strokes(k, shift, dir) = <<Stroke(shift, TRUE, None), Stroke(k.code, TRUE, k.want)>>
                              \o <<Stroke(k.code, FALSE, None), Stroke(shift, FALSE, None)>>
    BY <2>1, Pair
  <2>3. Strokes(k, shift, dir) = <<Stroke(shift, TRUE, None), Stroke(k.code, TRUE, k.want),
                                   Stroke(k.code, FALSE, None), Stroke(shift, FALSE, None)>>
    BY <2>2, Four, Zenon
  <2> QED BY <1>1, <2>3 DEF Presses, LastOf, Stroke
<1>2. CASE ~(k.level = 1 /\ shift # None)
  <2>1. Strokes(k, shift, dir) = <<Stroke(k.code, TRUE, k.want), Stroke(k.code, FALSE, None)>>
    BY <1>2, Pair, Single DEF Strokes
  <2> QED BY <1>2, <2>1 DEF Presses, LastOf, Stroke
<1> QED BY <1>1, <1>2

LEMMA ButtonOf ==
    ASSUME NEW b, NEW dir
    PROVE  \A x : /\ Presses(Clicks(b, dir), x) => dir = "Press" /\ x = b
                  /\ dir = "Release" => Releases(Clicks(b, dir), b)
                  /\ dir = "Press" => ~Releases(Clicks(b, dir), x)
BY Pair, Single DEF Presses, Releases, LastOf, Stroke, Clicks
------------------------------------------------------------------------------
(* The frames.                                                             *)

\* A frame is sent to device d.
LEMMA SentSettles ==
    ASSUME IsSeq(frames), Settled, NEW f, NEW d, f.dev = d, frames' = Append(frames, f),
           down' = down,
           \A k : Presses(f.strokes, k) => Meant(d, k)',
           \A e \in Devices : \A k : (Meant(e, k) /\ ~Meant(e, k)') => (e = d /\ Releases(f.strokes, k))
    PROVE  Settled'
<1>1. PICK n : n = Len(frames) + 1
  OBVIOUS
<1>2. /\ n \in Nat /\ DOMAIN frames = 1..(n - 1) /\ DOMAIN frames' = 1..n /\ frames'[n] = f
      /\ \A i \in DOMAIN frames : frames'[i] = frames[i]
  BY <1>1, Appended
<1>3. \A e \in Devices : \A k : \A i \in Nat : Undone(e, k, i) => Undone(e, k, i)'
  BY <1>2 DEF Undone
<1>4. ASSUME NEW e \in Devices, NEW k, NEW i \in 0..(n - 1), Meant(e, k)
      PROVE  Meant(e, k)' \/ Undone(e, k, i)'
  <2>1. ASSUME ~Meant(e, k)' PROVE Undone(e, k, i)'
    <3>1. e = d /\ Releases(f.strokes, k)
      BY <1>4, <2>1
    <3>2. n \in DOMAIN frames' /\ n > i
      BY <1>2, <1>4
    <3> QED BY <1>2, <3>1, <3>2 DEF Undone
  <2> QED BY <2>1
<1>5. ASSUME NEW e \in Devices, NEW k, k \in down'[e] PROVE Meant(e, k)' \/ Undone(e, k, 0)'
  <2>1. Meant(e, k) \/ Undone(e, k, 0)
    BY <1>5 DEF Settled
  <2>2. 0 \in 0..(n - 1) /\ 0 \in Nat
    BY <1>1, Appended
  <2> QED BY <1>3, <1>4, <2>1, <2>2
<1>6. ASSUME NEW e \in Devices, NEW k, NEW i \in DOMAIN frames',
             frames'[i].dev = e, Presses(frames'[i].strokes, k)
      PROVE  Meant(e, k)' \/ Undone(e, k, i)'
  <2>1. CASE i = n
    BY <1>2, <1>6, <2>1
  <2>2. CASE i # n
    <3>1. i \in DOMAIN frames /\ i \in 0..(n - 1) /\ i \in Nat
      BY <1>2, <2>2
    <3>2. Meant(e, k) \/ Undone(e, k, i)
      BY <1>2, <1>6, <3>1 DEF Settled
    <3> QED BY <1>3, <1>4, <3>1, <3>2
  <2> QED BY <2>1, <2>2
<1> QED BY <1>5, <1>6 DEF Settled

\* The server reads a frame.
LEMMA ReadSettles ==
    ASSUME IsSeq(frames), frames # <<>>, Settled, frames' = Tail(frames),
           UNCHANGED <<held, slot, keymap>>, NEW f, f = Head(frames),
           \A e \in Devices : e # f.dev => down'[e] = down[e],
           f.dev \in Devices => \/ down'[f.dev] = After(down[f.dev], f.strokes)
                                \/ down'[f.dev] = {}
    PROVE  Settled'
<1>1. /\ f = frames[1] /\ 1 \in DOMAIN frames
      /\ DOMAIN frames = 1..Len(frames) /\ DOMAIN frames' = 1..(Len(frames) - 1) /\ Len(frames) \in Nat
      /\ \A i \in DOMAIN frames' : i + 1 \in DOMAIN frames /\ frames'[i] = frames[i + 1]
  BY AllButFirst
<1>2. \A e \in Devices : \A k : Meant(e, k)' <=> Meant(e, k)
  BY DEF Meant
<1>3. ASSUME NEW e \in Devices, NEW k, NEW i \in Nat, Undone(e, k, i + 1) PROVE Undone(e, k, i)'
  <2>1. PICK j \in DOMAIN frames :
           j > i + 1 /\ frames[j].dev = e /\ Releases(frames[j].strokes, k)
    BY <1>3 DEF Undone
  <2>2. j - 1 \in DOMAIN frames' /\ j - 1 > i /\ (j - 1) + 1 = j
    BY <1>1, <2>1
  <2>3. frames'[j - 1] = frames[j]
    BY <1>1, <2>2
  <2> QED BY <2>1, <2>2, <2>3 DEF Undone
<1>4. ASSUME NEW e \in Devices, NEW k, NEW i \in DOMAIN frames',
             frames'[i].dev = e, Presses(frames'[i].strokes, k)
      PROVE  Meant(e, k)' \/ Undone(e, k, i)'
  <2>1. i \in Nat /\ i + 1 \in DOMAIN frames /\ frames'[i] = frames[i + 1]
    BY <1>1
  <2>2. Meant(e, k) \/ Undone(e, k, i + 1)
    BY <1>4, <2>1 DEF Settled
  <2> QED BY <1>2, <1>3, <2>1, <2>2
<1>5. ASSUME NEW e \in Devices, NEW k, k \in down'[e] PROVE Meant(e, k)' \/ Undone(e, k, 0)'
  <2>1. CASE e = f.dev /\ Presses(f.strokes, k)
    <3>1. Meant(e, k) \/ Undone(e, k, 1)
      BY <1>1, <2>1 DEF Settled
    <3>2. 0 \in Nat /\ 0 + 1 = 1
      OBVIOUS
    <3> QED BY <1>2, <1>3, <3>1, <3>2
  <2>2. CASE ~(e = f.dev /\ Presses(f.strokes, k))
    <3>1. k \in down[e] /\ ~(e = f.dev /\ Releases(f.strokes, k))
      BY <1>5, <2>2, StrokesSettle
    <3>2. Meant(e, k) \/ Undone(e, k, 0)
      BY <3>1 DEF Settled
    <3>3. Undone(e, k, 0) => Undone(e, k, 0 + 1)
      BY <1>1, <3>1 DEF Undone
    <3> QED BY <1>2, <1>3, <3>2, <3>3
  <2> QED BY <2>1, <2>2
<1> QED BY <1>4, <1>5 DEF Settled

\* What is held and where the slots are stay the same, and less is down.
LEMMA StillSettled ==
    ASSUME Settled, UNCHANGED <<held, slot, keymap, frames>>,
           \A e \in Devices : down'[e] \in {{}, down[e]}
    PROVE  Settled'
<1>1. \A e \in Devices : \A k : Meant(e, k)' <=> Meant(e, k)
  BY DEF Meant
<1>2. \A e \in Devices : \A k, n : Undone(e, k, n)' <=> Undone(e, k, n)
  BY DEF Undone
<1> QED BY <1>1, <1>2 DEF Settled

LEMMA NothingSettles ==
    ASSUME frames' = <<>>, \A e \in Devices : down'[e] = {}
    PROVE  Settled'
<1>1. DOMAIN frames' = {}
  OBVIOUS
<1> QED BY <1>1 DEF Settled
------------------------------------------------------------------------------
(* The calls and the frames keep it so.                                    *)

LEMMA Resting == ASSUME NEW c \in Callers, task' = [task EXCEPT ![c] = Idle], BInv
                 PROVE  /\ DOMAIN task' = Callers /\ \A e \in Callers : Record(task'[e])
                        /\ \A e \in Callers : task'[e].op = "text" => task'[e].dir = "PressRelease"
                        /\ KeysKnown /\ keymap' = keymap => KeysKnown'
<1>1. DOMAIN task' = Callers /\ \A e \in Callers : task'[e] = IF e = c THEN Idle ELSE task[e]
  BY DEF BInv
<1>2. Record(Idle) /\ Idle.op = "" /\ Idle.left = <<>>
  BY DEF Record, Idle
<1>3. \A e \in Callers : Record(task'[e])
  BY <1>1, <1>2 DEF BInv
<1>4. \A e \in Callers : task'[e].op = "text" => task'[e].dir = "PressRelease"
  BY <1>1, <1>2 DEF BInv
<1>5. ASSUME KeysKnown, keymap' = keymap PROVE KeysKnown'
  BY <1>1, <1>2, <1>5 DEF KeysKnown, LookUp
<1> QED BY <1>1, <1>3, <1>4, <1>5

\* A call is begun.
LEMMA BegunKeeps ==
    ASSUME BInv, NEW c \in Callers, NEW t, Record(t), task' = [task EXCEPT ![c] = t],
           t.op = "text" => t.dir = "PressRelease",
           (t.left # <<>> /\ t.dir \in {"Press", "Release"}) =>
              (/\ keymap \in Usable /\ t.shift = ShiftOf(keymap)
               /\ \E s \in DOMAIN Table[keymap] : t.left = <<LookUp(s)>>),
           UNCHANGED <<frames, down, held, slot, keymap, link, moved, status>>
    PROVE  BInv'
<1>1. DOMAIN task' = Callers /\ \A e \in Callers : task'[e] = IF e = c THEN t ELSE task[e]
  BY DEF BInv
<1>2. \A e \in Callers : Record(task'[e])
  BY <1>1 DEF BInv
<1>3. \A e \in Callers : task'[e].op = "text" => task'[e].dir = "PressRelease"
  BY <1>1 DEF BInv
<1>4. KeysKnown => KeysKnown'
  BY <1>1 DEF KeysKnown, LookUp
<1>5. Settled => Settled'
  BY StillSettled
<1> QED BY <1>1, <1>2, <1>3, <1>4, <1>5 DEF BInv

LEMMA BeginKeyKeeps == ASSUME BInv, NEW c \in Callers, NEW r \in Requests, BeginKey(c, r)
                       PROVE  BInv'
<1>1. CASE r.what \in Symbols
  <2> DEFINE t == [op |-> "key", id |-> count + 1, left |-> <<LookUp(r.what)>>,
                   shift |-> Shift, dir |-> r.dir]
  <2>1. /\ task' = [task EXCEPT ![c] = t]
        /\ UNCHANGED <<frames, down, held, slot, keymap, link, moved, status>>
    BY <1>1 DEF BeginKey, Begin, server, state
  <2>2. Record(t) /\ t.op = "key" /\ t.left = <<LookUp(r.what)>> /\ t.shift = Shift
    BY DEF Record
  <2>3. /\ keymap \in Usable /\ t.shift = ShiftOf(keymap) /\ r.what \in DOMAIN Table[keymap]
    BY <1>1, <2>2 DEF Symbols, Shift
  <2> HIDE DEF t
  <2>4. t.op = "text" => t.dir = "PressRelease"
    BY <2>2
  <2>5. \E s \in DOMAIN Table[keymap] : t.left = <<LookUp(s)>>
    BY <2>2, <2>3
  <2> QED BY <2>1, <2>2, <2>3, <2>4, <2>5, BegunKeeps
<1>2. CASE r.what \notin Symbols
  <2>1. /\ task' = [task EXCEPT ![c] = Idle]
        /\ UNCHANGED <<frames, down, held, slot, keymap, link, moved, status>>
    BY <1>2 DEF BeginKey, Begin, server, state
  <2>2. Record(Idle) /\ Idle.op = "" /\ Idle.left = <<>>
    BY DEF Record, Idle
  <2> QED BY <2>1, <2>2, BegunKeeps
<1> QED BY <1>1, <1>2

LEMMA BeginTextKeeps == ASSUME BInv, NEW c \in Callers, NEW r \in Requests, BeginText(c, r)
                        PROVE  BInv'
<1>1. CASE keymap \in Usable
  <2>1. PICK found : found = Only(r.what, Symbols)
    OBVIOUS
  <2>2. PICK left : left = [i \in DOMAIN found |-> LookUp(found[i])]
    OBVIOUS
  <2>3. PICK t : t = [op |-> "text", id |-> count + 1, left |-> left, shift |-> "later",
                      dir |-> "PressRelease"]
    OBVIOUS
  <2>4. /\ task' = [task EXCEPT ![c] = t]
        /\ UNCHANGED <<frames, down, held, slot, keymap, link, moved, status>>
    BY <1>1, <2>1, <2>2, <2>3 DEF BeginText, Begin, server, state
  <2>5. Record(t) /\ t.dir = "PressRelease"
    BY <2>3 DEF Record
  <2> QED BY <2>4, <2>5, BegunKeeps
<1>2. CASE keymap \notin Usable
  <2>1. /\ task' = [task EXCEPT ![c] = Idle]
        /\ UNCHANGED <<frames, down, held, slot, keymap, link, moved, status>>
    BY <1>2 DEF BeginText, Begin, server, state
  <2>2. Record(Idle) /\ Idle.op = "" /\ Idle.left = <<>>
    BY DEF Record, Idle
  <2> QED BY <2>1, <2>2, BegunKeeps
<1> QED BY <1>1, <1>2

LEMMA FindShiftKeeps == ASSUME BInv, NEW c \in Callers, FindShift(c) PROVE BInv'
<1>1. PICK t : t = [task[c] EXCEPT !.shift = Shift]
  OBVIOUS
<1>2. /\ task' = [task EXCEPT ![c] = t] /\ task[c].op = "text"
      /\ UNCHANGED <<frames, down, held, slot, keymap, link, moved, status>>
  BY <1>1 DEF FindShift, server, state, calling
<1>3. Record(task[c]) /\ task[c].dir = "PressRelease"
  BY <1>2 DEF BInv
<1>4. Record(t) /\ t.dir = "PressRelease"
  BY <1>1, <1>3 DEF Record
<1> QED BY <1>2, <1>4, BegunKeeps

LEMMA NothingToEmitKeeps == ASSUME BInv, NEW c \in Callers, NothingToEmit(c) PROVE BInv'
<1>1. /\ task' = [task EXCEPT ![c] = Idle]
      /\ UNCHANGED <<frames, down, held, slot, keymap, link, moved, status>>
  BY DEF NothingToEmit, server, state
<1>2. Record(Idle) /\ Idle.op = "" /\ Idle.left = <<>>
  BY DEF Record, Idle
<1> QED BY <1>1, <1>2, BegunKeeps
\* What a key held down, or let go, changes of what is meant to be down.
LEMMA HeldKey ==
    ASSUME keymap \in Usable, NEW s \in DOMAIN Table[keymap], NEW dir, Holding(s, dir),
           UNCHANGED <<slot, keymap>>, NEW k, k = LookUp(s), NEW st,
           st = Strokes(k, ShiftOf(keymap), dir), dir \in {"Press", "Release"}
    PROVE  /\ \A x : Presses(st, x) => Meant(slot["keyboard"], x)'
           /\ \A e \in Devices : \A x :
                 (Meant(e, x) /\ ~Meant(e, x)') => (e = slot["keyboard"] /\ Releases(st, x))
<1>1. KeyCodes(keymap, s) = OneOff(k, ShiftOf(keymap))
  BY DEF KeyCodes, OneOff, LookUp
<1>2. s \notin Buttons
  BY RequestsAssumption DEF Buttons
<1>3. CASE dir = "Press"
  <2>1. held' = held \cup {s}
    BY <1>3 DEF Holding
  <2>2. \A e \in Devices : \A x : Meant(e, x) => Meant(e, x)'
    BY <2>1 DEF Meant
  <2>3. ASSUME NEW x, Presses(st, x) PROVE Meant(slot["keyboard"], x)'
    <3>1. x \in KeyCodes(keymap, s)
      BY <1>1, <1>3, <2>3, PressOf
    <3> QED BY <2>1, <3>1 DEF Meant
  <2> QED BY <2>2, <2>3
<1>4. CASE dir = "Release"
  <2>1. held' = held \ {s}
    BY <1>4 DEF Holding
  <2>2. \A x : ~Presses(st, x)
    BY <1>4, ReleaseOf
  <2>3. ASSUME NEW e \in Devices, NEW x, Meant(e, x), ~Meant(e, x)'
        PROVE  e = slot["keyboard"] /\ Releases(st, x)
    <3>1. e = slot["keyboard"] /\ x \in KeyCodes(keymap, s)
      BY <1>2, <2>1, <2>3 DEF Meant
    <3> QED BY <1>1, <1>4, <3>1, ReleaseOf
  <2> QED BY <2>2, <2>3
<1> QED BY <1>3, <1>4

LEMMA HeldButton ==
    ASSUME NEW r \in Requests, r.op = "point", r.what # None, Holding(r.what, r.dir),
           UNCHANGED <<slot, keymap>>, NEW st,
           st = IF "button" \in Caps[slot["pointer"]] THEN Clicks(r.what, r.dir) ELSE <<>>
    PROVE  /\ \A x : Presses(st, x) => Meant(slot["pointer"], x)'
           /\ \A e \in Devices : \A x :
                 (Meant(e, x) /\ ~Meant(e, x)') => (e = slot["pointer"] /\ Releases(st, x))
<1>1. r.what \in Buttons /\ \A l \in Usable : r.what \notin DOMAIN Table[l]
  BY RequestsAssumption DEF Buttons
<1>2. ASSUME NEW x, Presses(st, x) PROVE Meant(slot["pointer"], x)'
  <2>1. "button" \in Caps[slot["pointer"]]
    BY <1>2 DEF Presses
  <2>2. r.dir = "Press" /\ x = r.what
    BY <1>2, <2>1, ButtonOf
  <2>3. x \in held'
    BY <2>2 DEF Holding
  <2> QED BY <1>1, <2>1, <2>2, <2>3 DEF Meant
<1>3. ASSUME NEW e \in Devices, NEW x, Meant(e, x), ~Meant(e, x)'
      PROVE  e = slot["pointer"] /\ Releases(st, x)
  <2>1. \A y : (y \in held /\ y \notin held') => (y = r.what /\ r.dir = "Release")
    BY DEF Holding
  <2>2. e = slot["pointer"] /\ "button" \in Caps[e] /\ x = r.what /\ r.dir = "Release"
    BY <1>1, <1>3, <2>1 DEF Meant
  <2> QED BY <2>2, ButtonOf
<1> QED BY <1>2, <1>3

LEMMA EmitKeyKeeps == ASSUME BInv, NEW c \in Callers, EmitKey(c) PROVE BInv'
<1>1. PICK t : t = task[c]
  OBVIOUS
<1>2. /\ t.left # <<>> /\ Record(t) /\ (t.op = "text" => t.dir = "PressRelease")
      /\ UNCHANGED <<slot, keymap, link, moved, status, down>>
  BY <1>1 DEF EmitKey, BInv, server, state
<1>3. CASE NotEmitted("keyboard") /\ task' = [task EXCEPT ![c] = Idle] /\ UNCHANGED held
  <2>1. Record(Idle) /\ Idle.op = "" /\ Idle.left = <<>> /\ frames' = frames
    BY <1>3 DEF Record, Idle, NotEmitted
  <2> QED BY <1>2, <1>3, <2>1, BegunKeeps
<1>4. CASE /\ Emitted(t.id, "keyboard", Strokes(Head(t.left), t.shift, t.dir))
           /\ Holding(Head(t.left).want, t.dir)
           /\ task' = [task EXCEPT ![c] = IF Len(t.left) = 1 THEN Idle
                                          ELSE [t EXCEPT !.left = Tail(@)]]
  <2>1. PICK st : st = Strokes(Head(t.left), t.shift, t.dir)
    OBVIOUS
  <2>2. PICK f : f = [by |-> t.id, dev |-> slot["keyboard"], strokes |-> st,
                      alone |-> ~ShiftHeld /\ ~moved]
    OBVIOUS
  <2>3. frames' = Append(frames, f) /\ f.dev = slot["keyboard"] /\ f.strokes = st /\ link = "up"
    BY <1>4, <2>1, <2>2 DEF Emitted, Device
  <2>4. IsSeq(frames) /\ IsSeq(frames')
    BY <2>3, Appended DEF BInv
  <2>5. PICK u : u = IF Len(t.left) = 1 THEN Idle ELSE [t EXCEPT !.left = Tail(@)]
    OBVIOUS
  <2>6. /\ Record(u) /\ (u.op = "text" => u.dir = "PressRelease")
        /\ Len(t.left) = 1 => u.left = <<>>
        /\ Len(t.left) # 1 => u.dir = t.dir
    BY <1>2, <2>5 DEF Record, Idle
  <2>7. DOMAIN task' = Callers /\ \A e \in Callers : task'[e] = IF e = c THEN u ELSE task[e]
    BY <1>4, <2>5 DEF BInv
  <2>8. ASSUME ~moved PROVE KeysKnown' /\ Settled'
    <3>1. KeysKnown /\ Settled
      BY <2>3, <2>8 DEF BInv
    <3>2. CASE t.dir \in {"Press", "Release"}
      <4>1. PICK s \in DOMAIN Table[keymap] : t.left = <<LookUp(s)>>
        BY <1>1, <1>2, <3>1, <3>2 DEF KeysKnown
      <4>2. keymap \in Usable /\ t.shift = ShiftOf(keymap)
        BY <1>1, <1>2, <3>1, <3>2 DEF KeysKnown
      <4>3. PICK k : k = LookUp(s)
        OBVIOUS
      <4>4. Head(t.left) = k /\ Len(t.left) = 1 /\ k.want = s
        BY <4>1, <4>3 DEF LookUp
      <4>5. KeysKnown'
        BY <1>2, <2>6, <2>7, <3>1, <4>4 DEF KeysKnown, LookUp
      <4>6. st = Strokes(k, ShiftOf(keymap), t.dir) /\ Holding(s, t.dir)
        BY <1>4, <2>1, <4>2, <4>4
      <4>7. /\ \A x : Presses(st, x) => Meant(slot["keyboard"], x)'
            /\ \A e \in Devices : \A x :
                  (Meant(e, x) /\ ~Meant(e, x)') => (e = slot["keyboard"] /\ Releases(st, x))
        BY <1>2, <3>2, <4>2, <4>3, <4>6, HeldKey
      <4>8. Settled'
        BY <1>2, <2>3, <2>4, <3>1, <4>7, SentSettles
      <4> QED BY <4>5, <4>8
    <3>3. CASE t.dir \notin {"Press", "Release"}
      <4>1. held' = held
        BY <1>4, <3>3 DEF Holding
      <4>2. KeysKnown'
        BY <1>2, <2>6, <2>7, <3>1, <3>3 DEF KeysKnown, LookUp
      <4>3. \A x : ~Presses(st, x)
        BY <2>1, <3>3, ClickOf
      <4>4. \A e \in Devices : \A x : Meant(e, x)' <=> Meant(e, x)
        BY <1>2, <4>1 DEF Meant
      <4>5. Settled'
        BY <1>2, <2>3, <2>4, <3>1, <4>3, <4>4, SentSettles
      <4> QED BY <4>2, <4>5
    <3> QED BY <3>2, <3>3
  <2>9. \A e \in Callers : Record(task'[e])
    BY <2>6, <2>7 DEF BInv
  <2>10. \A e \in Callers : task'[e].op = "text" => task'[e].dir = "PressRelease"
    BY <2>6, <2>7 DEF BInv
  <2> QED BY <1>2, <2>3, <2>4, <2>7, <2>8, <2>9, <2>10 DEF BInv
<1> QED BY <1>1, <1>3, <1>4 DEF EmitKey
LEMMA PointKeeps == ASSUME BInv, NEW c \in Callers, NEW r \in Requests, Point(c, r) PROVE BInv'
<1>1. PICK st : st = IF r.what # None /\ "button" \in Caps[Device(r.slot)]
                     THEN Clicks(r.what, r.dir) ELSE <<>>
  OBVIOUS
<1>2. /\ r.op = "point"
      /\ UNCHANGED <<slot, keymap, link, moved, status, down, task>>
      /\ \/ /\ Emitted(count + 1, r.slot, st)
            /\ IF r.what # None THEN Holding(r.what, r.dir) ELSE UNCHANGED held
         \/ NotEmitted(r.slot) /\ UNCHANGED held
  BY <1>1 DEF Point, server, state
<1>3. KeysKnown => KeysKnown'
  BY <1>2 DEF KeysKnown, LookUp
<1>4. CASE NotEmitted(r.slot) /\ UNCHANGED held
  <2>1. Settled => Settled'
    BY <1>2, <1>4, StillSettled DEF NotEmitted
  <2> QED BY <1>2, <1>3, <1>4, <2>1 DEF BInv, NotEmitted
<1>5. CASE /\ Emitted(count + 1, r.slot, st)
           /\ IF r.what # None THEN Holding(r.what, r.dir) ELSE UNCHANGED held
  <2>1. PICK f : f = [by |-> count + 1, dev |-> slot[r.slot], strokes |-> st,
                      alone |-> ~ShiftHeld /\ ~moved]
    OBVIOUS
  <2>2. frames' = Append(frames, f) /\ f.dev = slot[r.slot] /\ f.strokes = st /\ link = "up"
    BY <1>5, <2>1 DEF Emitted, Device
  <2>3. IsSeq(frames) /\ IsSeq(frames')
    BY <2>2, Appended DEF BInv
  <2>4. ASSUME ~moved PROVE Settled'
    <3>1. Settled
      BY <2>2, <2>4 DEF BInv
    <3>2. CASE r.what # None
      <4>1. r.slot = "pointer"
        BY <1>2, <3>2, RequestsAssumption
      <4>2. st = IF "button" \in Caps[slot["pointer"]] THEN Clicks(r.what, r.dir) ELSE <<>>
        BY <1>1, <3>2, <4>1 DEF Device
      <4>3. /\ \A x : Presses(st, x) => Meant(slot["pointer"], x)'
            /\ \A e \in Devices : \A x :
                  (Meant(e, x) /\ ~Meant(e, x)') => (e = slot["pointer"] /\ Releases(st, x))
        BY <1>2, <1>5, <3>2, <4>2, HeldButton
      <4>4. f.dev = slot["pointer"]
        BY <2>2, <4>1
      <4> QED BY <1>2, <2>2, <2>3, <3>1, <4>3, <4>4, SentSettles
    <3>3. CASE r.what = None
      <4>1. st = <<>> /\ held' = held
        BY <1>1, <1>5, <3>3
      <4>2. \A x : ~Presses(st, x)
        BY <4>1 DEF Presses
      <4>3. \A e \in Devices : \A x : Meant(e, x)' <=> Meant(e, x)
        BY <1>2, <4>1 DEF Meant
      <4> QED BY <1>2, <2>2, <2>3, <3>1, <4>2, <4>3, SentSettles
    <3> QED BY <3>2, <3>3
  <2> QED BY <1>2, <1>3, <2>2, <2>3, <2>4 DEF BInv
<1> QED BY <1>2, <1>4, <1>5

------------------------------------------------------------------------------
(* The server and the dispatcher keep it so.                               *)

LEMMA ReadFrameKeeps == ASSUME BInv, ReadFrame PROVE BInv'
<1>1. PICK f : f = Head(frames)
  OBVIOUS
<1>2. /\ frames # <<>> /\ frames' = Tail(frames)
      /\ down' = IF status[f.dev] = "resumed"
                 THEN [down EXCEPT ![f.dev] = After(@, f.strokes)] ELSE down
      /\ UNCHANGED <<slot, keymap, link, moved, status, held, task>>
  BY <1>1 DEF ReadFrame, server, state
<1>3. DOMAIN down = Devices /\ DOMAIN down' = Devices /\ IsSeq(frames) /\ IsSeq(frames')
  BY <1>2, AllButFirst DEF BInv
<1>4. \A e \in Devices : e # f.dev => down'[e] = down[e]
  BY <1>2, <1>3
<1>5. f.dev \in Devices => \/ /\ status[f.dev] = "resumed"
                              /\ down'[f.dev] = After(down[f.dev], f.strokes)
                           \/ down'[f.dev] = {} /\ status[f.dev] # "resumed"
  BY <1>2, <1>3 DEF BInv
<1>6. \A e \in Devices : status'[e] # "resumed" => down'[e] = {}
  BY <1>2, <1>4, <1>5 DEF BInv
<1>7. link = "up"
  BY <1>2 DEF BInv
<1>8. KeysKnown => KeysKnown'
  BY <1>2 DEF KeysKnown, LookUp
<1>9. Settled => Settled'
  BY <1>1, <1>2, <1>3, <1>4, <1>5, ReadSettles
<1> QED BY <1>2, <1>3, <1>6, <1>7, <1>8, <1>9 DEF BInv

\* A device comes, resumes, pauses or goes.
LEMMA ServerKeeps ==
    ASSUME BInv, DOMAIN down' = Devices, \A e \in Devices : down'[e] \in {{}, down[e]},
           \A e \in Devices : status'[e] # "resumed" => down'[e] = {},
           UNCHANGED <<frames, held, slot, keymap, link, moved, task>>
    PROVE  BInv'
<1>1. KeysKnown => KeysKnown'
  BY DEF KeysKnown, LookUp
<1>2. Settled => Settled'
  BY StillSettled
<1>3. link' # "up" => frames' = <<>> /\ \A d \in Devices : down'[d] = {}
  BY DEF BInv
<1> QED BY <1>1, <1>2, <1>3 DEF BInv

LEMMA HangUpClears == ASSUME BInv, HangUp PROVE BInv'
<1>1. /\ link' = "down" /\ frames' = <<>> /\ down' = [d \in Devices |-> {}]
      /\ UNCHANGED <<moved, task>>
  BY DEF HangUp
<1>2. IsSeq(frames')
  <2>1. <<>> \in Seq({})
    OBVIOUS
  <2> QED BY <1>1, <2>1 DEF IsSeq
<1> QED BY <1>1, <1>2 DEF BInv

\* The slots change, or else the keymap stays, while nobody calls or holds.
LEMMA SwapKeeps ==
    ASSUME BInv, link = "up" => (slot' # slot \/ keymap' = keymap), NEW d, Swapped(d),
           UNCHANGED <<frames, down, held, link, task, status>>
    PROVE  BInv'
<1>1. moved' \in BOOLEAN
  BY DEF Swapped, BInv
<1>2. ASSUME link = "up", ~moved' PROVE KeysKnown' /\ Settled'
  <2>1. ~moved /\ (slot' # slot => held = {} /\ Quiet)
    BY <1>2 DEF Swapped, BInv
  <2>2. KeysKnown /\ Settled
    BY <1>2, <2>1 DEF BInv
  <2>3. CASE slot' = slot
    <3>1. keymap' = keymap
      BY <1>2, <2>3
    <3>2. KeysKnown'
      BY <2>2, <3>1 DEF KeysKnown, LookUp
    <3> QED BY <2>2, <2>3, <3>1, <3>2, StillSettled
  <2>4. CASE slot' # slot
    <3>1. held = {} /\ frames = <<>> /\ \A c \in Callers : task[c] = Idle
      BY <2>1, <2>4 DEF Quiet, Free
    <3>2. DOMAIN frames = {}
      BY <3>1
    <3>3. \A e \in Devices : \A k : ~Meant(e, k) /\ ~Undone(e, k, 0)
      BY <3>1, <3>2 DEF Meant, Undone
    <3>4. \A e \in Devices : down[e] = {}
      BY <2>2, <3>3 DEF Settled
    <3>5. \A c \in Callers : task'[c].left = <<>>
      <4>1. Idle.left = <<>>
        BY DEF Idle
      <4> QED BY <3>1, <4>1
    <3>6. KeysKnown'
      BY <3>5 DEF KeysKnown
    <3> QED BY <3>1, <3>4, <3>6, NothingSettles
  <2> QED BY <2>3, <2>4
<1> QED BY <1>1, <1>2 DEF BInv

LEMMA HandleEventKeeps == ASSUME Inv, BInv, HandleEvent PROVE BInv'
<1> DEFINE e == Head(wire)
<1>1. /\ wire # <<>> /\ wire' = Tail(wire) /\ UNCHANGED <<frames, down, held, link, task, status>>
      /\ \/ e.kind = "added" /\ OnAdded(e.dev)
         \/ e.kind = "resumed" /\ OnResumed(e.dev)
         \/ e.kind = "removed" /\ OnRemoved(e.dev)
         \/ e.kind \in {"paused", "disconnected"} /\ OnOther(e.kind)
  BY DEF HandleEvent, server
<1>2. CASE e.kind = "added" /\ OnAdded(e.dev)
  <2>1. PICK d : d = e.dev
    OBVIOUS
  <2>2. d \in Devices /\ On("added", d)
    BY <1>1, <1>2, <2>1, Taken DEF Inv, WireInOrder, On
  <2>3. /\ slot' = Filled(d) /\ Swapped(d)
        /\ keymap' = IF "keyboard" \in Caps[d] THEN Loaded(d) ELSE keymap
    BY <1>2, <2>1 DEF OnAdded
  <2>4. ASSUME link = "up", slot' = slot PROVE keymap' = keymap
    <3>1. SUFFICES ASSUME "keyboard" \in Caps[d] PROVE FALSE
      BY <2>3
    <3>2. slot["keyboard"] = d /\ d # None
      BY <2>2, <2>3, <2>4, <3>1, DevicesAssumption DEF Filled, Slots
    <3>3. PICK i \in DOMAIN offered : Latest("keyboard", i) /\ slot["keyboard"] = offered[i]
      BY <2>4, <3>2 DEF Inv, SlotsKnown, Slots
    <3> QED BY <2>2, <3>2, <3>3 DEF Latest
  <2> QED BY <1>1, <2>3, <2>4, SwapKeeps
<1>3. CASE e.kind = "removed" /\ OnRemoved(e.dev)
  <2>1. Swapped(e.dev) /\ keymap' = keymap
    BY <1>3 DEF OnRemoved
  <2> QED BY <1>1, <2>1, SwapKeeps
<1>4. CASE \/ e.kind = "resumed" /\ OnResumed(e.dev)
           \/ e.kind \in {"paused", "disconnected"} /\ OnOther(e.kind)
  <2>1. UNCHANGED <<slot, keymap, moved>>
    BY <1>4 DEF OnResumed, OnOther, state
  <2>2. KeysKnown => KeysKnown'
    BY <1>1, <2>1 DEF KeysKnown, LookUp
  <2>3. Settled => Settled'
    BY <1>1, <2>1, StillSettled
  <2> QED BY <1>1, <2>1, <2>2, <2>3 DEF BInv
<1> QED BY <1>1, <1>2, <1>3, <1>4
LEMMA DownKeeps == ASSUME Inv, BInv, [Next]_vars PROVE BInv'
<1>1. ASSUME NEW d \in Devices, Offer(d) PROVE BInv'
  <2>1. /\ status[d] = "new" /\ status' = [status EXCEPT ![d] = "paused"]
        /\ UNCHANGED <<frames, held, slot, keymap, link, moved, task, down>>
    BY <1>1 DEF Offer, Send, state, calling
  <2>2. \A e \in Devices : status'[e] # "resumed" => down'[e] = {}
    BY <2>1 DEF Inv, Typed, BInv
  <2> QED BY <2>1, <2>2, ServerKeeps DEF BInv
<1>2. ASSUME NEW d \in Devices, Resume(d) PROVE BInv'
  <2>1. /\ status' = [status EXCEPT ![d] = "resumed"]
        /\ UNCHANGED <<frames, held, slot, keymap, link, moved, task, down>>
    BY <1>2 DEF Resume, Send, state, calling
  <2>2. \A e \in Devices : status'[e] # "resumed" => down'[e] = {}
    BY <2>1 DEF Inv, Typed, BInv
  <2> QED BY <2>1, <2>2, ServerKeeps DEF BInv
<1>3. ASSUME NEW d \in Devices, NEW kind \in {"paused", "removed"}, Withdraw(d, kind) PROVE BInv'
  <2>1. /\ status' = [status EXCEPT ![d] = kind] /\ down' = [down EXCEPT ![d] = {}]
        /\ UNCHANGED <<frames, held, slot, keymap, link, moved, task>>
    BY <1>3 DEF Withdraw, Send, state, calling
  <2>2. DOMAIN down' = Devices /\ \A e \in Devices : down'[e] = IF e = d THEN {} ELSE down[e]
    BY <2>1 DEF BInv
  <2>3. \A e \in Devices : status'[e] # "resumed" => down'[e] = {}
    BY <2>1, <2>2 DEF Inv, Typed, BInv
  <2> QED BY <2>1, <2>2, <2>3, ServerKeeps
<1>4. CASE HangUp
  BY <1>4, HangUpClears
<1>5. CASE ReadFrame
  BY <1>5, ReadFrameKeeps
<1>6. CASE HandleEvent
  BY <1>6, HandleEventKeeps
<1>7. CASE TimeOut
  <2>1. UNCHANGED <<frames, held, slot, keymap, link, moved, task, down, status>>
    BY <1>7 DEF TimeOut, state, calling, server
  <2> QED BY <2>1, ServerKeeps DEF BInv
<1>8. ASSUME NEW c \in Callers, Calls(c) PROVE BInv'
  BY <1>8, BeginKeyKeeps, BeginTextKeeps, PointKeeps, FindShiftKeeps, EmitKeyKeeps,
     NothingToEmitKeeps DEF Calls
<1>9. CASE UNCHANGED vars
  <2>1. UNCHANGED <<frames, held, slot, keymap, link, moved, task, down, status>>
    BY <1>9 DEF vars, state, calling, server
  <2> QED BY <2>1, ServerKeeps DEF BInv
<1> QED BY <1>1, <1>2, <1>3, <1>4, <1>5, <1>6, <1>7, <1>8, <1>9 DEF Next, Server

LEMMA NothingDown == Init => BInv
<1> SUFFICES ASSUME Init PROVE BInv
  OBVIOUS
<1>1. /\ frames = <<>> /\ task = [c \in Callers |-> Idle] /\ link = "up" /\ moved = FALSE
      /\ down = [d \in Devices |-> {}]
  BY DEF Init
<1>2. Record(Idle) /\ Idle.op = "" /\ Idle.left = <<>>
  BY DEF Record, Idle
<1>3. IsSeq(frames) /\ DOMAIN frames = {}
  <2>1. <<>> \in Seq({})
    OBVIOUS
  <2> QED BY <1>1, <2>1 DEF IsSeq
<1>4. KeysKnown
  BY <1>1, <1>2 DEF KeysKnown
<1>5. Settled
  BY <1>1, <1>3 DEF Settled
<1> QED BY <1>1, <1>2, <1>3, <1>4, <1>5 DEF BInv

\* Callers that hold nothing leave nothing down on any device, unless a slot
\* changed hands under a call or under something held: however many callers
\* take the lock in turns, whatever layouts the devices have, and whatever the
\* server pauses, resumes or ignores, each frame of key, type_text and
\* mouse_button takes up again what it or an earlier one took down.
THEOREM KeysComeUp == Spec => []NothingStuck
<1>1. BInv => NothingStuck
  <2> SUFFICES ASSUME BInv, Quiet, held = {}, ~moved, NEW d \in Devices PROVE down[d] = {}
    BY DEF NothingStuck
  <2>1. CASE link # "up"
    BY <2>1 DEF BInv
  <2>2. CASE link = "up"
    <3>1. Settled /\ DOMAIN frames = {}
      BY <2>2 DEF BInv, Quiet
    <3>2. \A k : ~Meant(d, k) /\ ~Undone(d, k, 0)
      BY <3>1 DEF Meant, Undone
    <3> QED BY <3>1, <3>2 DEF Settled
  <2> QED BY <2>1, <2>2
<1>2. Inv /\ BInv /\ [Next]_vars => BInv'
  BY DownKeeps
<1>3. Spec => []BInv
  BY Invariance, NothingDown, <1>2, PTL DEF Spec
<1> QED BY <1>1, <1>3, PTL

------------------------------------------------------------------------------
(* What is left of a sequence.                                             *)

\* A set of numbers has a least one: what the inductions here rest on.
LEMMA Least ==
    ASSUME NEW T, T \subseteq Nat, T # {}
    PROVE  \E m \in T : \A n \in T : m <= n
<1>1. PICK R : R = OpToRel(<, Nat)
  OBVIOUS
<1>2. IsWellFoundedOn(R, Nat)
  BY <1>1, NatLessThanWellFounded
<1>3. PICK x \in T : \A y \in T : ~(<<y, x>> \in R)
  BY <1>2, WFMin
<1>4. ASSUME NEW y \in T, y < x PROVE FALSE
  <2>1. <<y, x>> \in Nat \X Nat
    OBVIOUS
  <2>2. <<y, x>> \in R
    BY <1>1, <1>4, <2>1 DEF OpToRel
  <2> QED BY <1>3, <2>2
<1> QED BY <1>3, <1>4

\* f has what is left of the first n members of seq.
Picks(f, seq, set, n) ==
    f = [i \in 0..n |-> IF i = 0 THEN <<>>
                        ELSE IF seq[i] \in set THEN Append(f[i - 1], seq[i]) ELSE f[i - 1]]

LEMMA PicksExist ==
    ASSUME NEW seq, NEW set, NEW n \in Nat
    PROVE  \E f : Picks(f, seq, set, n)
<1> DEFINE T == {m \in Nat : ~\E f : Picks(f, seq, set, m)}
<1>1. SUFFICES ASSUME T # {} PROVE FALSE
  OBVIOUS
<1>2. PICK m \in T : \A k \in T : m <= k
  BY <1>1, Least
<1>3. m # 0
  <2>1. PICK f : f = [i \in 0..0 |-> <<>>]
    OBVIOUS
  <2>2. Picks(f, seq, set, 0)
    BY <2>1 DEF Picks
  <2> QED BY <1>2, <2>2
<1>4. m \in Nat /\ m - 1 \in Nat /\ m - 1 \notin T
  BY <1>2, <1>3
<1>5. PICK f : Picks(f, seq, set, m - 1)
  BY <1>4
<1>6. PICK v : v = IF seq[m] \in set THEN Append(f[m - 1], seq[m]) ELSE f[m - 1]
  OBVIOUS
<1>7. PICK g : g = [i \in 0..m |-> IF i = m THEN v ELSE f[i]]
  OBVIOUS
<1>8. DOMAIN g = 0..m /\ g[m] = v /\ g[m - 1] = f[m - 1]
  BY <1>4, <1>7
<1>9. ASSUME NEW i \in 0..m
      PROVE  g[i] = IF i = 0 THEN <<>>
                    ELSE IF seq[i] \in set THEN Append(g[i - 1], seq[i]) ELSE g[i - 1]
  <2>1. CASE i = m
    BY <1>3, <1>6, <1>8, <2>1
  <2>2. CASE i # m
    <3>1. i \in 0..(m - 1) /\ g[i] = f[i]
      BY <1>4, <1>7, <2>2
    <3>2. i # 0 => g[i - 1] = f[i - 1]
      BY <1>4, <1>7, <3>1
    <3>3. f[i] = IF i = 0 THEN <<>>
                 ELSE IF seq[i] \in set THEN Append(f[i - 1], seq[i]) ELSE f[i - 1]
      BY <1>5, <3>1 DEF Picks
    <3> QED BY <3>1, <3>2, <3>3
  <2> QED BY <2>1, <2>2
<1>10. Picks(g, seq, set, m)
  BY <1>7, <1>8, <1>9 DEF Picks
<1> QED BY <1>2, <1>10

\* What is left is a sequence of members of the set.
LEMMA OnlyMembers ==
    ASSUME NEW S, NEW seq \in Seq(S), NEW set
    PROVE  Only(seq, set) \in Seq(set)
<1>1. Len(seq) \in Nat
  OBVIOUS
<1>2. PICK f : f = CHOOSE g : Picks(g, seq, set, Len(seq))
  OBVIOUS
<1>3. Picks(f, seq, set, Len(seq))
  BY <1>1, <1>2, PicksExist
<1>4. Only(seq, set) = f[Len(seq)]
  BY <1>2 DEF Only, Picks
<1> DEFINE T == {m \in 0..Len(seq) : f[m] \notin Seq(set)}
<1>5. SUFFICES ASSUME T # {} PROVE FALSE
  BY <1>1, <1>4
<1>6. T \subseteq Nat
  BY <1>1
<1>7. PICK m \in T : \A k \in T : m <= k
  BY <1>5, <1>6, Least
<1>8. m # 0
  BY <1>1, <1>3, <1>7 DEF Picks
<1>9. m - 1 \in 0..Len(seq) /\ m - 1 \notin T
  BY <1>1, <1>7, <1>8
<1>10. f[m] = IF seq[m] \in set THEN Append(f[m - 1], seq[m]) ELSE f[m - 1]
  BY <1>3, <1>7, <1>8 DEF Picks
<1>11. f[m - 1] \in Seq(set)
  BY <1>9
<1>12. f[m] \in Seq(set)
  <2> QED BY <1>10, <1>11
<1> QED BY <1>7, <1>12

------------------------------------------------------------------------------
(* What a client reads of a frame.                                         *)

\* A frame between numbers j and i takes code k of device d up again.
LetGo(fr, d, k, j, i) ==
    \E m \in DOMAIN fr : j < m /\ m < i /\ fr[m].dev = d /\ Releases(fr[m].strokes, k)

\* No Shift is down when the server comes to frame i.
Unshifted(fr, dn, i) ==
    \A d \in Devices : Layout[d] \in Usable =>
        /\ ShiftOf(Layout[d]) \in dn[d] => LetGo(fr, d, ShiftOf(Layout[d]), 0, i)
        /\ \A j \in DOMAIN fr :
              (j < i /\ fr[j].dev = d /\ Presses(fr[j].strokes, ShiftOf(Layout[d])))
                  => LetGo(fr, d, ShiftOf(Layout[d]), j, i)

\* A frame that a client reads something of, and what it is meant to read.
Loud(f) == \E i \in DOMAIN f.strokes : f.strokes[i].on /\ f.strokes[i].want # None
Key(l, s) == [want |-> s, code |-> Table[l][s].code, level |-> Table[l][s].level]
Says(f, s) ==
    \E l \in Usable : \E dir :
        /\ dir # "Release"
        /\ s \in DOMAIN Table[l] /\ f.strokes = Strokes(Key(l, s), ShiftOf(l), dir)
        /\ Layout[f.dev] \in Usable => Layout[f.dev] = l

\* The frames of call n that are read of.
Saying(fr, n) == {i \in DOMAIN fr : fr[i].by = n /\ Loud(fr[i])}
InLine(fr, n, due, got, upto, at) ==
    /\ got \in Nat /\ upto \in got..Len(due)
    /\ \A i \in Saying(fr, n) : at[i] \in got + 1..upto /\ Says(fr[i], due[at[i]])
    /\ \A i, j \in Saying(fr, n) : i < j => at[i] < at[j]
    /\ \A p \in got + 1..upto : \E i \in Saying(fr, n) : at[i] = p

\* The strokes that press a key, and may release it again.
Alone(st, k) == \/ st = <<Stroke(k.code, TRUE, k.want)>>
                \/ st = <<Stroke(k.code, TRUE, k.want), Stroke(k.code, FALSE, None)>>
UnderShift(st, k, shift) ==
    \/ st = <<Stroke(shift, TRUE, None), Stroke(k.code, TRUE, k.want)>>
    \/ st = <<Stroke(shift, TRUE, None), Stroke(k.code, TRUE, k.want),
              Stroke(k.code, FALSE, None), Stroke(shift, FALSE, None)>>

LEMMA StrokesOf ==
    ASSUME NEW k, NEW shift, shift # None, NEW dir, dir # "Release"
    PROVE  /\ k.level # 1 => Alone(Strokes(k, shift, dir), k)
           /\ k.level = 1 => UnderShift(Strokes(k, shift, dir), k, shift)
<1>1. CASE k.level = 1 /\ dir = "Press"
  <2>1. Strokes(k, shift, dir) = <<Stroke(shift, TRUE, None), Stroke(k.code, TRUE, k.want)>>
    BY <1>1, Pair, Single DEF Strokes
  <2> QED BY <1>1, <2>1 DEF Alone, UnderShift
<1>2. CASE k.level # 1 /\ dir = "Press"
  <2>1. Strokes(k, shift, dir) = <<Stroke(k.code, TRUE, k.want)>>
    BY <1>2, Pair, Single DEF Strokes
  <2> QED BY <1>2, <2>1 DEF Alone, UnderShift
<1>3. CASE k.level # 1 /\ dir # "Press"
  <2>1. Strokes(k, shift, dir) = <<Stroke(k.code, TRUE, k.want), Stroke(k.code, FALSE, None)>>
    BY <1>3, Pair, Single DEF Strokes
  <2> QED BY <1>3, <2>1 DEF Alone, UnderShift
<1>4. CASE k.level = 1 /\ dir # "Press"
  <2>1. Strokes(k, shift, dir) = (<<Stroke(shift, TRUE, None)>> \o <<Stroke(k.code, TRUE, k.want)>>)
                              \o (<<Stroke(k.code, FALSE, None)>> \o <<Stroke(shift, FALSE, None)>>)
    BY <1>4 DEF Strokes
  <2>2. Strokes(k, shift, dir) = <<Stroke(shift, TRUE, None), Stroke(k.code, TRUE, k.want)>>
                              \o <<Stroke(k.code, FALSE, None), Stroke(shift, FALSE, None)>>
    BY <2>1, Pair
  <2>3. Strokes(k, shift, dir) = <<Stroke(shift, TRUE, None), Stroke(k.code, TRUE, k.want),
                                   Stroke(k.code, FALSE, None), Stroke(shift, FALSE, None)>>
    BY <2>2, Four, Zenon
  <2> QED BY <1>4, <2>3 DEF Alone, UnderShift
<1> QED BY <1>1, <1>2, <1>3, <1>4

\* Is Shift down when stroke i is read?
Shifted(d, st, i) == \/ Shifts(d, After(down[d], SubSeq(st, 1, i - 1)))
                     \/ \E e \in Devices \ {d} : Shifts(e, down[e])

\* A frame that presses one key that is wanted, stroke i.
LEMMA OneReading ==
    ASSUME NEW d, NEW st, NEW i, \A j : (j \in DOMAIN st /\ st[j].on /\ st[j].want # None) <=> j = i
    PROVE  Readings(d, st) = <<Symbol(d, st[i].code, Shifted(d, st, i))>>
<1>1. {j \in DOMAIN st : st[j].on /\ st[j].want # None} = {i}
  OBVIOUS
<1>2. (CHOOSE k \in {i} : TRUE) = i
  OBVIOUS
<1> QED BY <1>1, <1>2 DEF Readings, Shifted

LEMMA FirstOnly ==
    /\ \A a, b : SubSeq(<<a, b>>, 1, 1) = <<a>>
    /\ \A a, b, x, y : SubSeq(<<a, b, x, y>>, 1, 1) = <<a>>
<1>1. ASSUME NEW st, IsSeq(st), Len(st) > 0 PROVE SubSeq(st, 1, 1) = <<st[1]>>
  <2>1. PICK S : st \in Seq(S)
    BY <1>1 DEF IsSeq
  <2>2. PICK u : u = SubSeq(st, 1, 1)
    OBVIOUS
  <2>3. u \in Seq(S) /\ Len(u) = 1 /\ u[1] = st[1]
    BY <1>1, <2>1, <2>2
  <2>4. PICK v : v = <<st[1]>>
    OBVIOUS
  <2>5. v \in Seq({st[1]}) /\ Len(v) = 1 /\ v[1] = st[1]
    BY <2>4
  <2>6. u = [i \in 1..1 |-> u[i]] /\ v = [i \in 1..1 |-> v[i]]
    BY <2>3, <2>5
  <2>7. \A i \in 1..1 : u[i] = v[i]
    BY <2>3, <2>5
  <2>8. u = v
    BY <2>6, <2>7
  <2> QED BY <2>2, <2>4, <2>8
<1>2. ASSUME NEW a, NEW b PROVE SubSeq(<<a, b>>, 1, 1) = <<a>>
  <2>1. <<a, b>> \in Seq({a, b}) /\ Len(<<a, b>>) > 0 /\ <<a, b>>[1] = a
    OBVIOUS
  <2> QED BY <1>1, <2>1 DEF IsSeq
<1>3. ASSUME NEW a, NEW b, NEW x, NEW y PROVE SubSeq(<<a, b, x, y>>, 1, 1) = <<a>>
  <2>1. PICK st : st = <<a, b, x, y>>
    OBVIOUS
  <2>2. st \in Seq({a, b, x, y}) /\ Len(st) > 0 /\ st[1] = a
    BY <2>1
  <2> QED BY <1>1, <2>1, <2>2 DEF IsSeq
<1> QED BY <1>2, <1>3

\* A key that a frame presses while no Shift is down is read as what it is
\* meant to be, if it was looked up in the layout of the device.
LEMMA KeyIsRead ==
    ASSUME NEW f, NEW s, Says(f, s), f.dev \in Devices, Layout[f.dev] \in Usable,
           \A e \in Devices : ~Shifts(e, down[e])
    PROVE  Readings(f.dev, f.strokes) = <<s>>
<1>1. PICK d : d = f.dev
  OBVIOUS
<1>2. PICK l : l = Layout[d]
  OBVIOUS
<1>3. PICK dir :
         /\ dir # "Release"
         /\ s \in DOMAIN Table[l] /\ f.strokes = Strokes(Key(l, s), ShiftOf(l), dir)
  BY <1>1, <1>2 DEF Says
<1>4. PICK k : k = Key(l, s)
  OBVIOUS
<1>5. /\ k.want = s /\ k.code = Table[l][s].code /\ k.level = Table[l][s].level
      /\ s # None /\ k.level \in {0, 1} /\ ShiftOf(l) # None /\ l \in Usable
      /\ Table[l][s] = [code |-> k.code, level |-> k.level]
      /\ \A t \in DOMAIN Table[l] : Table[l][t] = Table[l][s] => t = s
  <2>1. l \in Usable /\ s \in DOMAIN Table[l]
    BY <1>1, <1>2, <1>3
  <2>2. k.want = s /\ k.code = Table[l][s].code /\ k.level = Table[l][s].level
    BY <1>4 DEF Key
  <2>3. /\ s # None /\ Table[l][s].level \in {0, 1}
        /\ Table[l][s] = [code |-> Table[l][s].code, level |-> Table[l][s].level]
        /\ \A t \in DOMAIN Table[l] : Table[l][t] = Table[l][s] => t = s
    BY <2>1, KeymapsAssumption
  <2>4. ShiftOf(l) # None
    BY <2>1, KeymapsAssumption DEF ShiftOf
  <2> QED BY <2>1, <2>2, <2>3, <2>4
<1>6. PICK st : st = f.strokes
  OBVIOUS
<1>7. dir # "Release"
  BY <1>3
<1>8. (k.level # 1 => Alone(st, k)) /\ (k.level = 1 => UnderShift(st, k, ShiftOf(l)))
  BY <1>3, <1>4, <1>5, <1>6, <1>7, StrokesOf
<1>9. ASSUME NEW shifted, shifted \in BOOLEAN, shifted <=> k.level = 1
      PROVE  Symbol(d, k.code, shifted) = s
  <2> DEFINE at(level) == {t \in DOMAIN Table[l] : Table[l][t] = [code |-> k.code, level |-> level]}
  <2>1. at(k.level) = {s}
    BY <1>3, <1>5
  <2>2. (CHOOSE t \in {s} : TRUE) = s
    OBVIOUS
  <2>3. Symbol(d, k.code, shifted) = IF shifted /\ at(1) # {} THEN CHOOSE t \in at(1) : TRUE
                                     ELSE IF at(0) # {} THEN CHOOSE t \in at(0) : TRUE ELSE "unknown"
    BY <1>2, <1>5 DEF Symbol
  <2> HIDE DEF at
  <2>4. CASE shifted
    <3>1. at(1) = {s}
      BY <1>9, <2>1, <2>4
    <3> QED BY <2>2, <2>3, <2>4, <3>1
  <2>5. CASE ~shifted
    <3>1. at(0) = {s}
      BY <1>5, <1>9, <2>1, <2>5
    <3> QED BY <2>2, <2>3, <2>5, <3>1
  <2> QED BY <1>9, <2>4, <2>5
<1>10. CASE k.level # 1
  <2>1. \A j : (j \in DOMAIN st /\ st[j].on /\ st[j].want # None) <=> j = 1
    BY <1>5, <1>8, <1>10 DEF Alone, Stroke
  <2>2. st[1].code = k.code
    BY <1>8, <1>10 DEF Alone, Stroke
  <2>3. Readings(d, st) = <<Symbol(d, st[1].code, Shifted(d, st, 1))>>
    BY <2>1, OneReading
  <2>4. SubSeq(st, 1, 1 - 1) = <<>>
    BY SubSeqEmpty
  <2>5. After(down[d], <<>>) = down[d]
    BY DEF After
  <2>6. ~Shifted(d, st, 1)
    BY <1>1, <2>4, <2>5 DEF Shifted
  <2>7. Symbol(d, k.code, Shifted(d, st, 1)) = s
    <3>1. Shifted(d, st, 1) = FALSE
      BY <2>6
    <3>2. Symbol(d, k.code, FALSE) = s
      BY <1>9, <1>10
    <3> QED BY <3>1, <3>2
  <2> QED BY <1>1, <1>6, <2>2, <2>3, <2>7
<1>11. CASE k.level = 1
  <2>1. \A j : (j \in DOMAIN st /\ st[j].on /\ st[j].want # None) <=> j = 2
    BY <1>5, <1>8, <1>11 DEF UnderShift, Stroke
  <2>2. st[2].code = k.code
    BY <1>8, <1>11 DEF UnderShift, Stroke
  <2>3. Readings(d, st) = <<Symbol(d, st[2].code, Shifted(d, st, 2))>>
    BY <2>1, OneReading
  <2>4. PICK u : u = <<Stroke(ShiftOf(l), TRUE, None)>>
    OBVIOUS
  <2>5. SubSeq(st, 1, 2 - 1) = u
    <3>1. PICK a, b : a = Stroke(ShiftOf(l), TRUE, None) /\ b = Stroke(k.code, TRUE, k.want)
      OBVIOUS
    <3>2. PICK x, y : x = Stroke(k.code, FALSE, None) /\ y = Stroke(ShiftOf(l), FALSE, None)
      OBVIOUS
    <3>3. st = <<a, b>> \/ st = <<a, b, x, y>>
      BY <1>8, <1>11, <3>1, <3>2 DEF UnderShift
    <3>4. SubSeq(st, 1, 1) = <<a>>
      BY <3>3, FirstOnly
    <3>5. 2 - 1 = 1
      OBVIOUS
    <3> QED BY <2>4, <3>1, <3>4, <3>5
  <2>6. ShiftOf(l) \in After(down[d], u)
    BY <2>4 DEF After, Stroke
  <2>7. Shifted(d, st, 2)
    BY <1>2, <1>5, <2>5, <2>6 DEF Shifts, Shifted
  <2>8. Symbol(d, k.code, Shifted(d, st, 2)) = s
    <3>1. Shifted(d, st, 2) = TRUE
      BY <2>7
    <3>2. Symbol(d, k.code, TRUE) = s
      BY <1>9, <1>11
    <3> QED BY <3>1, <3>2
  <2> QED BY <1>1, <1>6, <2>2, <2>3, <2>8
<1> QED BY <1>10, <1>11

\* Nothing is read of a frame that presses no key that is wanted.
LEMMA NothingRead ==
    ASSUME NEW f, ~Loud(f)
    PROVE  Readings(f.dev, f.strokes) = <<>>
<1>1. {i \in DOMAIN f.strokes : f.strokes[i].on /\ f.strokes[i].want # None} = {}
  BY DEF Loud
<1> QED BY <1>1 DEF Readings
------------------------------------------------------------------------------
(* The frames of a call, in line.                                          *)

\* A frame that is not read of for call n changes nothing for it.
LEMMA SilentJoins ==
    ASSUME NEW fr, IsSeq(fr), NEW f, NEW n, ~(f.by = n /\ Loud(f)),
           NEW due, NEW got, NEW u, NEW at, InLine(fr, n, due, got, u, at)
    PROVE  InLine(Append(fr, f), n, due, got, u, at)
<1>1. PICK g : g = Append(fr, f)
  OBVIOUS
<1>2. /\ Len(fr) \in Nat /\ DOMAIN fr = 1..Len(fr) /\ DOMAIN g = 1..(Len(fr) + 1)
      /\ \A i \in DOMAIN fr : g[i] = fr[i]
      /\ g[Len(fr) + 1] = f
  BY <1>1, Appended
<1>3. Saying(g, n) = Saying(fr, n)
  BY <1>2 DEF Saying
<1>4. \A i \in Saying(fr, n) : g[i] = fr[i]
  BY <1>2 DEF Saying
<1> QED BY <1>1, <1>3, <1>4 DEF InLine

\* A frame that says the next thing due.
LEMMA NextJoins ==
    ASSUME NEW fr, IsSeq(fr), NEW f, NEW n, f.by = n, Loud(f),
           NEW due, Len(due) \in Nat, NEW got, NEW u, NEW at, InLine(fr, n, due, got, u, at),
           u + 1 <= Len(due), Says(f, due[u + 1])
    PROVE  \E at2 : InLine(Append(fr, f), n, due, got, u + 1, at2)
<1>1. PICK g : g = Append(fr, f)
  OBVIOUS
<1>2. PICK m : m = Len(fr) + 1
  OBVIOUS
<1>3. /\ m \in Nat /\ DOMAIN fr = 1..(m - 1) /\ DOMAIN g = 1..m
      /\ \A i \in DOMAIN fr : g[i] = fr[i]
      /\ g[m] = f
  BY <1>1, <1>2, Appended
<1>4. PICK b : b = [i \in 1..m |-> IF i = m THEN u + 1 ELSE at[i]]
  OBVIOUS
<1>5. Saying(g, n) = Saying(fr, n) \cup {m} /\ \A i \in Saying(fr, n) : i \in 1..(m - 1) /\ i # m
  <2>0. m \in Nat /\ m >= 1
    BY <1>2, Appended
  <2>1. m \in 1..m /\ \A i \in 1..(m - 1) : i \in 1..m /\ i # m
    BY <2>0
  <2>2. \A i \in 1..m : i = m \/ i \in 1..(m - 1)
    BY <1>3
  <2> QED BY <1>3, <2>1, <2>2 DEF Saying
<1>6. b[m] = u + 1 /\ \A i \in Saying(fr, n) : b[i] = at[i] /\ g[i] = fr[i]
  <2>1. m \in Nat /\ m >= 1
    BY <1>2, Appended
  <2>2. m \in 1..m /\ \A i \in 1..(m - 1) : i \in 1..m
    BY <2>1
  <2>3. \A i \in 1..m : b[i] = IF i = m THEN u + 1 ELSE at[i]
    BY <1>4
  <2>4. b[m] = u + 1
    BY <2>2, <2>3
  <2>5. \A i \in Saying(fr, n) : b[i] = at[i]
    BY <1>5, <2>2, <2>3
  <2> QED BY <1>3, <1>5, <2>4, <2>5
<1>7. got \in Nat /\ u \in Nat /\ got <= u /\ u + 1 \in got..Len(due)
  BY DEF InLine
<1>8. \A i \in Saying(g, n) : b[i] \in got + 1..u + 1 /\ Says(g[i], due[b[i]])
  <2>1. \A i \in Saying(fr, n) : at[i] \in got + 1..u /\ Says(fr[i], due[at[i]])
    BY DEF InLine
  <2>2. \A x \in got + 1..u : x \in got + 1..u + 1
    BY <1>7
  <2>3. u + 1 \in got + 1..u + 1
    BY <1>7
  <2> QED BY <1>3, <1>5, <1>6, <2>1, <2>2, <2>3
<1>9. ASSUME NEW i \in Saying(g, n), NEW j \in Saying(g, n), i < j PROVE b[i] < b[j]
  <2>1. i # m
    BY <1>3, <1>5, <1>9
  <2>2. i \in Saying(fr, n) /\ b[i] = at[i]
    BY <1>5, <1>6, <2>1
  <2>3. CASE j = m
    <3>1. at[i] \in got + 1..u
      BY <2>2 DEF InLine
    <3> QED BY <1>6, <1>7, <2>2, <2>3, <3>1
  <2>4. CASE j # m
    <3>1. j \in Saying(fr, n) /\ b[j] = at[j]
      BY <1>5, <1>6, <2>4
    <3> QED BY <1>9, <2>2, <3>1 DEF InLine
  <2> QED BY <2>3, <2>4
<1>10. ASSUME NEW p \in got + 1..u + 1 PROVE \E i \in Saying(g, n) : b[i] = p
  <2>1. CASE p = u + 1
    BY <1>5, <1>6, <2>1
  <2>2. CASE p # u + 1
    <3>1. p \in got + 1..u
      BY <1>7, <2>2
    <3>2. PICK i \in Saying(fr, n) : at[i] = p
      BY <3>1 DEF InLine
    <3> QED BY <1>5, <1>6, <3>2
  <2> QED BY <2>1, <2>2
<1>11. InLine(g, n, due, got, u + 1, b)
  BY <1>7, <1>8, <1>9, <1>10 DEF InLine
<1> QED BY <1>1, <1>11

\* What the frames of a call are, once the first of all frames is read.
LEMMA Moved ==
    ASSUME NEW fr, IsSeq(fr), fr # <<>>, NEW n
    PROVE  /\ 1 \in DOMAIN fr /\ Head(fr) = fr[1]
           /\ \A i \in Saying(Tail(fr), n) : /\ i \in Nat /\ i + 1 \in Saying(fr, n)
                                             /\ Tail(fr)[i] = fr[i + 1]
           /\ \A i \in Saying(fr, n) : i # 1 => i \in Nat /\ i - 1 \in Saying(Tail(fr), n)
<1>1. PICK g : g = Tail(fr)
  OBVIOUS
<1>2. /\ Len(fr) \in Nat /\ Head(fr) = fr[1] /\ 1 \in DOMAIN fr
      /\ DOMAIN fr = 1..Len(fr) /\ DOMAIN g = 1..(Len(fr) - 1)
      /\ \A i \in DOMAIN g : i + 1 \in DOMAIN fr /\ g[i] = fr[i + 1]
  BY <1>1, AllButFirst
<1>3. \A i \in Saying(g, n) : i \in Nat /\ i + 1 \in Saying(fr, n) /\ g[i] = fr[i + 1]
  BY <1>2 DEF Saying
<1>4. ASSUME NEW i \in Saying(fr, n), i # 1 PROVE i \in Nat /\ i - 1 \in Saying(g, n)
  <2>1. i \in DOMAIN fr
    BY DEF Saying
  <2>2. i - 1 \in DOMAIN g /\ (i - 1) + 1 = i
    BY <1>2, <1>4, <2>1
  <2>3. g[i - 1] = fr[i]
    BY <1>2, <2>2
  <2> QED BY <1>2, <2>1, <2>2, <2>3 DEF Saying
<1> QED BY <1>1, <1>2, <1>3, <1>4

LEMMA SilentRead ==
    ASSUME NEW fr, IsSeq(fr), fr # <<>>, NEW n, ~(Head(fr).by = n /\ Loud(Head(fr))),
           NEW due, NEW got, NEW u, NEW at, InLine(fr, n, due, got, u, at)
    PROVE  \E at2 : InLine(Tail(fr), n, due, got, u, at2)
<1>1. PICK g : g = Tail(fr)
  OBVIOUS
<1>2. /\ 1 \in DOMAIN fr /\ Head(fr) = fr[1]
      /\ \A i \in Saying(g, n) : i \in Nat /\ i + 1 \in Saying(fr, n) /\ g[i] = fr[i + 1]
      /\ \A i \in Saying(fr, n) : i # 1 => i \in Nat /\ i - 1 \in Saying(g, n)
  BY <1>1, Moved
<1>3. 1 \notin Saying(fr, n)
  BY <1>2 DEF Saying
<1>4. PICK b : b = [i \in Nat |-> at[i + 1]]
  OBVIOUS
<1>5. \A i \in Saying(g, n) : b[i] = at[i + 1] /\ g[i] = fr[i + 1]
  BY <1>2, <1>4
<1>6. \A i \in Saying(g, n) : b[i] \in got + 1..u /\ Says(g[i], due[b[i]])
  BY <1>2, <1>5 DEF InLine
<1>7. \A i, j \in Saying(g, n) : i < j => b[i] < b[j]
  BY <1>2, <1>5 DEF InLine
<1>8. ASSUME NEW p \in got + 1..u PROVE \E i \in Saying(g, n) : b[i] = p
  <2>1. PICK i \in Saying(fr, n) : at[i] = p
    BY DEF InLine
  <2>2. i \in Nat /\ i - 1 \in Saying(g, n) /\ (i - 1) + 1 = i
    BY <1>2, <1>3, <2>1
  <2> QED BY <1>5, <2>1, <2>2
<1>9. InLine(g, n, due, got, u, b)
  BY <1>6, <1>7, <1>8 DEF InLine
<1> QED BY <1>1, <1>9

\* The first frame says what is due next.
LEMMA NextRead ==
    ASSUME NEW fr, IsSeq(fr), fr # <<>>, NEW n, Head(fr).by = n, Loud(Head(fr)),
           NEW due, Len(due) \in Nat, NEW got, NEW u, NEW at, InLine(fr, n, due, got, u, at)
    PROVE  /\ got + 1 <= Len(due) /\ got \in Nat /\ Says(Head(fr), due[got + 1])
           /\ \E at2 : InLine(Tail(fr), n, due, got + 1, u, at2)
<1>1. PICK g : g = Tail(fr)
  OBVIOUS
<1>2. /\ 1 \in DOMAIN fr /\ Head(fr) = fr[1]
      /\ \A i \in Saying(g, n) : i \in Nat /\ i + 1 \in Saying(fr, n) /\ g[i] = fr[i + 1]
      /\ \A i \in Saying(fr, n) : i # 1 => i \in Nat /\ i - 1 \in Saying(g, n)
  BY <1>1, Moved
<1>3. 1 \in Saying(fr, n)
  BY <1>2 DEF Saying
<1>4. got \in Nat /\ u \in Nat /\ u <= Len(due) /\ at[1] \in got + 1..u /\ Says(fr[1], due[at[1]])
  BY <1>3 DEF InLine
<1>5. \A i \in Saying(g, n) : i > 0
  <2>1. IsSeq(g) /\ DOMAIN g = 1..(Len(fr) - 1) /\ Len(fr) \in Nat
    BY <1>1, AllButFirst
  <2> QED BY <2>1 DEF Saying
<1>6. at[1] = got + 1
  <2>1. PICK i \in Saying(fr, n) : at[i] = got + 1
    <3>1. got + 1 \in got + 1..u
      BY <1>4
    <3> QED BY <3>1 DEF InLine
  <2>2. SUFFICES ASSUME i # 1 PROVE FALSE
    BY <2>1
  <2>3. i \in Nat /\ i - 1 \in Saying(g, n)
    BY <1>2, <2>1, <2>2
  <2>4. 1 < i
    BY <1>5, <2>3
  <2>5. at[1] < at[i]
    BY <1>3, <2>1, <2>4 DEF InLine
  <2> QED BY <1>4, <2>1, <2>5
<1>7. PICK b : b = [i \in Nat |-> at[i + 1]]
  OBVIOUS
<1>8. \A i \in Saying(g, n) : b[i] = at[i + 1] /\ g[i] = fr[i + 1]
  BY <1>2, <1>7
<1>9. ASSUME NEW i \in Saying(g, n) PROVE b[i] \in got + 1 + 1..u
  <2>1. at[i + 1] \in got + 1..u /\ i + 1 \in Saying(fr, n) /\ 1 < i + 1
    BY <1>2, <1>5 DEF InLine
  <2>2. at[1] < at[i + 1]
    BY <1>3, <2>1 DEF InLine
  <2> QED BY <1>4, <1>6, <1>8, <2>1, <2>2
<1>10. \A i \in Saying(g, n) : Says(g[i], due[b[i]])
  BY <1>2, <1>8 DEF InLine
<1>11. \A i, j \in Saying(g, n) : i < j => b[i] < b[j]
  BY <1>2, <1>8 DEF InLine
<1>12. ASSUME NEW p \in got + 1 + 1..u PROVE \E i \in Saying(g, n) : b[i] = p
  <2>1. p \in got + 1..u /\ p # got + 1
    BY <1>4
  <2>2. PICK i \in Saying(fr, n) : at[i] = p
    BY <2>1 DEF InLine
  <2>3. i \in Nat /\ i - 1 \in Saying(g, n) /\ (i - 1) + 1 = i
    BY <1>2, <1>6, <2>1, <2>2
  <2> QED BY <1>8, <2>2, <2>3
<1>13. got + 1 \in Nat /\ u \in got + 1..Len(due)
  BY <1>4, <1>6
<1>14. InLine(g, n, due, got + 1, u, b)
  BY <1>9, <1>10, <1>11, <1>12, <1>13 DEF InLine
<1> QED BY <1>1, <1>2, <1>4, <1>6, <1>13, <1>14

\* No frame of the call is left: all that was sent has been read.
LEMMA AllRead ==
    ASSUME NEW fr, NEW n, Saying(fr, n) = {},
           NEW due, Len(due) \in Nat, NEW got, NEW u, NEW at, InLine(fr, n, due, got, u, at)
    PROVE  got = u
<1>1. got \in Nat /\ u \in Nat /\ got <= u
  BY DEF InLine
<1>2. SUFFICES ASSUME got < u PROVE FALSE
  BY <1>1
<1>3. got + 1 \in got + 1..u
  BY <1>1, <1>2
<1> QED BY <1>3 DEF InLine

------------------------------------------------------------------------------
(* Shift is not down.                                                      *)

LEMMA JoinsUnshifted ==
    ASSUME NEW fr, IsSeq(fr), NEW f, NEW dn, NEW i \in DOMAIN fr, Unshifted(fr, dn, i)
    PROVE  Unshifted(Append(fr, f), dn, i)
<1>1. PICK g : g = Append(fr, f)
  OBVIOUS
<1>2. /\ Len(fr) \in Nat /\ DOMAIN fr = 1..Len(fr) /\ DOMAIN g = 1..(Len(fr) + 1)
      /\ \A j \in DOMAIN fr : g[j] = fr[j]
  BY <1>1, Appended
<1>3. \A d, k, j : LetGo(fr, d, k, j, i) => LetGo(g, d, k, j, i)
  BY <1>2 DEF LetGo
<1>4. \A j \in DOMAIN g : j < i => j \in DOMAIN fr
  BY <1>2
<1>5. Unshifted(g, dn, i)
  BY <1>2, <1>3, <1>4 DEF Unshifted
<1> QED BY <1>1, <1>5

LEMMA LessUnshifted ==
    ASSUME NEW fr, NEW i, NEW dn, NEW dn2, \A e \in Devices : dn2[e] \in {{}, dn[e]},
           Unshifted(fr, dn, i)
    PROVE  Unshifted(fr, dn2, i)
BY DEF Unshifted

LEMMA ReadUnshifted ==
    ASSUME NEW fr, IsSeq(fr), fr # <<>>, NEW dn, NEW dn2, NEW i \in DOMAIN Tail(fr),
           \A e \in Devices : e # Head(fr).dev => dn2[e] = dn[e],
           Head(fr).dev \in Devices =>
               dn2[Head(fr).dev] \in {{}, After(dn[Head(fr).dev], Head(fr).strokes)},
           Unshifted(fr, dn, i + 1)
    PROVE  Unshifted(Tail(fr), dn2, i)
<1>1. PICK g, f : g = Tail(fr) /\ f = Head(fr)
  OBVIOUS
<1>2. /\ Len(fr) \in Nat /\ f = fr[1] /\ 1 \in DOMAIN fr
      /\ DOMAIN fr = 1..Len(fr) /\ DOMAIN g = 1..(Len(fr) - 1)
      /\ \A j \in DOMAIN g : j + 1 \in DOMAIN fr /\ g[j] = fr[j + 1]
  BY <1>1, AllButFirst
<1>3. i \in Nat /\ i > 0
  BY <1>1, <1>2
<1>4. ASSUME NEW d, NEW k, NEW j \in Nat, LetGo(fr, d, k, j + 1, i + 1)
      PROVE  LetGo(g, d, k, j, i)
  <2>1. PICK m \in DOMAIN fr :
           j + 1 < m /\ m < i + 1 /\ fr[m].dev = d /\ Releases(fr[m].strokes, k)
    BY <1>4 DEF LetGo
  <2>2. m - 1 \in DOMAIN g /\ j < m - 1 /\ m - 1 < i /\ (m - 1) + 1 = m
    BY <1>2, <1>3, <2>1
  <2>3. g[m - 1] = fr[m]
    BY <1>2, <2>2
  <2> QED BY <2>1, <2>2, <2>3 DEF LetGo
<1>5. ASSUME NEW d \in Devices, Layout[d] \in Usable, NEW k, k = ShiftOf(Layout[d]), k \in dn2[d]
      PROVE  LetGo(g, d, k, 0, i)
  <2>1. 0 \in Nat /\ 0 + 1 = 1
    OBVIOUS
  <2>2. CASE d = f.dev /\ Presses(f.strokes, k)
    <3>1. 1 < i + 1
      BY <1>3
    <3>2. LetGo(fr, d, k, 1, i + 1)
      BY <1>2, <1>5, <2>2, <3>1 DEF Unshifted
    <3> QED BY <1>4, <2>1, <3>2
  <2>3. CASE ~(d = f.dev /\ Presses(f.strokes, k))
    <3>1. k \in dn[d] /\ ~(d = f.dev /\ Releases(f.strokes, k))
      BY <1>1, <1>5, <2>3, StrokesSettle
    <3>2. LetGo(fr, d, k, 0, i + 1)
      BY <1>5, <3>1 DEF Unshifted
    <3>3. PICK m \in DOMAIN fr :
             0 < m /\ m < i + 1 /\ fr[m].dev = d /\ Releases(fr[m].strokes, k)
      BY <3>2 DEF LetGo
    <3>4. m # 1
      BY <1>2, <3>1, <3>3
    <3>5. 1 < m
      BY <1>2, <3>3, <3>4
    <3>6. LetGo(fr, d, k, 1, i + 1)
      BY <3>3, <3>5 DEF LetGo
    <3> QED BY <1>4, <2>1, <3>6
  <2> QED BY <2>2, <2>3
<1>6. ASSUME NEW d \in Devices, Layout[d] \in Usable, NEW j \in DOMAIN g, j < i,
             g[j].dev = d, Presses(g[j].strokes, ShiftOf(Layout[d]))
      PROVE  LetGo(g, d, ShiftOf(Layout[d]), j, i)
  <2>1. j + 1 \in DOMAIN fr /\ g[j] = fr[j + 1] /\ j \in Nat
    BY <1>2
  <2>2. j + 1 < i + 1
    BY <1>3, <1>6, <2>1
  <2>3. LetGo(fr, d, ShiftOf(Layout[d]), j + 1, i + 1)
    BY <1>6, <2>1, <2>2 DEF Unshifted
  <2> QED BY <1>4, <2>1, <2>3
<1>7. Unshifted(g, dn2, i)
  BY <1>5, <1>6 DEF Unshifted
<1> QED BY <1>1, <1>7
------------------------------------------------------------------------------
(* What a call is still to type, and what has been read of it.             *)

\* A call that was not interfered with: t is what is left of it, w its
\* account, and u of what is due has been sent.
Rest(t) == IF t.dir = "Release" THEN 0 ELSE Len(t.left)
Owed(map, t, w, u) ==
    /\ map \in Usable /\ t.shift \in {"later", ShiftOf(map)} /\ ~w.ok
    /\ \A i \in DOMAIN t.left : \E s \in DOMAIN Table[map] : t.left[i] = Key(map, s)
    /\ u + Rest(t) = Len(w.due)
    /\ \A i \in 1..Rest(t) : t.left[i].want = w.due[u + i]

\* Of call n, u symbols have been sent; frame i is for symbol at[i].
Told(n, at, u) ==
    /\ \A i \in DOMAIN text[n].read : text[n].read[i] = text[n].due[i]
    /\ InLine(frames, n, text[n].due, Len(text[n].read), u, at)
    /\ text[n].ok => u = Len(text[n].due)
    /\ \A c \in Callers : (task[c] # Idle /\ task[c].id = n) => Owed(keymap, task[c], text[n], u)

Account(w) ==
    /\ w = [due |-> w.due, read |-> w.read, sure |-> w.sure, ok |-> w.ok]
    /\ IsSeq(w.due) /\ IsSeq(w.read) /\ w.sure \in BOOLEAN /\ w.ok \in BOOLEAN
Accounts == count \in Nat /\ DOMAIN text = 1..MaxCalls /\ \A n \in DOMAIN text : Account(text[n])
CallsKnown ==
    /\ \A c \in Callers : task[c] # Idle => task[c].id \in 1..count /\ IsSeq(task[c].left)
    /\ \A c, e \in Callers : (task[c] # Idle /\ task[e] # Idle /\ task[c].id = task[e].id) => c = e
FramesKnown ==
    \A i \in DOMAIN frames :
        /\ frames[i].by \in 1..count /\ frames[i].dev \in Devices /\ frames[i].alone \in BOOLEAN
        /\ frames[i].alone => Unshifted(frames, down, i)
Story == \A n \in DOMAIN text : text[n].sure => \E at, u : Told(n, at, u)

CInv == Accounts /\ CallsKnown /\ FramesKnown /\ Story

LEMMA SeqLen == ASSUME NEW s, IsSeq(s) PROVE Len(s) \in Nat /\ DOMAIN s = 1..Len(s)
BY DEF IsSeq

LEMMA ToldStill ==
    ASSUME NEW n, NEW at, NEW u, Told(n, at, u), text'[n] = text[n], frames' = frames,
           \A c \in Callers : (task'[c] # Idle /\ task'[c].id = n)
                                  => task'[c] = task[c] /\ keymap' = keymap
    PROVE  Told(n, at, u)'
BY DEF Told

\* A doubt about a call is all that is new.
LEMMA NothingToTell ==
    ASSUME CInv, UNCHANGED <<frames, count, task>>,
           \A e \in Devices : down'[e] \in {{}, down[e]}, DOMAIN text' = DOMAIN text,
           \A n \in DOMAIN text :
              \/ /\ text'[n] = text[n]
                 /\ \A c \in Callers : (task[c] # Idle /\ task[c].id = n) => keymap' = keymap
              \/ text'[n] = [text[n] EXCEPT !.sure = FALSE]
    PROVE  CInv'
<1>1. Accounts'
  <2>1. ASSUME NEW n \in DOMAIN text PROVE Account(text'[n])
    <3>1. Account(text[n])
      BY DEF CInv, Accounts
    <3> QED BY <3>1 DEF Account
  <2> QED BY <2>1 DEF CInv, Accounts
<1>2. CallsKnown'
  BY DEF CInv, CallsKnown
<1>3. FramesKnown'
  <2>1. PICK dn, dn2 : dn = down /\ dn2 = down'
    OBVIOUS
  <2>2. PICK fr : fr = frames
    OBVIOUS
  <2>3. \A i \in DOMAIN frames : Unshifted(frames, down, i) => Unshifted(frames', down', i)
    BY <2>1, <2>2, LessUnshifted
  <2> QED BY <2>3 DEF CInv, FramesKnown
<1>4. ASSUME NEW n \in DOMAIN text', text'[n].sure PROVE \E at, u : Told(n, at, u)'
  <2>1. Account(text[n]) /\ n \in DOMAIN text
    BY DEF CInv, Accounts
  <2>2. text'[n] # [text[n] EXCEPT !.sure = FALSE]
    BY <1>4, <2>1 DEF Account
  <2>3. text'[n] = text[n] /\ \A c \in Callers : (task[c] # Idle /\ task[c].id = n) => keymap' = keymap
    BY <2>1, <2>2
  <2>4. PICK at, u : Told(n, at, u)
    BY <1>4, <2>1, <2>3 DEF CInv, Story
  <2> QED BY <2>3, <2>4, ToldStill
<1> QED BY <1>1, <1>2, <1>3, <1>4 DEF CInv, Story

LEMMA HandleTells == ASSUME Inv, CInv, HandleEvent PROVE CInv'
<1> DEFINE e == Head(wire)
<1>1. /\ UNCHANGED <<frames, down, count, task>>
      /\ \/ e.kind = "added" /\ OnAdded(e.dev)
         \/ e.kind = "resumed" /\ OnResumed(e.dev)
         \/ e.kind = "removed" /\ OnRemoved(e.dev)
         \/ e.kind \in {"paused", "disconnected"} /\ OnOther(e.kind)
  BY DEF HandleEvent, server
<1>2. ASSUME NEW d, Swapped(d), "keyboard" \notin Caps[d] => keymap' = keymap PROVE CInv'
  <2>1. /\ DOMAIN text' = DOMAIN text
        /\ \A n \in DOMAIN text :
              text'[n] = IF "keyboard" \in Caps[d] /\ \E c \in Callers : task[c].id = n
                         THEN [text[n] EXCEPT !.sure = FALSE] ELSE text[n]
    BY <1>2 DEF Swapped
  <2>2. ASSUME NEW n \in DOMAIN text, text'[n] # [text[n] EXCEPT !.sure = FALSE]
        PROVE  /\ text'[n] = text[n]
               /\ \A c \in Callers : (task[c] # Idle /\ task[c].id = n) => keymap' = keymap
    <3>1. ~("keyboard" \in Caps[d] /\ \E c \in Callers : task[c].id = n)
      BY <2>1, <2>2
    <3> QED BY <1>2, <2>1, <3>1
  <2> QED BY <1>1, <2>1, <2>2, NothingToTell
<1>3. CASE e.kind = "added" /\ OnAdded(e.dev)
  BY <1>2, <1>3 DEF OnAdded
<1>4. CASE e.kind = "removed" /\ OnRemoved(e.dev)
  BY <1>2, <1>4 DEF OnRemoved
<1>5. CASE \/ e.kind = "resumed" /\ OnResumed(e.dev)
           \/ e.kind \in {"paused", "disconnected"} /\ OnOther(e.kind)
  <2>1. UNCHANGED <<keymap, text>>
    BY <1>5 DEF OnResumed, OnOther, state
  <2> QED BY <1>1, <2>1, NothingToTell
<1> QED BY <1>1, <1>3, <1>4, <1>5

LEMMA HangUpTells == ASSUME CInv, HangUp PROVE CInv'
<1>1. /\ frames' = <<>> /\ UNCHANGED <<count, task, keymap>>
      /\ text' = [n \in DOMAIN text |-> IF \E i \in DOMAIN frames : frames[i].by = n
                                       THEN [text[n] EXCEPT !.sure = FALSE] ELSE text[n]]
  BY DEF HangUp, state
<1>2. DOMAIN text' = DOMAIN text /\ DOMAIN frames' = {}
  BY <1>1
<1>3. Accounts'
  <2>1. ASSUME NEW n \in DOMAIN text PROVE Account(text'[n])
    <3>1. Account(text[n])
      BY DEF CInv, Accounts
    <3> QED BY <1>1, <3>1 DEF Account
  <2> QED BY <1>1, <1>2, <2>1 DEF CInv, Accounts
<1>4. CallsKnown' /\ FramesKnown'
  BY <1>1, <1>2 DEF CInv, CallsKnown, FramesKnown
<1>5. ASSUME NEW n \in DOMAIN text, text'[n].sure PROVE \E at, u : Told(n, at, u)'
  <2>1. Account(text[n])
    BY DEF CInv, Accounts
  <2>2. text'[n] = text[n] /\ \A i \in DOMAIN frames : frames[i].by # n
    BY <1>1, <1>5, <2>1 DEF Account
  <2>3. PICK at, u : Told(n, at, u)
    BY <1>5, <2>2 DEF CInv, Story
  <2>4. Saying(frames, n) = {} /\ Saying(frames', n) = {}
    BY <1>2, <2>2 DEF Saying
  <2>5. InLine(frames', n, text[n].due, Len(text[n].read), u, at)
    BY <2>3, <2>4 DEF Told, InLine
  <2> QED BY <1>1, <2>2, <2>3, <2>5 DEF Told
<1> QED BY <1>2, <1>3, <1>4, <1>5 DEF CInv, Story

------------------------------------------------------------------------------
(* The calls.                                                              *)

LEMMA BegunTells ==
    ASSUME BInv, CInv, NEW c \in Callers, NEW t, NEW w, Begin(c, t, w), Account(w), w.read = <<>>,
           \/ t = Idle /\ w.due = <<>> /\ ~w.ok
           \/ t.id = count + 1 /\ IsSeq(t.left) /\ Owed(keymap, t, w, 0)
    PROVE  CInv'
<1>1. /\ count' = count + 1 /\ task[c] = Idle /\ count < MaxCalls
      /\ task' = [task EXCEPT ![c] = t] /\ text' = [text EXCEPT ![count + 1] = w]
      /\ UNCHANGED <<frames, down, keymap>>
  BY DEF Begin, Free, state
<1>2. /\ count \in Nat /\ count + 1 \in DOMAIN text /\ DOMAIN text' = DOMAIN text
      /\ \A n \in DOMAIN text : text'[n] = IF n = count + 1 THEN w ELSE text[n]
  BY <1>1, DevicesAssumption DEF CInv, Accounts
<1>3. DOMAIN task = Callers /\ \A e \in Callers : task'[e] = IF e = c THEN t ELSE task[e]
  BY <1>1 DEF BInv
<1>4. Accounts'
  BY <1>1, <1>2 DEF CInv, Accounts
<1>5. \A x \in 1..count : x \in 1..count' /\ x # count + 1
  BY <1>1, <1>2
<1>6. CallsKnown'
  <2>1. \A e \in Callers : (e # c /\ task[e] # Idle) => task[e].id \in 1..count
    BY DEF CInv, CallsKnown
  <2>2. count + 1 \in 1..count'
    BY <1>1, <1>2
  <2>3. ASSUME NEW e \in Callers, task'[e] # Idle PROVE task'[e].id \in 1..count' /\ IsSeq(task'[e].left)
    BY <1>3, <1>5, <2>2, <2>3 DEF CInv, CallsKnown
  <2>4. ASSUME NEW d \in Callers, NEW e \in Callers, task'[d] # Idle, task'[e] # Idle,
               task'[d].id = task'[e].id
        PROVE  d = e
    <3>1. CASE d # c /\ e # c
      BY <1>3, <2>4, <3>1 DEF CInv, CallsKnown
    <3>2. CASE d = c /\ e # c
      BY <1>3, <1>5, <2>1, <2>4, <3>2
    <3>3. CASE d # c /\ e = c
      BY <1>3, <1>5, <2>1, <2>4, <3>3
    <3> QED BY <3>1, <3>2, <3>3
  <2> QED BY <2>3, <2>4 DEF CallsKnown
<1>7. FramesKnown'
  BY <1>1, <1>5 DEF CInv, FramesKnown
<1>8. ASSUME NEW n \in DOMAIN text, text'[n].sure PROVE \E at, u : Told(n, at, u)'
  <2>1. CASE n # count + 1
    <3>1. text'[n] = text[n]
      BY <1>2, <2>1
    <3>2. PICK at, u : Told(n, at, u)
      BY <1>8, <3>1 DEF CInv, Story
    <3>3. \A e \in Callers : (task'[e] # Idle /\ task'[e].id = n) => task'[e] = task[e]
      BY <1>3, <2>1
    <3> QED BY <1>1, <3>1, <3>2, <3>3, ToldStill
  <2>2. CASE n = count + 1
    <3>1. text'[n] = w
      BY <1>2, <2>2
    <3>2. \A i \in DOMAIN frames : frames[i].by # n
      BY <1>5, <2>2 DEF CInv, FramesKnown
    <3>3. Saying(frames, n) = {}
      BY <3>2 DEF Saying
    <3>4. \A i \in 0 + 1..0 : FALSE
      OBVIOUS
    <3>5. Len(w.due) \in Nat /\ Len(w.read) = 0 /\ DOMAIN w.read = {}
      BY SeqLen DEF Account
    <3>6. 0 \in 0..Len(w.due)
      BY <3>5
    <3>7. InLine(frames, n, w.due, 0, 0, <<>>)
      BY <3>3, <3>4, <3>6 DEF InLine
    <3>8. w.ok => 0 = Len(w.due)
      BY DEF Owed
    <3>9. \A e \in Callers : (e # c /\ task[e] # Idle) => task[e].id # n
      BY <1>5, <2>2 DEF CInv, CallsKnown
    <3>10. \A e \in Callers : (task'[e] # Idle /\ task'[e].id = n) => Owed(keymap, task'[e], w, 0)
      BY <1>3, <3>9
    <3>11. Told(n, <<>>, 0)'
      BY <1>1, <3>1, <3>5, <3>7, <3>8, <3>10 DEF Told
    <3> QED BY <3>11
  <2> QED BY <2>1, <2>2
<1> QED BY <1>2, <1>4, <1>6, <1>7, <1>8 DEF CInv, Story

LEMMA EmptyIsSeq == IsSeq(<<>>)
<1>1. <<>> \in Seq(Nat)
  OBVIOUS
<1> QED BY <1>1 DEF IsSeq

LEMMA NewAccount ==
    ASSUME NEW syms, IsSeq(syms)
    PROVE  /\ Account(Due(syms)) /\ Due(syms).due = syms /\ Due(syms).read = <<>>
           /\ Due(syms).sure = TRUE /\ Due(syms).ok = FALSE
<1>1. PICK w : w = Due(syms)
  OBVIOUS
<1>2. w.due = syms /\ w.read = <<>> /\ w.sure = TRUE /\ w.ok = FALSE
  BY <1>1 DEF Due
<1>3. w = [due |-> w.due, read |-> w.read, sure |-> w.sure, ok |-> w.ok]
  BY <1>1 DEF Due
<1>4. IsSeq(w.read) /\ IsSeq(w.due)
  BY <1>2, EmptyIsSeq
<1> QED BY <1>1, <1>2, <1>3, <1>4 DEF Account

LEMMA BeginKeyTells == ASSUME BInv, CInv, NEW c \in Callers, NEW r \in Requests, BeginKey(c, r)
                       PROVE  CInv'
<1>1. CASE r.what \in Symbols
  <2>1. PICK k : k = Key(keymap, r.what)
    OBVIOUS
  <2>2. keymap \in Usable /\ r.what \in DOMAIN Table[keymap] /\ LookUp(r.what) = k /\ k.want = r.what
    BY <1>1, <2>1 DEF Symbols, LookUp, Key
  <2>3. PICK map : map = keymap
    OBVIOUS
  <2>4. PICK t : t = [op |-> "key", id |-> count + 1, left |-> <<k>>, shift |-> Shift, dir |-> r.dir]
    OBVIOUS
  <2>5. /\ t.id = count + 1 /\ t.left = <<k>> /\ t.shift = ShiftOf(map) /\ t.dir = r.dir
    BY <2>2, <2>3, <2>4 DEF Shift
  <2>6. IsSeq(<<k>>) /\ Len(<<k>>) = 1 /\ DOMAIN <<k>> = {1} /\ <<k>>[1] = k
    <3>1. <<k>> \in Seq({k}) /\ Len(<<k>>) = 1 /\ <<k>>[1] = k
      OBVIOUS
    <3>2. DOMAIN <<k>> = 1..1
      BY <3>1
    <3>3. 1..1 = {1}
      OBVIOUS
    <3> QED BY <3>1, <3>2, <3>3 DEF IsSeq
  <2>7. PICK due : due = IF r.dir = "Release" THEN <<>> ELSE <<r.what>>
    OBVIOUS
  <2>8. IsSeq(due) /\ Len(due) = Rest(t) /\ (Rest(t) = 0 \/ (Rest(t) = 1 /\ due[1] = r.what))
    <3>1. <<r.what>> \in Seq({r.what})
      OBVIOUS
    <3> QED BY <2>5, <2>6, <2>7, <3>1, EmptyIsSeq DEF IsSeq, Rest
  <2>9. PICK w : w = Due(due)
    OBVIOUS
  <2>10. Account(w) /\ w.due = due /\ w.read = <<>> /\ ~w.ok
    BY <2>8, <2>9, NewAccount
  <2>11. \A i \in 1..Rest(t) : t.left[i].want = w.due[0 + i]
    BY <2>2, <2>5, <2>6, <2>8, <2>10
  <2>12. 0 + Rest(t) = Len(w.due)
    BY <2>8, <2>10
  <2>13. Owed(keymap, t, w, 0)
    BY <2>1, <2>2, <2>3, <2>5, <2>6, <2>10, <2>11, <2>12 DEF Owed
  <2>14. Begin(c, t, w)
    BY <1>1, <2>2, <2>4, <2>7, <2>9 DEF BeginKey
  <2> QED BY <2>5, <2>6, <2>10, <2>13, <2>14, BegunTells
<1>2. CASE r.what \notin Symbols
  <2>1. PICK t, w, none : t = Idle /\ none = <<>> /\ w = Due(none)
    OBVIOUS
  <2>2. IsSeq(none)
    BY <2>1, EmptyIsSeq
  <2>3. Account(w) /\ w.due = none /\ w.read = <<>> /\ ~w.ok
    BY <2>1, <2>2, NewAccount
  <2> QED BY <1>2, <2>1, <2>3, BegunTells DEF BeginKey
<1> QED BY <1>1, <1>2

LEMMA BeginTextTells == ASSUME BInv, CInv, NEW c \in Callers, NEW r \in Requests, BeginText(c, r)
                        PROVE  CInv'
<1>1. CASE keymap \in Usable
  <2>1. PICK map, syms : map = keymap /\ syms = Symbols
    OBVIOUS
  <2>2. PICK found : found = Only(r.what, syms)
    OBVIOUS
  <2>3. syms = DOMAIN Table[map] /\ found \in Seq(syms)
    <3>1. r.what \in Seq(STRING)
      BY RequestsAssumption DEF BeginText
    <3> QED BY <1>1, <2>1, <2>2, <3>1, OnlyMembers DEF Symbols
  <2>4. Len(found) \in Nat /\ DOMAIN found = 1..Len(found) /\ \A i \in DOMAIN found : found[i] \in syms
    BY <2>3
  <2>5. PICK left : left = [i \in DOMAIN found |-> Key(map, found[i])]
    OBVIOUS
  <2>6. left = [i \in DOMAIN found |-> LookUp(found[i])]
    BY <2>1, <2>5 DEF LookUp, Key
  <2>7. PICK K : K = {Key(map, s) : s \in syms}
    OBVIOUS
  <2>8. left \in Seq(K)
    <3>1. \A i \in DOMAIN found : Key(map, found[i]) \in K
      BY <2>4, <2>7
    <3> QED BY <2>4, <2>5, <3>1
  <2>9. IsSeq(left) /\ Len(left) = Len(found) /\ DOMAIN left = DOMAIN found
    <3>1. IsSeq(left) /\ DOMAIN left = DOMAIN found
      BY <2>5, <2>8 DEF IsSeq
    <3> QED BY <2>4, <2>5, <2>8, <3>1
  <2>10. PICK t : t = [op |-> "text", id |-> count + 1, left |-> left, shift |-> "later",
                       dir |-> "PressRelease"]
    OBVIOUS
  <2>11. t.id = count + 1 /\ t.left = left /\ t.shift = "later" /\ Rest(t) = Len(found)
    BY <2>9, <2>10 DEF Rest
  <2>12. PICK w : w = Due(found)
    OBVIOUS
  <2>13. Account(w) /\ w.due = found /\ w.read = <<>> /\ ~w.ok
    BY <2>3, <2>12, NewAccount DEF IsSeq
  <2>14. \A i \in DOMAIN left : left[i].want = found[i]
    BY <2>5 DEF Key
  <2>15. \A i \in 1..Rest(t) : t.left[i].want = w.due[0 + i]
    BY <2>4, <2>9, <2>11, <2>13, <2>14
  <2>16. \A i \in DOMAIN t.left : \E s \in DOMAIN Table[map] : t.left[i] = Key(map, s)
    BY <2>3, <2>4, <2>5, <2>9, <2>11
  <2>17. 0 + Rest(t) = Len(w.due)
    BY <2>4, <2>11, <2>13
  <2>18. Owed(keymap, t, w, 0)
    BY <1>1, <2>1, <2>11, <2>13, <2>15, <2>16, <2>17 DEF Owed
  <2>19. Begin(c, t, w)
    BY <1>1, <2>1, <2>2, <2>6, <2>10, <2>12 DEF BeginText
  <2> QED BY <2>9, <2>11, <2>13, <2>18, <2>19, BegunTells
<1>2. CASE keymap \notin Usable
  <2>1. PICK t, w, none : t = Idle /\ none = <<>> /\ w = Due(none)
    OBVIOUS
  <2>2. IsSeq(none)
    BY <2>1, EmptyIsSeq
  <2>3. Account(w) /\ w.due = none /\ w.read = <<>> /\ ~w.ok
    BY <2>1, <2>2, NewAccount
  <2> QED BY <1>2, <2>1, <2>3, BegunTells DEF BeginText
<1> QED BY <1>1, <1>2
------------------------------------------------------------------------------
(* A frame is sent.                                                        *)

\* While no key that takes Shift is held, Shift is not down on purpose.
LEMMA ShiftNotMeant ==
    ASSUME KeymapFollows, ~ShiftHeld, NEW d \in Devices, Layout[d] \in Usable
    PROVE  ~Meant(d, ShiftOf(Layout[d]))
<1>1. PICK map, k : map = Layout[d] /\ k = ShiftOf(map)
  OBVIOUS
<1>2. d # None /\ map \in Usable
  BY <1>1, DevicesAssumption
<1>3. "Shift_L" \in DOMAIN Table[map] /\ Table[map]["Shift_L"].level = 0 /\ k = Table[map]["Shift_L"].code
  BY <1>1, <1>2, KeymapsAssumption DEF ShiftOf
<1>4. ASSUME d = slot["keyboard"], keymap \in Usable, NEW s \in held \cap DOMAIN Table[keymap],
             k \in KeyCodes(keymap, s)
      PROVE  FALSE
  <2>1. keymap = map
    BY <1>1, <1>2, <1>4 DEF KeymapFollows
  <2>2. s # "Shift_L" /\ Table[map][s].level # 1 /\ s \in DOMAIN Table[map]
    BY <1>2, <1>4, <2>1 DEF ShiftHeld
  <2>3. Table[map][s].level = 0
    BY <1>2, <2>2, KeymapsAssumption
  <2>4. Table[map][s].code = k
    BY <1>4, <2>1, <2>2 DEF KeyCodes
  <2>5. /\ Table[map][s] = [code |-> Table[map][s].code, level |-> Table[map][s].level]
        /\ Table[map]["Shift_L"] = [code |-> Table[map]["Shift_L"].code,
                                    level |-> Table[map]["Shift_L"].level]
    BY <1>2, <1>3, <2>2, KeymapsAssumption
  <2>6. Table[map][s] = Table[map]["Shift_L"]
    BY <1>3, <2>3, <2>4, <2>5
  <2> QED BY <1>2, <1>3, <2>2, <2>6, KeymapsAssumption
<1>5. k \notin Buttons
  <2>1. ASSUME NEW r \in Requests, r.op = "point", r.what # None PROVE r.what # k
    BY <1>2, <1>3, <2>1, RequestsAssumption
  <2> QED BY <2>1 DEF Buttons
<1> QED BY <1>1, <1>4, <1>5 DEF Meant

LEMMA FrameJoins ==
    ASSUME Inv, BInv, FramesKnown, link = "up", NEW f, frames' = Append(frames, f), down' = down,
           1..count \subseteq 1..count', f.by \in 1..count', f.dev \in Devices,
           f.alone = (~ShiftHeld /\ ~moved)
    PROVE  FramesKnown'
<1>1. PICK n : n = Len(frames) + 1
  OBVIOUS
<1>2. /\ IsSeq(frames) /\ n \in Nat /\ DOMAIN frames = 1..(n - 1) /\ DOMAIN frames' = 1..n
      /\ frames'[n] = f /\ \A i \in DOMAIN frames : frames'[i] = frames[i]
  BY <1>1, Appended DEF BInv
<1>3. PICK fr, dn : fr = frames /\ dn = down
  OBVIOUS
<1>4. \A i \in DOMAIN frames : Unshifted(frames, down, i) => Unshifted(frames', down', i)
  BY <1>2, <1>3, JoinsUnshifted
<1>5. ASSUME f.alone PROVE Unshifted(frames', down', n)
  <2>1. ~ShiftHeld /\ Settled /\ KeymapFollows
    BY <1>5 DEF BInv, Inv
  <2>2. ASSUME NEW d, NEW k, NEW j \in Nat, Undone(d, k, j) PROVE LetGo(frames', d, k, j, n)
    <3>1. PICK m \in DOMAIN frames : m > j /\ frames[m].dev = d /\ Releases(frames[m].strokes, k)
      BY <2>2 DEF Undone
    <3>2. m \in DOMAIN frames' /\ j < m /\ m < n /\ frames'[m] = frames[m]
      BY <1>2, <2>2, <3>1
    <3> QED BY <3>1, <3>2 DEF LetGo
  <2>3. ASSUME NEW d \in Devices, Layout[d] \in Usable, ShiftOf(Layout[d]) \in down'[d]
        PROVE  LetGo(frames', d, ShiftOf(Layout[d]), 0, n)
    <3>1. ~Meant(d, ShiftOf(Layout[d]))
      BY <2>1, <2>3, ShiftNotMeant
    <3>2. Undone(d, ShiftOf(Layout[d]), 0)
      BY <2>1, <2>3, <3>1 DEF Settled
    <3> QED BY <2>2, <3>2
  <2>4. ASSUME NEW d \in Devices, Layout[d] \in Usable, NEW j \in DOMAIN frames', j < n,
               frames'[j].dev = d, Presses(frames'[j].strokes, ShiftOf(Layout[d]))
        PROVE  LetGo(frames', d, ShiftOf(Layout[d]), j, n)
    <3>1. j \in DOMAIN frames /\ j \in Nat /\ frames'[j] = frames[j]
      BY <1>2, <2>4
    <3>2. ~Meant(d, ShiftOf(Layout[d]))
      BY <2>1, <2>4, ShiftNotMeant
    <3>3. Undone(d, ShiftOf(Layout[d]), j)
      BY <2>1, <2>4, <3>1, <3>2 DEF Settled
    <3> QED BY <2>2, <3>1, <3>3
  <2> QED BY <2>3, <2>4 DEF Unshifted
<1>6. f.alone \in BOOLEAN
  <2>1. (~ShiftHeld /\ ~moved) \in BOOLEAN
    OBVIOUS
  <2> QED BY <2>1
<1>7. ASSUME NEW i \in DOMAIN frames'
      PROVE  /\ frames'[i].by \in 1..count' /\ frames'[i].dev \in Devices
             /\ frames'[i].alone \in BOOLEAN
             /\ frames'[i].alone => Unshifted(frames', down', i)
  <2>1. CASE i = n
    BY <1>2, <1>5, <1>6, <2>1
  <2>2. CASE i # n
    <3>1. i \in DOMAIN frames /\ frames'[i] = frames[i]
      BY <1>2, <2>2
    <3>2. /\ frames[i].by \in 1..count /\ frames[i].dev \in Devices /\ frames[i].alone \in BOOLEAN
          /\ frames[i].alone => Unshifted(frames, down, i)
      BY <3>1 DEF FramesKnown
    <3> QED BY <1>4, <3>1, <3>2
  <2> QED BY <2>1, <2>2
<1> QED BY <1>7 DEF FramesKnown

\* A frame of which nothing is read for call n.
LEMMA ToldAside ==
    ASSUME IsSeq(frames), NEW n, NEW at, NEW u, Told(n, at, u), text'[n] = text[n],
           NEW f, frames' = Append(frames, f), ~(f.by = n /\ Loud(f)),
           \A c \in Callers : (task'[c] # Idle /\ task'[c].id = n)
                                  => task'[c] = task[c] /\ keymap' = keymap
    PROVE  Told(n, at, u)'
<1>1. PICK fr, due, read : fr = frames /\ due = text[n].due /\ read = text[n].read
  OBVIOUS
<1>2. PICK got : got = Len(read)
  OBVIOUS
<1>3. InLine(fr, n, due, got, u, at)
  BY <1>1, <1>2 DEF Told
<1>4. InLine(Append(fr, f), n, due, got, u, at)
  BY <1>1, <1>3, SilentJoins
<1>5. InLine(frames', n, text'[n].due, Len(text'[n].read), u, at)
  BY <1>1, <1>2, <1>4
<1> QED BY <1>5 DEF Told

LEMMA PointTells == ASSUME Inv, BInv, CInv, NEW c \in Callers, NEW r \in Requests, Point(c, r)
                    PROVE  CInv'
<1>1. PICK st : st = IF r.what # None /\ "button" \in Caps[Device(r.slot)]
                     THEN Clicks(r.what, r.dir) ELSE <<>>
  OBVIOUS
<1>2. /\ r.op = "point" /\ count < MaxCalls /\ count' = count + 1
      /\ UNCHANGED <<keymap, down, task, text>>
      /\ \/ Device(r.slot) # None /\ Emitted(count + 1, r.slot, st)
         \/ NotEmitted(r.slot)
  BY <1>1 DEF Point, state
<1>3. count \in Nat /\ 1..count \subseteq 1..count' /\ count + 1 \in 1..count'
  BY <1>2 DEF CInv, Accounts
<1>4. Accounts' /\ CallsKnown'
  BY <1>2, <1>3 DEF CInv, Accounts, CallsKnown
<1>5. CASE NotEmitted(r.slot)
  <2>1. frames' = frames
    BY <1>5 DEF NotEmitted
  <2>2. FramesKnown'
    BY <1>2, <1>3, <2>1 DEF CInv, FramesKnown
  <2>3. Story'
    BY <1>2, <2>1, ToldStill DEF CInv, Story
  <2> QED BY <1>4, <2>2, <2>3 DEF CInv
<1>6. CASE Device(r.slot) # None /\ Emitted(count + 1, r.slot, st)
  <2>1. PICK f : f = [by |-> count + 1, dev |-> slot[r.slot], strokes |-> st,
                      alone |-> ~ShiftHeld /\ ~moved]
    OBVIOUS
  <2>2. /\ frames' = Append(frames, f) /\ link = "up" /\ slot[r.slot] # None
        /\ f.by = count + 1 /\ f.dev = slot[r.slot] /\ f.strokes = st
        /\ f.alone = (~ShiftHeld /\ ~moved)
    BY <1>6, <2>1 DEF Emitted, Device
  <2>3. f.dev \in Devices
    <3>1. r.slot \in Slots
      BY <1>2, RequestsAssumption DEF Slots
    <3> QED BY <2>2, <3>1 DEF Inv, Typed
  <2>4. FramesKnown'
    BY <1>2, <1>3, <2>2, <2>3, FrameJoins DEF CInv
  <2>5. ~Loud(f)
    <3>1. \A i \in DOMAIN Clicks(r.what, r.dir) : Clicks(r.what, r.dir)[i].want = None
      BY Pair, Single DEF Clicks, Stroke
    <3> QED BY <1>1, <2>2, <3>1 DEF Loud
  <2>6. ASSUME NEW n \in DOMAIN text, text[n].sure PROVE \E at, u : Told(n, at, u)'
    <3>1. PICK at, u : Told(n, at, u)
      BY <2>6 DEF CInv, Story
    <3> QED BY <1>2, <2>2, <2>5, <3>1, ToldAside DEF BInv
  <2>7. Story'
    BY <1>2, <2>6 DEF Story
  <2> QED BY <1>4, <2>4, <2>7 DEF CInv
<1> QED BY <1>2, <1>5, <1>6

LEMMA FindShiftTells == ASSUME BInv, CInv, NEW c \in Callers, FindShift(c) PROVE CInv'
<1>1. /\ task[c].op = "text" /\ task[c].shift = "later" /\ task' = [task EXCEPT ![c].shift = Shift]
      /\ UNCHANGED <<frames, down, count, text, keymap>>
  BY DEF FindShift, state, calling
<1>2. PICK t : t = task[c]
  OBVIOUS
<1>3. PICK v : v = [t EXCEPT !.shift = Shift]
  OBVIOUS
<1>4. /\ t = [op |-> t.op, id |-> t.id, left |-> t.left, shift |-> t.shift, dir |-> t.dir]
      /\ \A e \in Callers : task'[e] = IF e = c THEN v ELSE task[e]
  BY <1>1, <1>2, <1>3 DEF BInv, Record
<1>5. v.op = t.op /\ v.id = t.id /\ v.left = t.left /\ v.dir = t.dir /\ v.shift = Shift
  BY <1>3, <1>4
<1>6. t # Idle
  <2>1. Idle.op = "" /\ t.op = "text"
    BY <1>1, <1>2 DEF Idle
  <2> QED BY <2>1
<1>7. Accounts' /\ FramesKnown'
  BY <1>1 DEF CInv, Accounts, FramesKnown
<1>8. CallsKnown'
  BY <1>1, <1>2, <1>4, <1>5, <1>6 DEF CInv, CallsKnown
<1>9. ASSUME NEW n \in DOMAIN text, text[n].sure PROVE \E at, u : Told(n, at, u)'
  <2>1. PICK at, u : Told(n, at, u)
    BY <1>9 DEF CInv, Story
  <2>2. ASSUME NEW e \in Callers, task'[e] # Idle, task'[e].id = n
        PROVE  Owed(keymap, task'[e], text[n], u)
    <3>1. CASE e # c
      BY <1>4, <2>1, <2>2, <3>1 DEF Told
    <3>2. CASE e = c
      <4>1. Owed(keymap, t, text[n], u)
        BY <1>2, <1>4, <1>5, <1>6, <2>1, <2>2, <3>2 DEF Told
      <4>2. v.shift = ShiftOf(keymap)
        BY <1>5, <4>1 DEF Owed, Shift
      <4>3. Rest(v) = Rest(t)
        BY <1>5 DEF Rest
      <4>4. Owed(keymap, v, text[n], u)
        BY <1>5, <4>1, <4>2, <4>3 DEF Owed
      <4> QED BY <1>4, <3>2, <4>4
    <3> QED BY <3>1, <3>2
  <2>3. Told(n, at, u)'
    BY <1>1, <2>1, <2>2 DEF Told
  <2> QED BY <2>3
<1>10. Story'
  BY <1>1, <1>9 DEF Story
<1> QED BY <1>7, <1>8, <1>10 DEF CInv

\* The call rests, and its account says ok as it should.
LEMMA RestTells ==
    ASSUME BInv, CInv, NEW c \in Callers, task' = [task EXCEPT ![c] = Idle],
           UNCHANGED <<frames, down, count>>, keymap' = keymap,
           \/ text' = text
           \/ /\ text' = [text EXCEPT ![task[c].id].ok = TRUE]
              /\ task[c] # Idle /\ task[c].left = <<>>
    PROVE  CInv'
<1>1. \A e \in Callers : task'[e] = IF e = c THEN Idle ELSE task[e]
  BY DEF BInv
<1>2. PICK m : m = task[c].id
  OBVIOUS
<1>3. /\ DOMAIN text' = DOMAIN text /\ \A n \in DOMAIN text : n # m => text'[n] = text[n]
      /\ \A n \in DOMAIN text : \/ text'[n] = text[n]
                                \/ /\ text'[n] = [text[n] EXCEPT !.ok = TRUE]
                                   /\ n = task[c].id /\ task[c] # Idle /\ task[c].left = <<>>
  BY <1>2
<1>4. Accounts'
  <2>1. ASSUME NEW n \in DOMAIN text PROVE Account(text'[n])
    <3>1. Account(text[n])
      BY DEF CInv, Accounts
    <3> QED BY <1>3, <3>1 DEF Account
  <2> QED BY <1>3, <2>1 DEF CInv, Accounts
<1>5. CallsKnown' /\ FramesKnown'
  BY <1>1 DEF CInv, CallsKnown, FramesKnown
<1>6. ASSUME NEW n \in DOMAIN text, text'[n].sure PROVE \E at, u : Told(n, at, u)'
  <2>1. Account(text[n])
    BY DEF CInv, Accounts
  <2>2. CASE text'[n] = text[n]
    <3>1. PICK at, u : Told(n, at, u)
      BY <1>6, <2>2 DEF CInv, Story
    <3> QED BY <1>1, <2>2, <3>1, ToldStill
  <2>3. CASE text'[n] = [text[n] EXCEPT !.ok = TRUE] /\ n = task[c].id /\ task[c] # Idle
              /\ task[c].left = <<>>
    <3>1. /\ text'[n].due = text[n].due /\ text'[n].read = text[n].read /\ text'[n].sure = text[n].sure
      BY <2>1, <2>3 DEF Account
    <3>2. PICK at, u : Told(n, at, u)
      BY <1>6, <3>1 DEF CInv, Story
    <3>3. u = Len(text[n].due)
      <4>1. Owed(keymap, task[c], text[n], u)
        BY <2>3, <3>2 DEF Told
      <4>2. Rest(task[c]) = 0 /\ u \in Nat
        BY <2>3, <3>2 DEF Rest, Told, InLine
      <4> QED BY <4>1, <4>2 DEF Owed
    <3>4. \A e \in Callers : task'[e] # Idle => task'[e].id # n
      BY <1>1, <2>3 DEF CInv, CallsKnown
    <3>5. Told(n, at, u)'
      BY <3>1, <3>2, <3>3, <3>4 DEF Told
    <3> QED BY <3>5
  <2> QED BY <1>3, <2>2, <2>3
<1>7. Story'
  BY <1>3, <1>6 DEF Story
<1> QED BY <1>4, <1>5, <1>7 DEF CInv

LEMMA NothingToEmitTells == ASSUME BInv, CInv, NEW c \in Callers, NothingToEmit(c) PROVE CInv'
<1>1. /\ task[c].op = "text" /\ task[c].left = <<>> /\ task' = [task EXCEPT ![c] = Idle]
      /\ text' = [text EXCEPT ![task[c].id].ok = TRUE]
      /\ UNCHANGED <<frames, down, count, keymap>>
  BY DEF NothingToEmit, state
<1>2. task[c] # Idle
  <2>1. Idle.op = ""
    BY DEF Idle
  <2> QED BY <1>1, <2>1
<1> QED BY <1>1, <1>2, RestTells

\* Call n, of task t, sends the first key it has left.
Sends(f, n, t, map) ==
    /\ f.by = n /\ IsSeq(t.left) /\ t.left # <<>> /\ t.shift # "later"
    /\ f.strokes = Strokes(Head(t.left), t.shift, t.dir)
    /\ Layout[f.dev] \in Usable => Layout[f.dev] = map

LEMMA KeyJoins ==
    ASSUME NEW fr, IsSeq(fr), NEW f, NEW n, NEW t, NEW map, Sends(f, n, t, map),
           NEW w, Account(w), NEW u, NEW at, Owed(map, t, w, u),
           InLine(fr, n, w.due, Len(w.read), u, at)
    PROVE  \E at2, v :
              /\ InLine(Append(fr, f), n, w.due, Len(w.read), v, at2)
              /\ v = IF t.dir = "Release" THEN u ELSE u + 1
<1> USE DEF Sends
<1>1. Head(t.left) = t.left[1] /\ 1 \in DOMAIN t.left /\ Len(t.left) \in Nat /\ Len(t.left) >= 1
  BY DEF IsSeq
<1>2. PICK s \in DOMAIN Table[map] : t.left[1] = Key(map, s)
  BY <1>1 DEF Owed
<1>3. map \in Usable /\ t.shift = ShiftOf(map)
  BY DEF Owed
<1>4. f.strokes = Strokes(Key(map, s), ShiftOf(map), t.dir)
  BY <1>1, <1>2, <1>3
<1>5. Len(w.due) \in Nat
  BY SeqLen DEF Account
<1>6. u \in Nat
  <2>1. Len(w.read) \in Nat
    BY SeqLen DEF Account
  <2> QED BY <1>5, <2>1 DEF InLine
<1>7. PICK due, got : due = w.due /\ got = Len(w.read)
  OBVIOUS
<1>8. CASE t.dir = "Release"
  <2>1. PICK k, shift : k = Key(map, s) /\ shift = ShiftOf(map)
    OBVIOUS
  <2>2. \/ f.strokes = <<Stroke(k.code, FALSE, None), Stroke(shift, FALSE, None)>>
        \/ f.strokes = <<Stroke(k.code, FALSE, None)>>
    BY <1>4, <1>8, <2>1, Pair, Single DEF Strokes
  <2>3. ~Loud(f)
    BY <2>2 DEF Loud, Stroke
  <2>4. InLine(fr, n, due, got, u, at)
    BY <1>7
  <2>5. InLine(Append(fr, f), n, due, got, u, at)
    BY <2>3, <2>4, SilentJoins
  <2> QED BY <1>7, <1>8, <2>5
<1>9. CASE t.dir # "Release"
  <2>1. Rest(t) = Len(t.left)
    BY <1>9 DEF Rest
  <2>2. 1 \in 1..Rest(t) /\ u + 1 <= Len(due)
    BY <1>1, <1>5, <1>6, <1>7, <2>1 DEF Owed
  <2>3. due[u + 1] = s
    <3>1. t.left[1].want = due[u + 1]
      BY <1>7, <2>2 DEF Owed
    <3>2. Key(map, s).want = s
      BY DEF Key
    <3> QED BY <1>2, <3>1, <3>2
  <2>4. Says(f, due[u + 1])
    BY <1>3, <1>4, <1>9, <2>3 DEF Says
  <2>5. Loud(f)
    <3>1. PICK k, shift : k = Key(map, s) /\ shift = ShiftOf(map)
      OBVIOUS
    <3>2. shift # None /\ s # None
      BY <1>3, <3>1, KeymapsAssumption DEF ShiftOf
    <3>3. k.want # None
      BY <3>1, <3>2 DEF Key
    <3>4. Alone(f.strokes, k) \/ UnderShift(f.strokes, k, shift)
      BY <1>4, <1>9, <3>1, <3>2, StrokesOf
    <3> QED BY <3>3, <3>4 DEF Alone, UnderShift, Loud, Stroke
  <2>6. InLine(fr, n, due, got, u, at) /\ Len(due) \in Nat
    BY <1>5, <1>7
  <2>7. PICK at2 : InLine(Append(fr, f), n, due, got, u + 1, at2)
    BY <2>2, <2>4, <2>5, <2>6, NextJoins
  <2> QED BY <1>7, <1>9, <2>7
<1> QED BY <1>8, <1>9

\* What is left of the call after that.
LEMMA KeyGone ==
    ASSUME NEW t, IsSeq(t.left), t.left # <<>>, NEW map, NEW w, NEW w2, NEW u \in Nat, NEW v, NEW t2,
           Owed(map, t, w, u), IsSeq(w.due), v = IF t.dir = "Release" THEN u ELSE u + 1,
           t2.left = Tail(t.left), t2.shift = t.shift, t2.dir = t.dir,
           w2.due = w.due, w2.ok = (Len(t.left) = 1)
    PROVE  /\ w2.ok => v = Len(w.due)
           /\ ~w2.ok => Owed(map, t2, w2, v)
<1>1. PICK l : l = t.left
  OBVIOUS
<1>2. /\ Len(l) \in Nat /\ Len(l) >= 1 /\ DOMAIN l = 1..Len(l) /\ IsSeq(Tail(l))
      /\ DOMAIN Tail(l) = 1..(Len(l) - 1) /\ Len(Tail(l)) = Len(l) - 1
      /\ \A i \in DOMAIN Tail(l) : i + 1 \in DOMAIN l /\ Tail(l)[i] = l[i + 1]
  <2>1. IsSeq(Tail(l)) /\ Len(l) \in Nat
    BY <1>1, AllButFirst
  <2>2. Len(l) >= 1 /\ Len(Tail(l)) = Len(l) - 1
    BY <1>1 DEF IsSeq
  <2> QED BY <1>1, <2>1, <2>2, AllButFirst
<1>3. PICK due : due = w.due
  OBVIOUS
<1>4. Len(due) \in Nat /\ u + Rest(t) = Len(due) /\ Rest(t) = IF t.dir = "Release" THEN 0 ELSE Len(l)
  BY <1>1, <1>3, SeqLen DEF Owed, Rest
<1>5. ASSUME w2.ok PROVE v = Len(due)
  <2>1. Len(l) = 1
    BY <1>1, <1>5
  <2>2. CASE t.dir = "Release"
    BY <1>4, <2>2
  <2>3. CASE t.dir # "Release"
    BY <1>4, <2>1, <2>3
  <2> QED BY <2>2, <2>3
<1>6. Rest(t2) = IF t.dir = "Release" THEN 0 ELSE Len(l) - 1
  BY <1>1, <1>2 DEF Rest
<1>7. v + Rest(t2) = Len(due)
  BY <1>2, <1>4, <1>6
<1>8. \A i \in DOMAIN t2.left : \E s \in DOMAIN Table[map] : t2.left[i] = Key(map, s)
  BY <1>1, <1>2 DEF Owed
<1>9. ASSUME NEW i \in 1..Rest(t2) PROVE t2.left[i].want = due[v + i]
  <2>1. t.dir # "Release" /\ i \in 1..(Len(l) - 1) /\ v = u + 1
    BY <1>6, <1>9
  <2>2. i + 1 \in 1..Rest(t) /\ t2.left[i] = l[i + 1]
    BY <1>1, <1>2, <1>4, <2>1
  <2>3. l[i + 1].want = due[u + (i + 1)]
    BY <1>1, <1>3, <2>2 DEF Owed
  <2>4. u + (i + 1) = v + i
    BY <2>1
  <2> QED BY <2>2, <2>3, <2>4
<1>10. ~w2.ok => Owed(map, t2, w2, v)
  BY <1>3, <1>7, <1>8, <1>9 DEF Owed
<1> QED BY <1>3, <1>5, <1>10

LEMMA EmitKeyTells == ASSUME Inv, BInv, CInv, NEW c \in Callers, EmitKey(c) PROVE CInv'
<1>1. PICK t : t = task[c]
  OBVIOUS
<1>2. /\ t.left # <<>> /\ t.shift # "later" /\ Record(t)
      /\ UNCHANGED <<slot, keymap, down, count>>
  BY <1>1 DEF EmitKey, BInv, state
<1>3. t # Idle
  <2>1. Idle.left = <<>>
    BY DEF Idle
  <2> QED BY <1>2, <2>1
<1>4. CASE NotEmitted("keyboard") /\ task' = [task EXCEPT ![c] = Idle] /\ UNCHANGED <<text, held>>
  BY <1>2, <1>4, RestTells DEF NotEmitted
<1>5. CASE /\ Emitted(t.id, "keyboard", Strokes(Head(t.left), t.shift, t.dir))
           /\ task' = [task EXCEPT ![c] = IF Len(t.left) = 1 THEN Idle
                                          ELSE [t EXCEPT !.left = Tail(@)]]
           /\ text' = [text EXCEPT ![t.id].ok = Len(t.left) = 1]
  <2>1. PICK f : f = [by |-> t.id, dev |-> slot["keyboard"],
                      strokes |-> Strokes(Head(t.left), t.shift, t.dir),
                      alone |-> ~ShiftHeld /\ ~moved]
    OBVIOUS
  <2>2. /\ frames' = Append(frames, f) /\ link = "up" /\ slot["keyboard"] # None
        /\ f.by = t.id /\ f.dev = slot["keyboard"]
        /\ f.strokes = Strokes(Head(t.left), t.shift, t.dir)
        /\ f.alone = (~ShiftHeld /\ ~moved)
    BY <1>5, <2>1 DEF Emitted, Device
  <2>3. t.id \in 1..count /\ IsSeq(t.left)
    BY <1>1, <1>3 DEF CInv, CallsKnown
  <2>4. f.dev \in Devices
    BY <2>2 DEF Inv, Typed, Slots
  <2>5. FramesKnown'
    BY <1>2, <2>2, <2>3, <2>4, FrameJoins DEF CInv
  <2>6. PICK v : v = [t EXCEPT !.left = Tail(@)]
    OBVIOUS
  <2>7. /\ v.id = t.id /\ v.left = Tail(t.left) /\ v.shift = t.shift /\ v.dir = t.dir
        /\ IsSeq(v.left)
    BY <1>2, <2>3, <2>6, AllButFirst DEF Record
  <2>8. \A e \in Callers : task'[e] = IF e = c THEN IF Len(t.left) = 1 THEN Idle ELSE v ELSE task[e]
    BY <1>5, <2>6 DEF BInv
  <2>9. PICK last : last = (Len(t.left) = 1)
    OBVIOUS
  <2>10. /\ last \in BOOLEAN /\ DOMAIN text' = DOMAIN text
         /\ \A n \in DOMAIN text : text'[n] = IF n = t.id THEN [text[n] EXCEPT !.ok = last] ELSE text[n]
    BY <1>5, <2>9
  <2>11. Accounts'
    <3>1. ASSUME NEW n \in DOMAIN text PROVE Account(text'[n])
      <4>1. Account(text[n])
        BY DEF CInv, Accounts
      <4> QED BY <2>10, <4>1 DEF Account
    <3> QED BY <1>2, <2>10, <3>1 DEF CInv, Accounts
  <2>12. CallsKnown'
    <3>1. ASSUME NEW e \in Callers, task'[e] # Idle
          PROVE  task[e] # Idle /\ task'[e].id = task[e].id /\ IsSeq(task'[e].left)
      BY <1>1, <1>3, <2>7, <2>8, <3>1 DEF CInv, CallsKnown
    <3> QED BY <1>2, <3>1 DEF CInv, CallsKnown
  <2>13. ASSUME NEW n \in DOMAIN text, text'[n].sure PROVE \E at, u : Told(n, at, u)'
    <3>1. Account(text[n])
      BY DEF CInv, Accounts
    <3>2. CASE n # t.id
      <4>1. text'[n] = text[n]
        BY <2>10, <3>2
      <4>2. PICK at, u : Told(n, at, u)
        BY <2>13, <4>1 DEF CInv, Story
      <4>3. \A e \in Callers : (task'[e] # Idle /\ task'[e].id = n) => task'[e] = task[e]
        BY <2>7, <2>8, <3>2
      <4> QED BY <1>2, <2>2, <3>2, <4>1, <4>2, <4>3, ToldAside DEF BInv
    <3>3. CASE n = t.id
      <4>1. PICK w, w2 : w = text[n] /\ w2 = text'[n]
        OBVIOUS
      <4>2. w2.due = w.due /\ w2.read = w.read /\ w2.sure = w.sure /\ w2.ok = last
        BY <2>10, <3>1, <3>3, <4>1 DEF Account
      <4>3. PICK at, u : Told(n, at, u)
        BY <2>13, <4>1, <4>2 DEF CInv, Story
      <4>4. PICK fr, map : fr = frames /\ map = keymap
        OBVIOUS
      <4>5. /\ InLine(fr, n, w.due, Len(w.read), u, at) /\ Owed(map, t, w, u) /\ Account(w)
        BY <1>1, <1>3, <3>1, <3>3, <4>1, <4>3, <4>4 DEF Told
      <4>6. Layout[f.dev] \in Usable => Layout[f.dev] = map
        BY <2>2, <4>4 DEF Inv, KeymapFollows
      <4>7. PICK at2, x : /\ InLine(Append(fr, f), n, w.due, Len(w.read), x, at2)
                          /\ x = IF t.dir = "Release" THEN u ELSE u + 1
        <5>1. IsSeq(fr) /\ f.by = n
          BY <2>2, <3>3, <4>4 DEF BInv
        <5>2. Sends(f, n, t, map)
          BY <1>2, <2>2, <2>3, <4>6, <5>1 DEF Sends
        <5> QED BY <4>5, <5>1, <5>2, KeyJoins
      <4>8. u \in Nat
        <5>1. Len(w.read) \in Nat /\ Len(w.due) \in Nat
          BY <4>5, SeqLen DEF Account
        <5> QED BY <4>5, <5>1 DEF InLine
      <4>9. (w2.ok => x = Len(w.due)) /\ (~w2.ok => Owed(map, v, w2, x))
        BY <1>2, <2>3, <2>7, <2>9, <4>2, <4>5, <4>7, <4>8, KeyGone DEF Account
      <4>10. ASSUME NEW e \in Callers, task'[e] # Idle, task'[e].id = n
             PROVE  Owed(map, task'[e], w2, x)
        <5>1. e = c
          BY <1>1, <1>3, <2>8, <3>3, <4>10 DEF CInv, CallsKnown
        <5> QED BY <2>8, <2>9, <4>2, <4>9, <4>10, <5>1
      <4>11. Told(n, at2, x)'
        BY <1>2, <2>2, <4>1, <4>2, <4>3, <4>4, <4>7, <4>9, <4>10 DEF Told
      <4> QED BY <4>11
    <3> QED BY <3>2, <3>3
  <2>14. Story'
    BY <2>10, <2>13 DEF Story
  <2> QED BY <2>5, <2>11, <2>12, <2>14 DEF CInv
<1> QED BY <1>1, <1>4, <1>5 DEF EmitKey

------------------------------------------------------------------------------
(* A frame is read.                                                        *)

LEMMA Joined ==
    ASSUME NEW s, IsSeq(s), NEW x
    PROVE  /\ IsSeq(s \o <<x>>) /\ Len(s \o <<x>>) = Len(s) + 1 /\ Len(s) \in Nat
           /\ DOMAIN (s \o <<x>>) = 1..(Len(s) + 1)
           /\ (s \o <<x>>)[Len(s) + 1] = x /\ \A i \in DOMAIN s : (s \o <<x>>)[i] = s[i]
           /\ s \o <<>> = s /\ DOMAIN s = 1..Len(s)
<1>1. PICK S : s \in Seq(S)
  BY DEF IsSeq
<1>2. PICK t : t = s \o <<x>>
  OBVIOUS
<1>3. s \in Seq(S \cup {x}) /\ <<x>> \in Seq(S \cup {x})
  BY <1>1
<1>4. t \in Seq(S \cup {x}) /\ Len(t) = Len(s) + 1 /\ Len(s) \in Nat
  BY <1>2, <1>3
<1>5. t[Len(s) + 1] = x
  BY <1>2, <1>3, <1>4
<1>6. \A i \in 1..Len(s) : t[i] = s[i]
  BY <1>2, <1>3
<1>7. s \o <<>> = s
  BY <1>1
<1>8. DOMAIN s = 1..Len(s) /\ DOMAIN t = 1..(Len(s) + 1)
  BY <1>1, <1>4
<1> QED BY <1>2, <1>4, <1>5, <1>6, <1>7, <1>8 DEF IsSeq

LEMMA ReadTells == ASSUME BInv, CInv, ReadFrame PROVE CInv'
<1>1. PICK f : f = Head(frames)
  OBVIOUS
<1>2. PICK m, d, st : m = f.by /\ d = f.dev /\ st = f.strokes
  OBVIOUS
<1>3. PICK more : more = IF status[d] = "resumed" THEN Readings(d, st) ELSE <<>>
  OBVIOUS
<1>4. PICK live : live = (status[d] = "resumed" /\ Layout[d] \in Usable /\ f.alone)
  OBVIOUS
<1>5. /\ frames # <<>> /\ frames' = Tail(frames)
      /\ down' = IF status[d] = "resumed" THEN [down EXCEPT ![d] = After(@, st)] ELSE down
      /\ text' = [text EXCEPT
            ![m].read = IF status[d] = "resumed" THEN @ \o Readings(d, st) ELSE @,
            ![m].sure = @ /\ (status[d] = "resumed") /\ Layout[d] \in Usable /\ f.alone]
      /\ UNCHANGED <<task, count, keymap>>
  BY <1>1, <1>2 DEF ReadFrame, state
<1>6. /\ IsSeq(frames) /\ 1 \in DOMAIN frames /\ f = frames[1]
      /\ DOMAIN frames' = 1..(Len(frames) - 1) /\ Len(frames) \in Nat
      /\ \A i \in DOMAIN frames' : i + 1 \in DOMAIN frames /\ frames'[i] = frames[i + 1]
  BY <1>1, <1>5, AllButFirst DEF BInv
<1>7. /\ m \in 1..count /\ d \in Devices /\ f.alone \in BOOLEAN
      /\ f.alone => Unshifted(frames, down, 1)
  BY <1>2, <1>6 DEF CInv, FramesKnown
<1>8. live \in BOOLEAN /\ (more = <<>> \/ \E x : more = <<x>>)
  BY <1>3, <1>4, <1>7 DEF Readings
<1>9. /\ DOMAIN text' = DOMAIN text /\ \A n \in DOMAIN text : n # m => text'[n] = text[n]
      /\ m \in DOMAIN text =>
            text'[m] = [due |-> text[m].due, read |-> text[m].read \o more,
                        sure |-> text[m].sure /\ live, ok |-> text[m].ok]
  <2>1. ASSUME m \in DOMAIN text
        PROVE  text'[m] = [due |-> text[m].due, read |-> text[m].read \o more,
                        sure |-> text[m].sure /\ live, ok |-> text[m].ok]
    <3>1. PICK w : w = text[m]
      OBVIOUS
    <3>2. w = [due |-> w.due, read |-> w.read, sure |-> w.sure, ok |-> w.ok] /\ IsSeq(w.read)
      BY <2>1, <3>1 DEF CInv, Accounts, Account
    <3>3. w.read \o <<>> = w.read
      BY <3>2, Joined
    <3>4. PICK read : read = w.read \o more
      OBVIOUS
    <3>5. read = IF status[d] = "resumed" THEN w.read \o Readings(d, st) ELSE w.read
      BY <1>3, <3>3, <3>4
    <3>6. PICK sure : sure = (w.sure /\ (status[d] = "resumed") /\ Layout[d] \in Usable /\ f.alone)
      OBVIOUS
    <3>7. sure = (w.sure /\ live)
      BY <1>4, <3>6
    <3>8. text'[m] = [[w EXCEPT !.read = read] EXCEPT !.sure = sure]
      BY <1>5, <2>1, <3>1, <3>5, <3>6
    <3>9. text'[m] = [due |-> w.due, read |-> read, sure |-> sure, ok |-> w.ok]
      BY <3>2, <3>8
    <3> QED BY <3>1, <3>4, <3>7, <3>9
  <2> QED BY <1>5, <2>1
<1>10. Accounts'
  <2>1. ASSUME NEW n \in DOMAIN text PROVE Account(text'[n])
    <3>1. Account(text[n])
      BY DEF CInv, Accounts
    <3>2. CASE n # m
      BY <1>9, <3>1, <3>2
    <3>3. CASE n = m
      <4>1. IsSeq(text[n].read \o more)
        BY <1>8, <3>1, Joined DEF Account
      <4>2. PICK read, sure : read = text[n].read \o more /\ sure = (text[n].sure /\ live)
        OBVIOUS
      <4>3. sure \in BOOLEAN
        BY <1>8, <3>1, <4>2 DEF Account
      <4>4. text'[n] = [due |-> text[n].due, read |-> read, sure |-> sure, ok |-> text[n].ok]
        BY <1>9, <3>3, <4>2
      <4>5. PICK due, ok : due = text[n].due /\ ok = text[n].ok
        OBVIOUS
      <4>6. text'[n] = [due |-> due, read |-> read, sure |-> sure, ok |-> ok]
        BY <4>4, <4>5
      <4>7. IsSeq(due) /\ ok \in BOOLEAN /\ IsSeq(read)
        BY <3>1, <4>1, <4>2, <4>5 DEF Account
      <4> QED BY <4>3, <4>6, <4>7 DEF Account
    <3> QED BY <3>2, <3>3
  <2> QED BY <1>5, <1>9, <2>1 DEF CInv, Accounts
<1>11. CallsKnown'
  BY <1>5 DEF CInv, CallsKnown
<1>12. FramesKnown'
  <2>1. PICK fr, dn, dn2 : fr = frames /\ dn = down /\ dn2 = down'
    OBVIOUS
  <2>2. \A e \in Devices : e # d => dn2[e] = dn[e]
    BY <1>5, <2>1 DEF BInv
  <2>3. dn2[d] \in {{}, After(dn[d], st)}
    BY <1>5, <1>7, <2>1 DEF BInv
  <2>4. ASSUME NEW i \in DOMAIN frames', Unshifted(frames, down, i + 1)
        PROVE  Unshifted(frames', down', i)
    <3>1. IsSeq(fr) /\ fr # <<>> /\ i \in DOMAIN Tail(fr) /\ Unshifted(fr, dn, i + 1)
      BY <1>5, <1>6, <2>1, <2>4
    <3>2. /\ \A e \in Devices : e # Head(fr).dev => dn2[e] = dn[e]
          /\ dn2[Head(fr).dev] \in {{}, After(dn[Head(fr).dev], Head(fr).strokes)}
      BY <1>1, <1>2, <2>1, <2>2, <2>3
    <3>3. Unshifted(Tail(fr), dn2, i)
      BY <3>1, <3>2, ReadUnshifted
    <3> QED BY <1>5, <2>1, <3>3
  <2> QED BY <1>5, <1>6, <2>4 DEF CInv, FramesKnown
<1>13. ASSUME NEW n \in DOMAIN text, text'[n].sure PROVE \E at, u : Told(n, at, u)'
  <2>1. PICK fr, w, due, got, map : /\ fr = frames /\ w = text[n] /\ due = w.due /\ got = Len(w.read)
                                    /\ map = keymap
    OBVIOUS
  <2>2. Account(w) /\ Len(due) \in Nat /\ IsSeq(w.read) /\ got \in Nat
    <3>1. Account(w)
      BY <2>1 DEF CInv, Accounts
    <3> QED BY <2>1, <3>1, SeqLen DEF Account
  <2>3. w.sure /\ text'[n].due = due /\ text'[n].ok = w.ok /\ (n = m => live)
    <3>1. CASE n # m
      BY <1>9, <1>13, <2>1, <3>1
    <3>2. CASE n = m
      <4>1. PICK read, sure, ok : read = w.read \o more /\ sure = (w.sure /\ live) /\ ok = w.ok
        OBVIOUS
      <4>2. text'[n] = [due |-> due, read |-> read, sure |-> sure, ok |-> ok]
        BY <1>9, <2>1, <3>2, <4>1
      <4>3. text'[n].sure = sure /\ text'[n].due = due /\ text'[n].ok = ok
        BY <4>2
      <4>4. w.sure /\ live
        BY <1>13, <4>1, <4>3
      <4> QED BY <4>1, <4>3, <4>4
    <3> QED BY <3>1, <3>2
  <2>4. PICK at, u : Told(n, at, u)
    BY <2>1, <2>3 DEF CInv, Story
  <2>5. InLine(fr, n, due, got, u, at) /\ \A i \in DOMAIN w.read : w.read[i] = due[i]
    BY <2>1, <2>4 DEF Told
  <2>6. \A c \in Callers : (task[c] # Idle /\ task[c].id = n) => Owed(map, task[c], text'[n], u)
    BY <2>1, <2>3, <2>4 DEF Told, Owed
  <2>7. w.ok => u = Len(due)
    BY <2>1, <2>4 DEF Told
  <2>8. CASE ~(f.by = n /\ Loud(f))
    <3>1. text'[n].read = w.read
      <4>1. CASE n # m
        BY <1>9, <2>1, <4>1
      <4>2. CASE n = m
        <5>1. more = <<>>
          BY <1>2, <1>3, <2>8, <4>2, NothingRead
        <5>2. w.read \o <<>> = w.read
          BY <2>2, Joined
        <5> QED BY <1>9, <2>1, <4>2, <5>1, <5>2
      <4> QED BY <4>1, <4>2
    <3>2. PICK at2 : InLine(Tail(fr), n, due, got, u, at2)
      BY <1>1, <1>5, <1>6, <2>1, <2>5, <2>8, SilentRead
    <3>3. InLine(frames', n, text'[n].due, Len(text'[n].read), u, at2)
      BY <1>5, <2>1, <2>3, <3>1, <3>2
    <3>4. \A i \in DOMAIN text'[n].read : text'[n].read[i] = text'[n].due[i]
      BY <2>3, <2>5, <3>1
    <3>5. text'[n].ok => u = Len(text'[n].due)
      BY <2>3, <2>7
    <3>6. \A c \in Callers : (task'[c] # Idle /\ task'[c].id = n) => Owed(keymap', task'[c], text'[n], u)
      BY <1>5, <2>1, <2>6
    <3>7. Told(n, at2, u)'
      BY <3>3, <3>4, <3>5, <3>6 DEF Told
    <3> QED BY <3>7
  <2>9. CASE f.by = n /\ Loud(f)
    <3>1. n = m /\ live
      BY <1>2, <2>3, <2>9
    <3>2. /\ got + 1 <= Len(due) /\ Says(f, due[got + 1])
          /\ \E at2 : InLine(Tail(fr), n, due, got + 1, u, at2)
      <4>1. IsSeq(fr) /\ fr # <<>> /\ Head(fr) = f
        BY <1>1, <1>5, <1>6, <2>1
      <4>2. Head(fr).by = n /\ Loud(Head(fr))
        BY <2>9, <4>1
      <4>3. /\ got + 1 <= Len(due) /\ Says(Head(fr), due[got + 1])
            /\ \E at2 : InLine(Tail(fr), n, due, got + 1, u, at2)
        BY <2>2, <2>5, <4>1, <4>2, NextRead
      <4> QED BY <4>1, <4>3
    <3>3. PICK at2 : InLine(Tail(fr), n, due, got + 1, u, at2)
      BY <3>2
    <3>4. \A e \in Devices : ~Shifts(e, down[e])
      <4>1. Unshifted(frames, down, 1)
        BY <1>4, <1>7, <3>1
      <4>2. \A e, k : ~LetGo(frames, e, k, 0, 1)
        BY <1>6 DEF LetGo, BInv
      <4> QED BY <4>1, <4>2 DEF Unshifted, Shifts
    <3>5. more = <<due[got + 1]>>
      <4>1. Readings(f.dev, f.strokes) = <<due[got + 1]>>
        BY <1>2, <1>4, <1>7, <3>1, <3>2, <3>4, KeyIsRead
      <4> QED BY <1>2, <1>3, <1>4, <3>1, <4>1
    <3>6. PICK x : x = due[got + 1]
      OBVIOUS
    <3>7. PICK read : read = w.read \o <<x>>
      OBVIOUS
    <3>8. text'[n].read = read
      BY <1>9, <2>1, <3>1, <3>5, <3>6, <3>7
    <3>9. /\ Len(read) = got + 1 /\ DOMAIN read = 1..(got + 1)
          /\ read[got + 1] = x /\ \A i \in 1..got : read[i] = w.read[i]
          /\ DOMAIN w.read = 1..got
      <4>1. PICK s : s = w.read
        OBVIOUS
      <4>2. IsSeq(s) /\ got = Len(s) /\ read = s \o <<x>>
        BY <2>1, <2>2, <3>7, <4>1
      <4>3. /\ Len(read) = Len(s) + 1 /\ DOMAIN read = 1..(Len(s) + 1) /\ DOMAIN s = 1..Len(s)
            /\ read[Len(s) + 1] = x /\ \A i \in DOMAIN s : read[i] = s[i]
        BY <4>2, Joined
      <4> QED BY <4>1, <4>2, <4>3
    <3>10. \A i \in DOMAIN read : read[i] = due[i]
      <4>1. \A i \in 1..(got + 1) : i = got + 1 \/ i \in 1..got
        BY <2>2
      <4> QED BY <2>5, <3>6, <3>9, <4>1
    <3>11. InLine(frames', n, text'[n].due, Len(text'[n].read), u, at2)
      BY <1>5, <2>1, <2>3, <3>3, <3>8, <3>9
    <3>12. \A i \in DOMAIN text'[n].read : text'[n].read[i] = text'[n].due[i]
      BY <2>3, <3>8, <3>10
    <3>13. text'[n].ok => u = Len(text'[n].due)
      BY <2>3, <2>7
    <3>14. \A c \in Callers : (task'[c] # Idle /\ task'[c].id = n) => Owed(keymap', task'[c], text'[n], u)
      BY <1>5, <2>1, <2>6
    <3>15. Told(n, at2, u)'
      BY <3>11, <3>12, <3>13, <3>14 DEF Told
    <3> QED BY <3>15
  <2> QED BY <2>8, <2>9
<1>14. Story'
  BY <1>9, <1>13 DEF Story
<1> QED BY <1>10, <1>11, <1>12, <1>14 DEF CInv

------------------------------------------------------------------------------
LEMMA EveryStepTells == ASSUME Inv, BInv, CInv, [Next]_vars PROVE CInv'
<1>1. ASSUME UNCHANGED <<frames, count, task, text, keymap>>,
             \A e \in Devices : down'[e] \in {{}, down[e]}
      PROVE  CInv'
  BY <1>1, NothingToTell
<1>2. ASSUME NEW d \in Devices, Offer(d) \/ Resume(d) PROVE CInv'
  <2>1. UNCHANGED <<frames, count, task, text, keymap, down>>
    BY <1>2 DEF Offer, Resume, Send, state, calling
  <2> QED BY <1>1, <2>1
<1>3. ASSUME NEW d \in Devices, NEW kind, Withdraw(d, kind) PROVE CInv'
  <2>1. UNCHANGED <<frames, count, task, text, keymap>> /\ down' = [down EXCEPT ![d] = {}]
    BY <1>3 DEF Withdraw, Send, state, calling
  <2>2. \A e \in Devices : down'[e] \in {{}, down[e]}
    BY <2>1 DEF BInv
  <2> QED BY <1>1, <2>1, <2>2
<1>4. CASE HangUp
  BY <1>4, HangUpTells
<1>5. CASE ReadFrame
  BY <1>5, ReadTells
<1>6. CASE HandleEvent
  BY <1>6, HandleTells
<1>7. CASE TimeOut
  BY <1>1, <1>7 DEF TimeOut, state, calling
<1>8. ASSUME NEW c \in Callers, Calls(c) PROVE CInv'
  BY <1>8, BeginKeyTells, BeginTextTells, PointTells, FindShiftTells, EmitKeyTells,
     NothingToEmitTells DEF Calls
<1>9. CASE UNCHANGED vars
  BY <1>1, <1>9 DEF vars, state, calling
<1> QED BY <1>2, <1>3, <1>4, <1>5, <1>6, <1>7, <1>8, <1>9 DEF Next, Server

LEMMA NothingToldYet == Init => CInv
<1> SUFFICES ASSUME Init PROVE CInv
  OBVIOUS
<1>1. /\ count = 0 /\ frames = <<>> /\ task = [c \in Callers |-> Idle]
      /\ text = [n \in 1..MaxCalls |-> Due(<<>>)]
  BY DEF Init
<1>2. PICK none, w : none = <<>> /\ w = Due(none)
  OBVIOUS
<1>3. IsSeq(none)
  BY <1>2, EmptyIsSeq
<1>4. Account(w) /\ w.due = none /\ w.read = <<>> /\ ~w.ok
  BY <1>2, <1>3, NewAccount
<1>5. \A n \in DOMAIN text : text[n] = w
  BY <1>1, <1>2
<1>6. Accounts
  BY <1>1, <1>4, <1>5 DEF Accounts
<1>7. CallsKnown
  BY <1>1 DEF CallsKnown
<1>8. DOMAIN frames = {}
  BY <1>1
<1>9. FramesKnown
  BY <1>8 DEF FramesKnown
<1>10. ASSUME NEW n \in DOMAIN text PROVE Told(n, <<>>, 0)
  <2>1. Saying(frames, n) = {}
    BY <1>8 DEF Saying
  <2>2. Len(none) = 0 /\ Len(w.read) = 0 /\ DOMAIN w.read = {}
    BY <1>2, <1>4
  <2>3. \A i \in 0 + 1..0 : FALSE
    OBVIOUS
  <2>4. InLine(frames, n, none, 0, 0, <<>>)
    BY <2>1, <2>2, <2>3 DEF InLine
  <2> QED BY <1>1, <1>4, <1>5, <2>2, <2>4 DEF Told
<1>11. Story
  BY <1>10 DEF Story
<1> QED BY <1>6, <1>7, <1>9, <1>11 DEF CInv

LEMMA PrefixOf ==
    ASSUME NEW s, NEW t, IsSeq(s), IsSeq(t), Len(s) <= Len(t), \A i \in DOMAIN s : s[i] = t[i]
    PROVE  IsPrefix(s, t) /\ (Len(s) = Len(t) => s = t)
<1>1. PICK S : s \in Seq(S)
  BY DEF IsSeq
<1>2. PICK T : t \in Seq(T)
  BY DEF IsSeq
<1>3. s \in Seq(S \cup T) /\ t \in Seq(S \cup T)
  BY <1>1, <1>2
<1>4. PICK n : n = Len(s)
  OBVIOUS
<1>5. PICK a, b : a = SubSeq(s, 1, n) /\ b = SubSeq(t, 1, n)
  OBVIOUS
<1>6. n \in Nat /\ DOMAIN s = 1..n /\ Len(t) \in Nat /\ n <= Len(t)
  BY <1>3, <1>4
<1>7. /\ a \in Seq(S \cup T) /\ Len(a) = n /\ \A i \in 1..n : a[i] = s[i]
      /\ b \in Seq(S \cup T) /\ Len(b) = n /\ \A i \in 1..n : b[i] = t[i]
  BY <1>3, <1>4, <1>5, <1>6
<1>8. \A i \in 1..n : a[i] = b[i]
  BY <1>6, <1>7
<1>9. a = b
  BY <1>7, <1>8, SeqEqual
<1>10. Len(s) = Len(t) => s = t
  BY <1>3, <1>4, <1>6, SeqEqual
<1> QED BY <1>4, <1>5, <1>6, <1>9, <1>10 DEF IsPrefix

\* What a client reads of key and type_text is what was asked for, in order,
\* and all of it once the call has succeeded and its frames are read: however
\* many callers type at the same time, press buttons in between, or hold keys,
\* on whatever layouts.  Each key is looked up in the keymap of the device it
\* goes to, and the Shift of one frame is up again before the next.
THEOREM TypingIsRead == Spec => []TypedAsAsked
<1>1. CInv => TypedAsAsked
  <2> SUFFICES ASSUME CInv, NEW n \in DOMAIN text, text[n].sure
               PROVE  /\ IsPrefix(text[n].read, text[n].due)
                      /\ (text[n].ok /\ \A i \in DOMAIN frames : frames[i].by # n)
                            => text[n].read = text[n].due
    BY DEF TypedAsAsked
  <2>1. PICK at, u : Told(n, at, u)
    BY DEF CInv, Story
  <2>2. PICK read, due, fr, got : /\ read = text[n].read /\ due = text[n].due /\ fr = frames
                                  /\ got = Len(read)
    OBVIOUS
  <2>3. IsSeq(read) /\ IsSeq(due) /\ got \in Nat /\ Len(due) \in Nat
    <3>1. Account(text[n])
      BY DEF CInv, Accounts
    <3>2. IsSeq(read) /\ IsSeq(due)
      BY <2>2, <3>1 DEF Account
    <3> QED BY <2>2, <3>2, SeqLen
  <2>4. /\ InLine(fr, n, due, got, u, at) /\ \A i \in DOMAIN read : read[i] = due[i]
        /\ text[n].ok => u = Len(due)
    BY <2>1, <2>2 DEF Told
  <2>5. Len(read) <= Len(due)
    BY <2>2, <2>3, <2>4 DEF InLine
  <2>6. IsPrefix(read, due) /\ (Len(read) = Len(due) => read = due)
    BY <2>3, <2>4, <2>5, PrefixOf
  <2>7. ASSUME text[n].ok, \A i \in DOMAIN frames : frames[i].by # n PROVE Len(read) = Len(due)
    <3>1. Saying(fr, n) = {}
      BY <2>2, <2>7 DEF Saying
    <3>2. got = u
      BY <2>3, <2>4, <3>1, AllRead
    <3> QED BY <2>2, <2>4, <2>7, <3>2
  <2> QED BY <2>2, <2>6, <2>7
<1>2. Inv /\ BInv /\ [Next]_vars => BInv'
  BY DownKeeps
<1>3. Inv /\ BInv /\ CInv /\ [Next]_vars => CInv'
  BY EveryStepTells
<1>4. Spec => [](Inv /\ BInv /\ CInv)
  BY Invariance, NothingDown, NothingToldYet, <1>2, <1>3, PTL DEF Spec
<1> QED BY <1>1, <1>4, PTL
==============================================================================
