--------------------------- MODULE MbimProxyProofs ---------------------------
(***************************************************************************)
(* Proofs about MbimProxy, for any connections, up to 255 slots and any    *)
(* transaction ids below 2 ^ 24: its types, the use of the slots, the way  *)
(* of an answer to the client that asked, and that the proxy implements    *)
(* MbimService.                                                            *)
(***************************************************************************)
EXTENDS MbimProxy, SequenceTheorems, TLAPS

USE DEF procVars, connVars, vars

\* A client's stream holds its own requests.
OwnStreams == \A c \in Conns : \A k \in 1 .. Len(stream[c]) : stream[c][k].from = c

\* What the modem may still answer bears the slot of its sender, which is in
\* that slot as long as it is connected.
Tagged(m) ==
    \E i \in Slots : /\ m.tag = Tag(i, m.req.tid)
                     /\ link[m.req.from] # "new"
                     /\ link[m.req.from] \in Connected => slot[i] = m.req.from
AllTagged == \A m \in modem : Tagged(m)

IInv == TypeOK /\ SlotsExclusive /\ OwnStreams /\ AllTagged /\ AnswerToAsker
-----------------------------------------------------------------------------
\* Clients' ids leave the top byte alone.
LEMMA TidNat == ASSUME NEW t \in Tids PROVE t \in Nat /\ t < Shift
<1>1. Tids \subseteq 0 .. Shift - 1
  BY MbimAssumption, Zenon
<1>2. Shift \in Nat
  BY SMT DEF Shift
<1> QED
  BY <1>1, <1>2, SMT

\* The slot and the client's id can be read off the id the modem is given.
LEMMA TagInverse ==
    ASSUME NEW i \in Slots, NEW t \in Tids
    PROVE  /\ Tag(i, t) \in Nat
           /\ Sender(Tag(i, t)) = i
           /\ OwnTid(Tag(i, t)) = t
<1>1. i \in Nat
  BY MbimAssumption, SMT DEF Slots
<1>2. t \in Nat /\ t < Shift
  BY TidNat
<1> QED
  BY <1>1, <1>2, SMT DEF Tag, Sender, OwnTid, Shift

DeliveredType ==
    [to : SUBSET Conns, slow : SUBSET Conns, req : Requests \cup {None}, tid : Nat]

\* A message is offered to those it is written to; some of them miss it.
LEMMA Written ==
    ASSUME NEW to, NEW r, NEW tid, Deliver(to, r, tid)
    PROVE  /\ Service!Offer(to, r, tid)
           /\ delivered'.to \cup delivered'.slow = to
           /\ delivered'.req = r /\ delivered'.tid = tid
           /\ to \subseteq Conns /\ r \in Requests \cup {None} /\ tid \in Nat =>
                 delivered' \in DeliveredType
<1>1. PICK slow \in SUBSET to :
          delivered' = [to |-> to \ slow, slow |-> slow, req |-> r, tid |-> tid]
  BY DEF Deliver
<1>2. /\ delivered'.to = to \ slow /\ delivered'.slow = slow
      /\ delivered'.req = r /\ delivered'.tid = tid
  BY <1>1
<1> QED
  BY <1>1, <1>2 DEF Service!Offer, DeliveredType

LEMMA InitIInv == Init => IInv
<1> SUFFICES ASSUME Init PROVE IInv
  OBVIOUS
<1>1. TypeOK
  <2>1. stream \in [Conns -> Seq(Requests)]
    BY DEF Init
  <2>2. delivered \in DeliveredType
    BY DEF Init, Nothing, DeliveredType
  <2>3. slot \in [Slots -> Conns \cup {None}]
    BY DEF Init, Empty
  <2> QED
    BY <2>1, <2>2, <2>3 DEF Init, TypeOK, DeliveredType
<1>2. SlotsExclusive
  BY MbimAssumption DEF Init, SlotsExclusive, Empty, Seated
<1>3. OwnStreams /\ AllTagged /\ AnswerToAsker
  BY DEF Init, OwnStreams, AllTagged, AnswerToAsker, Nothing
<1> QED
  BY <1>1, <1>2, <1>3 DEF IInv

\* The request of client c that ClientSend makes.
Asking(c, tid, kind) == [from |-> c, tid |-> tid, kind |-> kind, n |-> counts.msgs + 1]

LEMMA AskingTyped ==
    ASSUME IInv, NEW c \in Conns, NEW tid \in Tids, NEW kind \in Kinds
    PROVE  Asking(c, tid, kind) \in Requests
BY DEF Asking, Requests, IInv, TypeOK

\* The first message in the stream of a connection that has a slot.
LEMMA TypedStream ==
    ASSUME IInv, NEW i \in Slots, slot[i] # None, stream[slot[i]] # <<>>
    PROVE  /\ slot[i] \in Conns /\ link[slot[i]] \in Connected
           /\ Head(stream[slot[i]]) \in Requests
           /\ Head(stream[slot[i]]).from = slot[i]
           /\ Head(stream[slot[i]]).tid \in Tids
<1>1. slot[i] \in Conns
  BY DEF IInv, TypeOK
<1>2. stream[slot[i]] \in Seq(Requests)
  BY <1>1 DEF IInv, TypeOK
<1>3. Head(stream[slot[i]]) \in Requests
  BY <1>2, HeadTailProperties
<1>4. 1 \in 1 .. Len(stream[slot[i]]) /\ Head(stream[slot[i]]) = stream[slot[i]][1]
  BY <1>2, EmptySeq
<1>5. Head(stream[slot[i]]).from = slot[i]
  BY <1>1, <1>4 DEF IInv, OwnStreams
<1>6. link[slot[i]] \in Connected
  BY <1>1 DEF IInv, SlotsExclusive, Seated
<1> QED
  BY <1>1, <1>3, <1>5, <1>6 DEF Requests

\* What an answer carries back.
LEMMA TypedAnswer ==
    ASSUME IInv, NEW m \in modem
    PROVE  /\ m.req \in Requests /\ m.req.from \in Conns
           /\ Sender(m.tag) \in Slots /\ OwnTid(m.tag) = m.req.tid
           /\ m.req.tid \in Nat
           /\ link[m.req.from] \in Connected => slot[Sender(m.tag)] = m.req.from
<1>1. m.req \in Requests
  BY DEF IInv, TypeOK, Messages
<1>2. m.req.from \in Conns /\ m.req.tid \in Tids
  BY <1>1 DEF Requests
<1>3. m.req.tid \in Nat
  BY <1>2, TidNat
<1>4. PICK i \in Slots : /\ m.tag = Tag(i, m.req.tid)
                         /\ link[m.req.from] # "new"
                         /\ link[m.req.from] \in Connected => slot[i] = m.req.from
  BY DEF IInv, AllTagged, Tagged
<1>5. Sender(m.tag) = i /\ OwnTid(m.tag) = m.req.tid
  BY <1>2, <1>4, TagInverse
<1> QED
  BY <1>1, <1>2, <1>3, <1>4, <1>5

\* The variables keep their types.
LEMMA TypeStep ==
    ASSUME IInv, [Next]_vars
    PROVE  TypeOK'
<1>1. ASSUME OpenDone PROVE TypeOK'
  BY <1>1 DEF OpenDone, IInv, TypeOK, Silent, Nothing
<1>2. ASSUME OpenFails PROVE TypeOK'
  BY <1>2 DEF OpenFails, Restart, Reopen, Empty, IInv, TypeOK, Silent, Nothing
<1>3. ASSUME DeviceLost PROVE TypeOK'
  BY <1>3 DEF DeviceLost, Restart, Reopen, Empty, IInv, TypeOK, Silent,
    Nothing
<1>4. ASSUME NEW c \in Conns, Connect(c) PROVE TypeOK'
  BY <1>4 DEF Connect, IInv, TypeOK, Silent, Nothing, Connected
<1>5. ASSUME NEW c \in Conns, NEW t \in Tids, NEW kind \in Kinds,
  ClientSend(c, t, kind) PROVE
  TypeOK'
  <2> DEFINE r == Asking(c, t, kind)
  <2>1. stream[c] \in Seq(Requests)
    BY DEF IInv, TypeOK
  <2>2. r \in Requests /\ Append(stream[c], r) \in Seq(Requests)
    BY <2>1, AskingTyped, AppendProperties
  <2>3. stream' \in [Conns -> Seq(Requests)]
    BY <1>5, <2>2 DEF ClientSend, Asking, IInv, TypeOK
  <2>4. counts' \in [msgs : Nat, inds : Nat]
    <3>1. counts \in [msgs : Nat, inds : Nat]
      BY DEF IInv, TypeOK
    <3>2. counts' = [counts EXCEPT !.msgs = counts.msgs + 1]
      BY <1>5 DEF ClientSend
    <3> QED
      BY <3>1, <3>2
  <2>5. delivered' \in DeliveredType
    BY <1>5 DEF ClientSend, Silent, Nothing, DeliveredType
  <2> QED
    BY <1>5, <2>3, <2>4, <2>5 DEF ClientSend, IInv, TypeOK, DeliveredType
<1>6. ASSUME NEW c \in Conns, NEW how \in {"half", "shut"}, ClientLeaves(c,
  how) PROVE TypeOK'
  BY <1>6 DEF ClientLeaves, IInv, TypeOK, Silent, Nothing, Connected
<1>7. ASSUME NEW c \in Conns, Accept(c) PROVE TypeOK'
  <2>1. slot' \in [Slots -> Conns \cup {None}]
    BY <1>7 DEF Accept, IInv, TypeOK
  <2>2. link' \in [Conns -> {"new", "gone", "forgotten"} \cup Connected]
    BY <1>7 DEF Accept, IInv, TypeOK
  <2>3. stream' \in [Conns -> Seq(Requests)]
    <3>1. stream' = stream \/ stream' = [stream EXCEPT ![c] = <<>>]
      BY <1>7 DEF Accept
    <3>2. stream \in [Conns -> Seq(Requests)] /\ <<>> \in Seq(Requests)
      BY DEF IInv, TypeOK
    <3> QED
      BY <3>1, <3>2
  <2>4. delivered' \in DeliveredType
    BY <1>7 DEF Accept, Silent, Nothing, DeliveredType
  <2> QED
    BY <1>7, <2>1, <2>2, <2>3, <2>4 DEF Accept, IInv, TypeOK, DeliveredType
<1>8. ASSUME NEW i \in Slots, Disconnect(i) PROVE TypeOK'
  BY <1>8 DEF Disconnect, Free, IInv, TypeOK, Silent, Nothing
<1>9. ASSUME NEW i \in Slots, ReadFails(i) PROVE TypeOK'
  BY <1>9 DEF ReadFails, Reopen, Empty, IInv, TypeOK, Silent, Nothing
<1>10. ASSUME NEW i \in Slots, NEW ok \in BOOLEAN, Request(i, ok) PROVE
  TypeOK'
  <2> DEFINE r == Head(stream[slot[i]])
             t == [tag |-> Tag(i, r.tid), req |-> r]
  <2>1. slot[i] \in Conns /\ r \in Requests /\ r.tid \in Tids
    BY <1>10, TypedStream DEF Request
  <2>2. t \in Messages /\ r.tid \in Nat
    BY <2>1, TagInverse, TidNat DEF Messages
  <2>3. modem' \subseteq Messages
    BY <1>10, <2>2 DEF Request, IInv, TypeOK
  <2>4. delivered' \in DeliveredType
    BY <1>10, <2>1, <2>2, Written DEF Request, Silent, Nothing, DeliveredType
  <2>5. stream' \in [Conns -> Seq(Requests)]
    BY <1>10 DEF Request, IInv, TypeOK
  <2>6. stage' \in {"open", "serve", "dead"}
    BY <1>10 DEF Request, Deliver, IInv, TypeOK
  <2> QED
    BY <1>10, <2>3, <2>4, <2>5, <2>6 DEF Request, IInv, TypeOK, DeliveredType
<1>11. ASSUME NEW m \in modem, Answer(m) PROVE TypeOK'
  <2>1. /\ m.req \in Requests /\ Sender(m.tag) \in Slots
        /\ OwnTid(m.tag) \in Nat
    BY TypedAnswer
  <2>2. slot[Sender(m.tag)] \in Conns \cup {None}
    BY <2>1 DEF IInv, TypeOK
  <2>3. delivered' \in DeliveredType
    BY <1>11, <2>1, <2>2, Written DEF Answer
  <2> QED
    BY <1>11, <2>1, <2>3 DEF Answer, Deliver, IInv, TypeOK, DeliveredType
<1>12. ASSUME Indicate PROVE TypeOK'
  <2>1. delivered' \in DeliveredType
    BY <1>12, Written DEF Indicate, Seated
  <2> QED
    BY <1>12, <2>1 DEF Indicate, Deliver, IInv, TypeOK, DeliveredType
<1>13. ASSUME Terminated PROVE TypeOK'
  BY <1>13 DEF Terminated, IInv, TypeOK, Silent, Nothing
<1>14. ASSUME UNCHANGED vars PROVE TypeOK'
  BY <1>14 DEF IInv, TypeOK, Silent, Nothing
<1> QED
  BY <1>1, <1>2, <1>3, <1>4, <1>5, <1>6, <1>7, <1>8, <1>9, <1>10, <1>11,
    <1>12, <1>13, <1>14 DEF Next, ClientStep, ServeStep

\* The slots stay exclusive.
LEMMA SlotsStep ==
    ASSUME IInv, [Next]_vars
    PROVE  SlotsExclusive'
<1>1. ASSUME OpenDone PROVE SlotsExclusive'
  BY <1>1, MbimAssumption DEF OpenDone, IInv, TypeOK, SlotsExclusive, Seated,
    Connected
<1>2. ASSUME OpenFails PROVE SlotsExclusive'
  BY <1>2, MbimAssumption DEF OpenFails, Restart, Reopen, Empty, IInv, TypeOK,
    SlotsExclusive, Seated, Connected
<1>3. ASSUME DeviceLost PROVE SlotsExclusive'
  BY <1>3, MbimAssumption DEF DeviceLost, Restart, Reopen, Empty, IInv,
    TypeOK, SlotsExclusive, Seated, Connected
<1>4. ASSUME NEW c \in Conns, Connect(c) PROVE SlotsExclusive'
  BY <1>4, MbimAssumption DEF Connect, IInv, TypeOK, SlotsExclusive, Seated,
    Connected
<1>5. ASSUME NEW c \in Conns, NEW t \in Tids, NEW kind \in Kinds,
  ClientSend(c, t, kind) PROVE
  SlotsExclusive'
  BY <1>5, MbimAssumption DEF ClientSend, IInv, TypeOK, SlotsExclusive,
    Seated, Connected
<1>6. ASSUME NEW c \in Conns, NEW how \in {"half", "shut"}, ClientLeaves(c,
  how) PROVE SlotsExclusive'
  BY <1>6, MbimAssumption DEF ClientLeaves, IInv, TypeOK, SlotsExclusive,
    Seated, Connected
<1>7. ASSUME NEW c \in Conns, Accept(c) PROVE SlotsExclusive'
  <2>1. /\ stage = "serve" /\ stage' = stage
        /\ link[c] \in Connected
        /\ \A j \in Slots : slot[j] # c
        /\ c # None
    BY <1>7, MbimAssumption DEF Accept, Seated, procVars
  <2>2. CASE /\ \E i \in Slots :
                  slot[i] = None /\ slot' = [slot EXCEPT ![i] = c]
             /\ link' = link
    <3>1. PICK i \in Slots : slot[i] = None /\ slot' = [slot EXCEPT ![i] = c]
      BY <2>2
    <3>2. \A j \in Slots : slot'[j] = IF j = i THEN c ELSE slot[j]
      BY <3>1 DEF IInv, TypeOK
    <3>3. \A j, k \in Slots :
             j # k /\ slot'[j] # None => slot'[j] # slot'[k]
      BY <2>1, <3>2 DEF IInv, SlotsExclusive
    <3>4. \A d \in Seated' : link'[d] \in Connected
      BY <2>1, <2>2, <3>2 DEF IInv, SlotsExclusive, Seated
    <3> QED
      BY <2>1, <3>3, <3>4 DEF SlotsExclusive
  <2>3. CASE link' = [link EXCEPT ![c] = "gone"] /\ slot' = slot
    <3>1. Seated' = Seated /\ c \notin Seated
      BY <2>1, <2>3 DEF Seated
    <3>2. \A d \in Seated : link'[d] = link[d]
      BY <2>3, <3>1 DEF IInv, TypeOK
    <3>3. \A d \in Seated' : link'[d] \in Connected
      BY <3>1, <3>2 DEF IInv, SlotsExclusive
    <3> QED
      BY <2>1, <2>3, <3>3 DEF IInv, SlotsExclusive
  <2> QED
    BY <1>7, <2>2, <2>3 DEF Accept
<1>8. ASSUME NEW i \in Slots, Disconnect(i) PROVE SlotsExclusive'
  BY <1>8, MbimAssumption DEF Disconnect, Free, IInv, TypeOK, SlotsExclusive,
    Seated, Connected
<1>9. ASSUME NEW i \in Slots, ReadFails(i) PROVE SlotsExclusive'
  BY <1>9, MbimAssumption DEF ReadFails, Reopen, Empty, IInv, TypeOK,
    SlotsExclusive, Seated, Connected
<1>10. ASSUME NEW i \in Slots, NEW ok \in BOOLEAN, Request(i, ok) PROVE
  SlotsExclusive'
  BY <1>10, MbimAssumption DEF Request, Deliver, IInv, TypeOK, SlotsExclusive,
    Seated, Connected
<1>11. ASSUME NEW m \in modem, Answer(m) PROVE SlotsExclusive'
  BY <1>11, MbimAssumption DEF Answer, Deliver, IInv, TypeOK, SlotsExclusive,
    Seated, Connected
<1>12. ASSUME Indicate PROVE SlotsExclusive'
  BY <1>12, MbimAssumption DEF Indicate, Deliver, IInv, TypeOK,
    SlotsExclusive, Seated, Connected
<1>13. ASSUME Terminated PROVE SlotsExclusive'
  BY <1>13, MbimAssumption DEF Terminated, IInv, TypeOK, SlotsExclusive,
    Seated, Connected
<1>14. ASSUME UNCHANGED vars PROVE SlotsExclusive'
  BY <1>14, MbimAssumption DEF IInv, TypeOK, SlotsExclusive, Seated, Connected
<1> QED
  BY <1>1, <1>2, <1>3, <1>4, <1>5, <1>6, <1>7, <1>8, <1>9, <1>10, <1>11,
    <1>12, <1>13, <1>14 DEF Next, ClientStep, ServeStep

\* Each stream stays its client's.
LEMMA StreamsStep ==
    ASSUME IInv, [Next]_vars
    PROVE  OwnStreams'
<1>1. ASSUME OpenDone PROVE OwnStreams'
  BY <1>1 DEF OpenDone, IInv, TypeOK, OwnStreams
<1>2. ASSUME OpenFails PROVE OwnStreams'
  BY <1>2 DEF OpenFails, Restart, Reopen, Empty, IInv, TypeOK, OwnStreams
<1>3. ASSUME DeviceLost PROVE OwnStreams'
  BY <1>3 DEF DeviceLost, Restart, Reopen, Empty, IInv, TypeOK, OwnStreams
<1>4. ASSUME NEW c \in Conns, Connect(c) PROVE OwnStreams'
  BY <1>4 DEF Connect, IInv, TypeOK, OwnStreams
<1>5. ASSUME NEW c \in Conns, NEW t \in Tids, NEW kind \in Kinds,
  ClientSend(c, t, kind) PROVE
  OwnStreams'
  <2> DEFINE r == Asking(c, t, kind)
  <2>1. stream[c] \in Seq(Requests) /\ r.from = c
    BY DEF IInv, TypeOK, Asking
  <2> HIDE DEF r
  <2>2. \A k \in 1 .. Len(Append(stream[c], r)) : Append(stream[c], r)[k].from = c
    <3>1. Len(Append(stream[c], r)) = Len(stream[c]) + 1
      BY <2>1, AppendProperties
    <3>2. TAKE k \in 1 .. Len(Append(stream[c], r))
    <3>3. CASE k = Len(stream[c]) + 1
      BY <2>1, <3>3, AppendProperties
    <3>4. CASE k # Len(stream[c]) + 1
      <4>1. Len(stream[c]) \in Nat
        BY <2>1, LenProperties
      <4>2. k \in 1 .. Len(stream[c])
        BY <3>1, <3>4, <4>1
      <4>3. Append(stream[c], r)[k] = stream[c][k]
        BY <2>1, <4>2, AppendProperties
      <4> QED
        BY <4>2, <4>3 DEF IInv, OwnStreams
    <3> QED
      BY <3>3, <3>4
  <2>3. \A d \in Conns : stream'[d] = IF d = c THEN Append(stream[c], r) ELSE stream[d]
    BY <1>5 DEF r, Asking, ClientSend, IInv, TypeOK
  <2> QED
    BY <2>2, <2>3 DEF IInv, OwnStreams
<1>6. ASSUME NEW c \in Conns, NEW how \in {"half", "shut"}, ClientLeaves(c,
  how) PROVE OwnStreams'
  BY <1>6 DEF ClientLeaves, IInv, TypeOK, OwnStreams
<1>7. ASSUME NEW c \in Conns, Accept(c) PROVE OwnStreams'
  <2>1. stream' = stream \/ stream' = [stream EXCEPT ![c] = <<>>]
    BY <1>7 DEF Accept
  <2>2. \A d \in Conns : stream'[d] = stream[d] \/ stream'[d] = <<>>
    BY <2>1 DEF IInv, TypeOK
  <2> QED
    BY <2>2 DEF IInv, OwnStreams
<1>8. ASSUME NEW i \in Slots, Disconnect(i) PROVE OwnStreams'
  BY <1>8 DEF Disconnect, Free, IInv, TypeOK, OwnStreams
<1>9. ASSUME NEW i \in Slots, ReadFails(i) PROVE OwnStreams'
  BY <1>9 DEF ReadFails, Reopen, Empty, IInv, TypeOK, OwnStreams
<1>10. ASSUME NEW i \in Slots, NEW ok \in BOOLEAN, Request(i, ok) PROVE
  OwnStreams'
  BY <1>10 DEF Request, Deliver, IInv, TypeOK, OwnStreams
<1>11. ASSUME NEW m \in modem, Answer(m) PROVE OwnStreams'
  BY <1>11 DEF Answer, Deliver, IInv, TypeOK, OwnStreams
<1>12. ASSUME Indicate PROVE OwnStreams'
  BY <1>12 DEF Indicate, Deliver, IInv, TypeOK, OwnStreams
<1>13. ASSUME Terminated PROVE OwnStreams'
  BY <1>13 DEF Terminated, IInv, TypeOK, OwnStreams
<1>14. ASSUME UNCHANGED vars PROVE OwnStreams'
  BY <1>14 DEF IInv, TypeOK, OwnStreams
<1> QED
  BY <1>1, <1>2, <1>3, <1>4, <1>5, <1>6, <1>7, <1>8, <1>9, <1>10, <1>11,
    <1>12, <1>13, <1>14 DEF Next, ClientStep, ServeStep

\* What the modem has stays tagged with the sender's slot.
LEMMA TaggedStep ==
    ASSUME IInv, [Next]_vars
    PROVE  AllTagged'
<1>1. ASSUME OpenDone PROVE AllTagged'
  BY <1>1 DEF OpenDone, IInv, TypeOK, AllTagged, Tagged, Messages, Requests,
    Connected
<1>2. ASSUME OpenFails PROVE AllTagged'
  BY <1>2 DEF OpenFails, Restart, Reopen, Empty, IInv, TypeOK, AllTagged,
    Tagged, Messages, Requests, Connected
<1>3. ASSUME DeviceLost PROVE AllTagged'
  BY <1>3 DEF DeviceLost, Restart, Reopen, Empty, IInv, TypeOK, AllTagged,
    Tagged, Messages, Requests, Connected
<1>4. ASSUME NEW c \in Conns, Connect(c) PROVE AllTagged'
  BY <1>4 DEF Connect, IInv, TypeOK, AllTagged, Tagged, Messages, Requests,
    Connected
<1>5. ASSUME NEW c \in Conns, NEW t \in Tids, NEW kind \in Kinds,
  ClientSend(c, t, kind) PROVE
  AllTagged'
  BY <1>5 DEF ClientSend, IInv, TypeOK, AllTagged, Tagged, Messages, Requests,
    Connected
<1>6. ASSUME NEW c \in Conns, NEW how \in {"half", "shut"}, ClientLeaves(c,
  how) PROVE AllTagged'
  BY <1>6 DEF ClientLeaves, IInv, TypeOK, AllTagged, Tagged, Messages,
    Requests, Connected
<1>7. ASSUME NEW c \in Conns, Accept(c) PROVE AllTagged'
  <2>1. ASSUME NEW m \in modem PROVE Tagged(m)'
    <3>1. m.req.from \in Conns
      BY TypedAnswer
    <3>2. PICK i \in Slots : /\ m.tag = Tag(i, m.req.tid)
                             /\ link[m.req.from] # "new"
                             /\ link[m.req.from] \in Connected => slot[i] = m.req.from
      BY DEF IInv, AllTagged, Tagged
    <3>3. link'[m.req.from] # "new"
      BY <1>7, <3>1, <3>2 DEF Accept, IInv, TypeOK
    <3>4. ASSUME link'[m.req.from] \in Connected PROVE slot'[i] = m.req.from
      <4>1. link[m.req.from] \in Connected
        BY <1>7, <3>1, <3>4 DEF Accept, IInv, TypeOK, Connected
      <4>2. slot[i] = m.req.from
        BY <3>2, <4>1
      <4>3. slot[i] # None
        BY <3>1, <4>2, MbimAssumption
      <4> QED
        BY <1>7, <4>2, <4>3 DEF Accept, IInv, TypeOK
    <3> QED
      BY <3>2, <3>3, <3>4 DEF Tagged
  <2> QED
    BY <1>7, <2>1 DEF Accept, AllTagged
<1>8. ASSUME NEW i \in Slots, Disconnect(i) PROVE AllTagged'
  <2>1. slot[i] \in Conns
    BY <1>8 DEF Disconnect, IInv, TypeOK
  <2>2. ASSUME NEW m \in modem PROVE Tagged(m)'
    <3>1. m.req.from \in Conns
      BY TypedAnswer
    <3>2. PICK j \in Slots : /\ m.tag = Tag(j, m.req.tid)
                             /\ link[m.req.from] # "new"
                             /\ link[m.req.from] \in Connected => slot[j] = m.req.from
      BY DEF IInv, AllTagged, Tagged
    <3>3. link'[m.req.from] # "new"
      BY <1>8, <2>1, <3>1, <3>2 DEF Disconnect, IInv, TypeOK
    <3>4. ASSUME link'[m.req.from] \in Connected PROVE slot'[j] = m.req.from
      <4>1. m.req.from # slot[i] /\ link[m.req.from] \in Connected
        BY <1>8, <2>1, <3>1, <3>4 DEF Disconnect, IInv, TypeOK, Connected
      <4>2. slot[j] = m.req.from /\ j # i
        BY <3>2, <4>1
      <4> QED
        BY <1>8, <4>2 DEF Disconnect, Free, IInv, TypeOK
    <3> QED
      BY <3>2, <3>3, <3>4 DEF Tagged
  <2> QED
    BY <1>8, <2>2 DEF Disconnect, AllTagged
<1>9. ASSUME NEW i \in Slots, ReadFails(i) PROVE AllTagged'
  BY <1>9 DEF ReadFails, Reopen, Empty, IInv, TypeOK, AllTagged, Tagged,
    Messages, Requests, Connected
<1>10. ASSUME NEW i \in Slots, NEW ok \in BOOLEAN, Request(i, ok) PROVE
  AllTagged'
  <2> DEFINE r == Head(stream[slot[i]])
             t == [tag |-> Tag(i, r.tid), req |-> r]
  <2>1. r.from = slot[i] /\ link[slot[i]] \in Connected
    BY <1>10, TypedStream DEF Request
  <2>2. ASSUME NEW m \in modem' PROVE Tagged(m)'
    <3>1. m \in modem \/ m = t
      BY <1>10, <2>2 DEF Request
    <3>2. Tagged(m)
      <4>1. CASE m = t
        BY <2>1, <4>1 DEF Tagged, Connected
      <4>2. CASE m \in modem
        BY <4>2 DEF IInv, AllTagged
      <4> QED
        BY <3>1, <4>1, <4>2
    <3> QED
      BY <1>10, <3>2 DEF Request, Tagged
  <2> QED
    BY <2>2 DEF AllTagged
<1>11. ASSUME NEW m \in modem, Answer(m) PROVE AllTagged'
  BY <1>11 DEF Answer, Deliver, IInv, TypeOK, AllTagged, Tagged, Messages,
    Requests, Connected
<1>12. ASSUME Indicate PROVE AllTagged'
  BY <1>12 DEF Indicate, Deliver, IInv, TypeOK, AllTagged, Tagged, Messages,
    Requests, Connected
<1>13. ASSUME Terminated PROVE AllTagged'
  BY <1>13 DEF Terminated, IInv, TypeOK, AllTagged, Tagged, Messages,
    Requests, Connected
<1>14. ASSUME UNCHANGED vars PROVE AllTagged'
  BY <1>14 DEF IInv, TypeOK, AllTagged, Tagged, Messages, Requests, Connected
<1> QED
  BY <1>1, <1>2, <1>3, <1>4, <1>5, <1>6, <1>7, <1>8, <1>9, <1>10, <1>11,
    <1>12, <1>13, <1>14 DEF Next, ClientStep, ServeStep

\* The answer that a step delivers goes to its asker.
LEMMA AskerStep ==
    ASSUME IInv, [Next]_vars
    PROVE  AnswerToAsker'
<1>1. ASSUME OpenDone PROVE AnswerToAsker'
  BY <1>1 DEF OpenDone, IInv, AnswerToAsker, Silent, Nothing
<1>2. ASSUME OpenFails PROVE AnswerToAsker'
  BY <1>2 DEF OpenFails, Restart, Reopen, Empty, IInv, AnswerToAsker, Silent,
    Nothing
<1>3. ASSUME DeviceLost PROVE AnswerToAsker'
  BY <1>3 DEF DeviceLost, Restart, Reopen, Empty, IInv, AnswerToAsker, Silent,
    Nothing
<1>4. ASSUME NEW c \in Conns, Connect(c) PROVE AnswerToAsker'
  BY <1>4 DEF Connect, IInv, AnswerToAsker, Silent, Nothing
<1>5. ASSUME NEW c \in Conns, NEW t \in Tids, NEW kind \in Kinds,
  ClientSend(c, t, kind) PROVE
  AnswerToAsker'
  BY <1>5 DEF ClientSend, IInv, AnswerToAsker, Silent, Nothing
<1>6. ASSUME NEW c \in Conns, NEW how \in {"half", "shut"}, ClientLeaves(c,
  how) PROVE AnswerToAsker'
  BY <1>6 DEF ClientLeaves, IInv, AnswerToAsker, Silent, Nothing
<1>7. ASSUME NEW c \in Conns, Accept(c) PROVE AnswerToAsker'
  BY <1>7 DEF Accept, IInv, AnswerToAsker, Silent, Nothing
<1>8. ASSUME NEW i \in Slots, Disconnect(i) PROVE AnswerToAsker'
  BY <1>8 DEF Disconnect, Free, IInv, AnswerToAsker, Silent, Nothing
<1>9. ASSUME NEW i \in Slots, ReadFails(i) PROVE AnswerToAsker'
  BY <1>9 DEF ReadFails, Reopen, Empty, IInv, AnswerToAsker, Silent, Nothing
<1>10. ASSUME NEW i \in Slots, NEW ok \in BOOLEAN, Request(i, ok) PROVE
  AnswerToAsker'
  <2> DEFINE r == Head(stream[slot[i]])
  <2>1. r.from = slot[i]
    BY <1>10, TypedStream DEF Request
  <2>2. \/ /\ delivered'.to \cup delivered'.slow = {slot[i]}
           /\ delivered'.req = r /\ delivered'.tid = r.tid
        \/ delivered' = Nothing
    BY <1>10, Written DEF Request, Silent
  <2> QED
    BY <2>1, <2>2 DEF AnswerToAsker, Nothing
<1>11. ASSUME NEW m \in modem, Answer(m) PROVE AnswerToAsker'
  <2> DEFINE c == slot[Sender(m.tag)]
  <2>1. /\ m.req.from \in Conns /\ OwnTid(m.tag) = m.req.tid
        /\ link[m.req.from] \in Connected => c = m.req.from
    BY TypedAnswer
  <2>2. /\ delivered'.to \cup delivered'.slow = IF c = None THEN {} ELSE {c}
        /\ delivered'.req = m.req /\ delivered'.tid = OwnTid(m.tag)
    BY <1>11, Written DEF Answer
  <2>3. link' = link
    BY <1>11 DEF Answer
  <2> QED
    BY <2>1, <2>2, <2>3, MbimAssumption DEF AnswerToAsker
<1>12. ASSUME Indicate PROVE AnswerToAsker'
  BY <1>12 DEF Indicate, Deliver, IInv, AnswerToAsker, Silent, Nothing
<1>13. ASSUME Terminated PROVE AnswerToAsker'
  BY <1>13 DEF Terminated, IInv, AnswerToAsker, Silent, Nothing
<1>14. ASSUME UNCHANGED vars PROVE AnswerToAsker'
  BY <1>14 DEF IInv, AnswerToAsker, Silent, Nothing
<1> QED
  BY <1>1, <1>2, <1>3, <1>4, <1>5, <1>6, <1>7, <1>8, <1>9, <1>10, <1>11,
    <1>12, <1>13, <1>14 DEF Next, ClientStep, ServeStep

LEMMA NextIInv == IInv /\ [Next]_vars => IInv'
BY TypeStep, SlotsStep, StreamsStep, TaggedStep, AskerStep DEF IInv

LEMMA SpecIInv == Spec => []IInv
BY InitIInv, NextIInv, PTL DEF Spec
-----------------------------------------------------------------------------
\* The variables keep their types.
THEOREM Typed == Spec => []TypeOK
<1>1. IInv => TypeOK
  BY DEF IInv
<1> QED
  BY <1>1, SpecIInv, PTL

\* handle_client_connect and handle_client_disconnect never give a connection
\* two slots, nor leave one in the table that is closed.
THEOREM SlotsKept == Spec => []SlotsExclusive
<1>1. IInv => SlotsExclusive
  BY DEF IInv
<1> QED
  BY <1>1, SpecIInv, PTL

\* The slot in the top byte of the transaction id brings every answer back to
\* the client that asked, if it is still connected, under the id it chose.
THEOREM AnswersReturn == Spec => []AnswerToAsker
<1>1. IInv => AnswerToAsker
  BY DEF IInv
<1> QED
  BY <1>1, SpecIInv, PTL
-----------------------------------------------------------------------------
(* The service the clients see. A client's requests are read in the order  *)
(* of their numbers, so that what it has written is newer than what the    *)
(* modem has from it, and a request is in one place at a time.             *)

Numbered ==
    /\ \A c \in Conns : \A k \in 1 .. Len(stream[c]) : stream[c][k].n <= counts.msgs
    /\ \A m \in modem : m.req.n <= counts.msgs
ReadBefore ==
    \A c \in Conns : \A k \in 1 .. Len(stream[c]) : \A m \in modem :
        m.req.from = c => m.req.n < stream[c][k].n
OneEach == \A m, o \in modem : m.req = o.req => m = o

OInv == IInv /\ Numbered /\ ReadBefore /\ OneEach

LEMMA InitOInv == Init => OInv
<1> SUFFICES ASSUME Init PROVE Numbered /\ ReadBefore /\ OneEach
  BY InitIInv DEF OInv
<1> QED
  BY DEF Init, Numbered, ReadBefore, OneEach

\* The numbers are numbers.
LEMMA Numbers ==
    ASSUME IInv
    PROVE  /\ counts.msgs \in Nat
           /\ \A m \in modem : m.req \in Requests /\ m.req.n \in Nat
           /\ \A c \in Conns : stream[c] \in Seq(Requests) /\ Len(stream[c]) \in Nat
           /\ \A c \in Conns : \A k \in 1 .. Len(stream[c]) : stream[c][k].n \in Nat
<1>1. counts.msgs \in Nat
  BY DEF IInv, TypeOK
<1>2. \A m \in modem : m.req \in Requests /\ m.req.n \in Nat
  BY DEF IInv, TypeOK, Messages, Requests
<1>3. \A c \in Conns : stream[c] \in Seq(Requests) /\ Len(stream[c]) \in Nat
  BY LenProperties DEF IInv, TypeOK
<1>4. \A c \in Conns : \A k \in 1 .. Len(stream[c]) : stream[c][k] \in Requests
  BY <1>3, ElementOfSeq
<1> QED
  BY <1>1, <1>2, <1>3, <1>4 DEF Requests

\* Nothing is asked, and streams are kept or dropped as a whole.
LEMMA OrderKept ==
    ASSUME OInv, modem' \subseteq modem, counts'.msgs = counts.msgs,
           \A c \in Conns : stream'[c] = stream[c] \/ stream'[c] = <<>>
    PROVE  Numbered' /\ ReadBefore' /\ OneEach'
BY DEF OInv, Numbered, ReadBefore, OneEach

\* A client asks.
LEMMA OrderSend ==
    ASSUME OInv, NEW c \in Conns, NEW tid \in Tids, NEW kind \in Kinds,
           ClientSend(c, tid, kind)
    PROVE  Numbered' /\ ReadBefore' /\ OneEach'
<1> DEFINE r == Asking(c, tid, kind)
<1>1. /\ counts.msgs \in Nat /\ counts'.msgs = counts.msgs + 1
      /\ r.n = counts.msgs + 1 /\ r \in Requests
      /\ modem' = modem
      /\ stream[c] \in Seq(Requests) /\ Len(stream[c]) \in Nat
      /\ stream'[c] = Append(stream[c], r)
      /\ \A d \in Conns : d # c => stream'[d] = stream[d]
  BY AskingTyped, Numbers DEF OInv, IInv, TypeOK, ClientSend, Asking
<1> HIDE DEF r
<1>2. \A k \in 1 .. Len(stream'[c]) :
         stream'[c][k] = r \/ (k \in 1 .. Len(stream[c]) /\ stream'[c][k] = stream[c][k])
  <2>1. Len(stream'[c]) = Len(stream[c]) + 1
    BY <1>1, AppendProperties
  <2> TAKE k \in 1 .. Len(stream'[c])
  <2>2. CASE k = Len(stream[c]) + 1
    BY <1>1, <2>2, AppendProperties
  <2>3. CASE k # Len(stream[c]) + 1
    <3>1. k \in 1 .. Len(stream[c])
      BY <1>1, <2>1, <2>3
    <3> QED
      BY <1>1, <3>1, AppendProperties
  <2> QED
    BY <2>2, <2>3
<1>3. \A d \in Conns : \A k \in 1 .. Len(stream'[d]) :
         stream'[d][k] = r \/ (k \in 1 .. Len(stream[d]) /\ stream'[d][k] = stream[d][k])
  <2> TAKE d \in Conns
  <2>1. CASE d = c
    BY <1>2, <2>1
  <2>2. CASE d # c
    BY <1>1, <2>2
  <2> QED
    BY <2>1, <2>2
<1>4. \A m \in modem : m.req.n <= counts.msgs /\ m.req.n \in Nat
  BY Numbers DEF OInv, Numbered
<1>5. ASSUME NEW d \in Conns, NEW k \in 1 .. Len(stream'[d])
      PROVE  /\ stream'[d][k].n <= counts'.msgs
             /\ \A m \in modem : m.req.from = d => m.req.n < stream'[d][k].n
  <2>1. CASE stream'[d][k] = r
    BY <1>1, <1>4, <2>1
  <2>2. CASE k \in 1 .. Len(stream[d]) /\ stream'[d][k] = stream[d][k]
    <3>1. stream[d][k].n \in Nat /\ stream[d][k].n <= counts.msgs
      BY <2>2, Numbers DEF OInv, Numbered
    <3>2. \A m \in modem : m.req.from = d => m.req.n < stream[d][k].n
      BY <2>2 DEF OInv, ReadBefore
    <3> QED
      BY <1>1, <2>2, <3>1, <3>2
  <2> QED
    BY <1>3, <2>1, <2>2
<1>6. Numbered'
  <2>1. \A m \in modem : m.req.n <= counts'.msgs
    BY <1>1, <1>4
  <2> QED
    BY <1>1, <1>5, <2>1 DEF Numbered
<1>7. ReadBefore'
  BY <1>1, <1>5 DEF ReadBefore
<1> QED
  BY <1>1, <1>6, <1>7 DEF OInv, OneEach

\* A request that is read is newer than what the modem has from its client.
LEMMA HeadIsNewer ==
    ASSUME OInv, NEW i \in Slots, slot[i] # None, stream[slot[i]] # <<>>
    PROVE  /\ slot[i] \in Conns
           /\ 1 \in 1 .. Len(stream[slot[i]])
           /\ Head(stream[slot[i]]) = stream[slot[i]][1]
           /\ Head(stream[slot[i]]) \in Requests
           /\ Head(stream[slot[i]]).from = slot[i]
           /\ Head(stream[slot[i]]).n <= counts.msgs
           /\ \A m \in modem : m.req # Head(stream[slot[i]])
<1>1. /\ slot[i] \in Conns
      /\ Head(stream[slot[i]]) \in Requests /\ Head(stream[slot[i]]).from = slot[i]
  BY TypedStream DEF OInv
<1>2. stream[slot[i]] \in Seq(Requests)
  BY <1>1, Numbers DEF OInv
<1>3. 1 \in 1 .. Len(stream[slot[i]]) /\ Head(stream[slot[i]]) = stream[slot[i]][1]
  BY <1>2, EmptySeq
<1>4. stream[slot[i]][1].n \in Nat
  BY <1>1, <1>3, Numbers DEF OInv
<1>5. \A m \in modem : m.req = stream[slot[i]][1] => m.req.n < stream[slot[i]][1].n
  BY <1>1, <1>3 DEF OInv, ReadBefore
<1> QED
  BY <1>1, <1>3, <1>4, <1>5 DEF OInv, Numbered

\* The proxy reads a request.
LEMMA OrderRequest ==
    ASSUME OInv, NEW i \in Slots, NEW ok \in BOOLEAN, Request(i, ok)
    PROVE  Numbered' /\ ReadBefore' /\ OneEach'
<1> DEFINE c == slot[i]
           r == Head(stream[c])
           t == [tag |-> Tag(i, r.tid), req |-> r]
<1>1. c # None /\ stream[c] # <<>> /\ counts' = counts
      /\ stream' = [stream EXCEPT ![c] = <<>>]
      /\ (modem' = modem \/ modem' = modem \cup {t})
  BY DEF Request
<1>2. /\ c \in Conns /\ r.from = c /\ r.n <= counts.msgs
      /\ \A m \in modem : m.req # r
  BY <1>1, HeadIsNewer
<1>3. stream'[c] = <<>> /\ \A d \in Conns : d # c => stream'[d] = stream[d]
  BY <1>1, <1>2 DEF OInv, IInv, TypeOK
<1>4. t.req = r
  OBVIOUS
<1> HIDE DEF c, r, t
<1>5. Numbered' /\ OneEach'
  BY <1>1, <1>2, <1>3, <1>4 DEF OInv, Numbered, OneEach
<1>6. ReadBefore'
  BY <1>1, <1>2, <1>3, <1>4 DEF OInv, ReadBefore
<1> QED
  BY <1>5, <1>6

\* The numbers stay in order.
LEMMA OrderStep ==
    ASSUME OInv, [Next]_vars
    PROVE  Numbered' /\ ReadBefore' /\ OneEach'
<1> USE DEF OInv, IInv, TypeOK
<1>1. ASSUME NEW c \in Conns, Connect(c) PROVE Numbered' /\ ReadBefore' /\ OneEach'
  BY <1>1, OrderKept DEF Connect
<1>2. ASSUME NEW c \in Conns, NEW how \in {"half", "shut"}, ClientLeaves(c, how)
      PROVE  Numbered' /\ ReadBefore' /\ OneEach'
  BY <1>2, OrderKept DEF ClientLeaves
<1>3. ASSUME OpenDone PROVE Numbered' /\ ReadBefore' /\ OneEach'
  BY <1>3, OrderKept DEF OpenDone
<1>4. ASSUME OpenFails \/ DeviceLost PROVE Numbered' /\ ReadBefore' /\ OneEach'
  BY <1>4, OrderKept DEF OpenFails, DeviceLost, Restart, Reopen
<1>5. ASSUME NEW c \in Conns, Accept(c) PROVE Numbered' /\ ReadBefore' /\ OneEach'
  <2>1. stream' = stream \/ stream' = [stream EXCEPT ![c] = <<>>]
    BY <1>5 DEF Accept
  <2> QED
    BY <1>5, <2>1, OrderKept DEF Accept
<1>6. ASSUME NEW i \in Slots, Disconnect(i) PROVE Numbered' /\ ReadBefore' /\ OneEach'
  BY <1>6, OrderKept DEF Disconnect
<1>7. ASSUME NEW i \in Slots, ReadFails(i) PROVE Numbered' /\ ReadBefore' /\ OneEach'
  BY <1>7, OrderKept DEF ReadFails, Reopen
<1>8. ASSUME NEW m \in modem, Answer(m) PROVE Numbered' /\ ReadBefore' /\ OneEach'
  BY <1>8, OrderKept DEF Answer
<1>9. ASSUME Indicate PROVE Numbered' /\ ReadBefore' /\ OneEach'
  <2>1. counts'.msgs = counts.msgs
    BY <1>9 DEF Indicate
  <2> QED
    BY <1>9, <2>1, OrderKept DEF Indicate
<1>10. ASSUME Terminated \/ UNCHANGED vars PROVE Numbered' /\ ReadBefore' /\ OneEach'
  BY <1>10, OrderKept DEF Terminated
<1> QED
  BY <1>1, <1>2, <1>3, <1>4, <1>5, <1>6, <1>7, <1>8, <1>9, <1>10, OrderSend,
    OrderRequest DEF Next, ClientStep, ServeStep

LEMMA NextOInv == OInv /\ [Next]_vars => OInv'
BY NextIInv, OrderStep DEF OInv

LEMMA SpecOInv == Spec => []OInv
BY InitOInv, NextOInv, PTL DEF Spec
-----------------------------------------------------------------------------
(* The refinement of MbimService. *)

\* What is asked, place by place.
LEMMA Places ==
    ASSUME IInv, NEW e
    PROVE  /\ e \in Unread <=> \E c \in Conns : \E k \in 1 .. Len(stream[c]) : e = stream[c][k]
           /\ e \in Asked <=> e \in Unread \/ \E m \in modem : e = m.req
<1>1. \A c \in Conns : DOMAIN stream[c] = 1 .. Len(stream[c])
  BY LenProperties DEF IInv, TypeOK
<1> QED
  BY <1>1 DEF Asked, Unread, Sent, Range

LEMMA PlacesNext ==
    ASSUME IInv', NEW e
    PROVE  /\ e \in Unread' <=> \E c \in Conns : \E k \in 1 .. Len(stream'[c]) : e = stream'[c][k]
           /\ e \in Asked' <=> e \in Unread' \/ \E m \in modem' : e = m.req
<1>1. \A c \in Conns : DOMAIN stream'[c] = 1 .. Len(stream'[c])
  BY LenProperties DEF IInv, TypeOK
<1> QED
  BY <1>1 DEF Asked, Unread, Sent, Range

\* Nothing is asked and nothing answered.
LEMMA QuietStep ==
    ASSUME UNCHANGED <<slot, stream, modem, counts>>, Silent
    PROVE  Service!Quiet
<1>1. UNCHANGED <<Asked, Seated>>
  BY DEF Asked, Unread, Sent, Seated
<1> QED
  BY <1>1 DEF Service!Quiet, Service!Mute, Service!Offer, Silent, Nothing

\* A client asks.
LEMMA AskStep ==
    ASSUME IInv, IInv', NEW c \in Conns, NEW tid \in Tids, NEW kind \in Kinds,
           ClientSend(c, tid, kind)
    PROVE  Service!Ask(c, tid, kind)
<1> DEFINE r == Asking(c, tid, kind)
<1>1. /\ counts.msgs \in Nat /\ counts'.msgs = counts.msgs + 1
      /\ modem' = modem /\ slot' = slot
      /\ stream[c] \in Seq(Requests) /\ Len(stream[c]) \in Nat
      /\ stream'[c] = Append(stream[c], r)
      /\ \A d \in Conns : d # c => stream'[d] = stream[d]
  BY Numbers DEF IInv, TypeOK, ClientSend, Asking
<1>2. r \in Requests
  BY AskingTyped
<1> HIDE DEF r
<1>3. /\ Len(stream'[c]) = Len(stream[c]) + 1
      /\ stream'[c][Len(stream[c]) + 1] = r
      /\ \A k \in 1 .. Len(stream[c]) : stream'[c][k] = stream[c][k]
  BY <1>1, <1>2, AppendProperties
<1>4. ASSUME NEW e PROVE e \in Asked' <=> e \in Asked \/ e = r
  <2>1. ASSUME e \in Asked' PROVE e \in Asked \/ e = r
    <3>1. CASE \E m \in modem : e = m.req
      BY <3>1, Places
    <3>2. ASSUME NEW d \in Conns, NEW k \in 1 .. Len(stream'[d]), e = stream'[d][k]
          PROVE  e \in Asked \/ e = r
      <4>1. CASE d = c /\ k = Len(stream[c]) + 1
        BY <1>3, <3>2, <4>1
      <4>2. CASE d = c /\ k # Len(stream[c]) + 1
        <5>1. k \in 1 .. Len(stream[c])
          BY <1>1, <1>3, <4>2
        <5> QED
          BY <1>3, <3>2, <4>2, <5>1, Places
      <4>3. CASE d # c
        BY <1>1, <3>2, <4>3, Places
      <4> QED
        BY <4>1, <4>2, <4>3
    <3> QED
      BY <1>1, <2>1, <3>1, <3>2, PlacesNext
  <2>2. ASSUME e \in Asked PROVE e \in Asked'
    <3>1. CASE \E m \in modem : e = m.req
      BY <1>1, <3>1, PlacesNext
    <3>2. ASSUME NEW d \in Conns, NEW k \in 1 .. Len(stream[d]), e = stream[d][k]
          PROVE  e \in Asked'
      <4>1. k \in 1 .. Len(stream'[d]) /\ e = stream'[d][k]
        BY <1>1, <1>3, <3>2
      <4> QED
        BY <4>1, PlacesNext
    <3> QED
      BY <2>2, <3>1, <3>2, Places
  <2>3. e = r => e \in Asked'
    <3>1. Len(stream[c]) + 1 \in 1 .. Len(stream'[c])
      BY <1>1, <1>3
    <3> QED
      BY <1>3, <3>1, PlacesNext
  <2> QED
    BY <2>1, <2>2, <2>3
<1>5. Asked' = Asked \cup {r}
  BY <1>4
<1>6. Seated' = Seated
  BY <1>1 DEF Seated
<1> QED
  BY <1>1, <1>5, <1>6
  DEF r, Asking, ClientSend, Service!Ask, Service!Mute, Service!Offer, Silent, Nothing

\* Streams are kept or dropped as a whole, and the modem has no more than before.
LEMMA Forgotten ==
    ASSUME IInv, IInv', NEW c \in Conns, modem' \subseteq modem,
           stream' = stream \/ stream' = [stream EXCEPT ![c] = <<>>]
    PROVE  /\ Asked' \subseteq Asked
           /\ modem' = modem => Service!Lose(c)
<1>1. /\ stream'[c] = stream[c] \/ stream'[c] = <<>>
      /\ \A d \in Conns : d # c => stream'[d] = stream[d]
  BY DEF IInv, TypeOK
<1>2. Asked' \subseteq Asked
  <2> SUFFICES ASSUME NEW e \in Asked' PROVE e \in Asked
    OBVIOUS
  <2>1. CASE \E m \in modem' : e = m.req
    BY <2>1, Places
  <2>2. ASSUME NEW d \in Conns, NEW k \in 1 .. Len(stream'[d]), e = stream'[d][k]
        PROVE  e \in Asked
    <3>1. stream'[d] = stream[d]
      BY <1>1, <2>2
    <3> QED
      BY <2>2, <3>1, Places
  <2> QED
    BY <2>1, <2>2, PlacesNext
<1>3. ASSUME modem' = modem, NEW e \in Asked, e \notin Asked' PROVE e.from = c
  <2>1. ~ \E m \in modem : e = m.req
    BY <1>3, PlacesNext
  <2>2. PICK d \in Conns : \E k \in 1 .. Len(stream[d]) : e = stream[d][k]
    BY <2>1, Places
  <2>3. d = c
    BY <1>1, <1>3, <2>2, PlacesNext
  <2> QED
    BY <2>2, <2>3 DEF IInv, OwnStreams
<1> QED
  BY <1>2, <1>3 DEF Service!Lose

\* A connection is given a slot, or refused.
LEMMA AcceptStep ==
    ASSUME OInv, OInv', NEW c \in Conns, Accept(c)
    PROVE  Service!Join(c) \/ Service!Drop(c)
<1> USE DEF OInv
<1>1. /\ modem' = modem /\ counts' = counts /\ Silent
      /\ stream' = stream \/ stream' = [stream EXCEPT ![c] = <<>>]
  BY DEF Accept
<1>2. CASE \E i \in Slots : slot[i] = None /\ slot' = [slot EXCEPT ![i] = c] /\ stream' = stream
  <2>1. PICK i \in Slots : slot[i] = None /\ slot' = [slot EXCEPT ![i] = c] /\ stream' = stream
    BY <1>2
  <2>2. \A j \in Slots : slot'[j] = IF j = i THEN c ELSE slot[j]
    BY <2>1 DEF IInv, TypeOK
  <2>3. \A d : d \in Seated' <=> d \in Seated \/ d = c
    BY <2>1, <2>2, MbimAssumption DEF Seated
  <2>4. Seated' = Seated \cup {c}
    BY <2>3
  <2>5. Asked' = Asked
    BY <1>1, <2>1 DEF Asked, Unread, Sent
  <2> QED
    BY <1>1, <2>4, <2>5 DEF Service!Join, Service!Mute, Service!Offer, Silent, Nothing
<1>3. CASE slot' = slot
  <2>1. Service!Lose(c) /\ Seated' = Seated
    BY <1>1, <1>3, Forgotten DEF Seated
  <2> QED
    BY <1>1, <2>1 DEF Service!Drop, Service!Mute, Service!Offer, Silent, Nothing
<1> QED
  BY <1>2, <1>3 DEF Accept

\* A client leaves its slot; what the modem has of it stays there.
LEMMA LeaveStep ==
    ASSUME OInv, OInv', NEW i \in Slots, Disconnect(i)
    PROVE  \E c \in Conns : Service!Leave(c)
<1> USE DEF OInv
<1> DEFINE c == slot[i]
<1>1. /\ c \in Conns /\ modem' = modem /\ counts' = counts /\ Silent
      /\ stream' = [stream EXCEPT ![c] = <<>>]
      /\ slot' = [slot EXCEPT ![i] = None]
  BY DEF Disconnect, Free, IInv, TypeOK
<1>2. \A j \in Slots : slot'[j] = IF j = i THEN None ELSE slot[j]
  BY <1>1 DEF IInv, TypeOK
<1>3. \A j \in Slots : j # i => slot[j] # c
  BY <1>1, MbimAssumption DEF IInv, SlotsExclusive
<1>4. \A d : d \in Seated' <=> d \in Seated /\ d # c
  BY <1>1, <1>2, <1>3, MbimAssumption DEF Seated
<1> HIDE DEF c
<1>5. Seated' = Seated \ {c}
  BY <1>4
<1>6. Service!Lose(c)
  BY <1>1, Forgotten
<1> QED
  BY <1>1, <1>5, <1>6 DEF Service!Leave, Service!Mute, Service!Offer, Silent, Nothing

\* The proxy reads a request: it answers MBIM_OPEN itself, and sends another to
\* the modem or loses it.
LEMMA RequestStep ==
    ASSUME OInv, OInv', NEW i \in Slots, NEW ok \in BOOLEAN, Request(i, ok)
    PROVE  \/ \E c \in Conns : Service!Drop(c)
           \/ \E r \in Asked : Service!Answer(r)
<1> USE DEF OInv
<1> DEFINE c == slot[i]
           r == Head(stream[c])
           t == [tag |-> Tag(i, r.tid), req |-> r]
<1>1. c # None /\ stream[c] # <<>>
  BY DEF Request
<1>2. /\ c \in Conns /\ 1 \in 1 .. Len(stream[c]) /\ r = stream[c][1]
      /\ r \in Requests /\ r.from = c
      /\ \A m \in modem : m.req # r
  BY <1>1, HeadIsNewer
<1>3. /\ stream' = [stream EXCEPT ![c] = <<>>] /\ slot' = slot /\ counts' = counts
      /\ \/ r.kind = "open" /\ modem' = modem
            /\ Service!Offer({c}, r, r.tid)
         \/ (modem' = modem \/ modem' = modem \cup {t}) /\ Silent
  BY Written DEF Request
<1>4. t.req = r
  OBVIOUS
<1>5. /\ stream'[c] = <<>>
      /\ \A d \in Conns : d # c => stream'[d] = stream[d]
  BY <1>2, <1>3 DEF IInv, TypeOK
<1>6. Seated' = Seated /\ c \in Seated
  BY <1>2, <1>3 DEF Seated
<1>7. r \in Asked
  BY <1>2, Places
<1> HIDE DEF c, r, t
<1>8. CASE modem' = modem /\ Service!Offer({c}, r, r.tid)
  <2>1. Service!Lose(c)
    BY <1>2, <1>3, <1>8, Forgotten
  <2>2. r \notin Asked'
    <3>1. ASSUME NEW d \in Conns, NEW k \in 1 .. Len(stream'[d]), r = stream'[d][k]
          PROVE  FALSE
      <4>1. r.from = d
        BY <3>1 DEF IInv, OwnStreams
      <4> QED
        BY <1>2, <1>5, <3>1, <4>1
    <3> QED
      BY <1>2, <1>8, <3>1, PlacesNext
  <2>3. Service!Answer(r)
    BY <1>2, <1>3, <1>6, <1>8, <2>1, <2>2 DEF Service!Answer
  <2> QED
    BY <1>7, <2>3
<1>9. CASE (modem' = modem \/ modem' = modem \cup {t}) /\ Silent
  <2>1. ASSUME NEW e \in Asked' PROVE e \in Asked
    <3>1. CASE \E m \in modem' : e = m.req
      BY <1>4, <1>7, <1>9, <3>1, Places
    <3>2. ASSUME NEW d \in Conns, NEW k \in 1 .. Len(stream'[d]), e = stream'[d][k]
          PROVE  e \in Asked
      <4>1. stream'[d] = stream[d]
        BY <1>5, <3>2
      <4> QED
        BY <3>2, <4>1, Places
    <3> QED
      BY <2>1, <3>1, <3>2, PlacesNext
  <2>2. ASSUME NEW e \in Asked, e \notin Asked' PROVE e.from = c
    <3>1. ~ \E m \in modem : e = m.req
      BY <1>9, <2>2, PlacesNext
    <3>2. PICK d \in Conns : \E k \in 1 .. Len(stream[d]) : e = stream[d][k]
      BY <3>1, Places
    <3>3. d = c
      BY <1>5, <2>2, <3>2, PlacesNext
    <3> QED
      BY <3>2, <3>3 DEF IInv, OwnStreams
  <2>3. Service!Lose(c)
    BY <2>1, <2>2 DEF Service!Lose
  <2>4. Service!Drop(c)
    BY <1>3, <1>6, <1>9, <2>3 DEF Service!Drop, Service!Mute, Service!Offer, Silent, Nothing
  <2> QED
    BY <1>2, <2>4
<1> QED
  BY <1>3, <1>8, <1>9

\* An answer of the modem ends the request, which is nowhere else.
LEMMA AnswerStep ==
    ASSUME OInv, OInv', NEW m \in modem, Answer(m)
    PROVE  m.req \in Asked /\ Service!Answer(m.req)
<1> USE DEF OInv
<1> DEFINE c == slot[Sender(m.tag)]
           r == m.req
           to == IF c = None THEN {} ELSE {c}
<1>1. /\ r \in Requests /\ r.from \in Conns /\ Sender(m.tag) \in Slots
      /\ OwnTid(m.tag) = r.tid
      /\ link[r.from] \in Connected => c = r.from
  BY TypedAnswer
<1>2. /\ modem' = modem \ {m} /\ stream' = stream /\ slot' = slot /\ counts' = counts
      /\ Service!Offer(to, r, OwnTid(m.tag))
  BY Written DEF Answer
<1>3. c \in Seated \/ c = None
  BY <1>1 DEF Seated, IInv, TypeOK
<1>4. r.from \in Seated => c = r.from /\ c # None
  BY <1>1, MbimAssumption DEF IInv, SlotsExclusive
<1>5. to \in {{}} \cup {{d} : d \in Seated} /\ (r.from \in Seated => to = {r.from})
  BY <1>3, <1>4
<1>6. Seated' = Seated
  BY <1>2 DEF Seated
<1>7. r \in Asked
  BY Places
<1> HIDE DEF c, r, to
<1>8. ASSUME NEW e \in Asked' PROVE e \in Asked /\ e # r
  <2>1. ASSUME NEW d \in Conns, NEW k \in 1 .. Len(stream[d]), e = stream[d][k]
        PROVE  e \in Asked /\ e # r
    <3>1. e.from = d
      BY <2>1 DEF IInv, OwnStreams
    <3>2. e = r => r.n < e.n /\ r.n \in Nat /\ e.n \in Nat
      BY <2>1, <3>1, Numbers DEF r, ReadBefore
    <3>3. e # r
      BY <3>2
    <3> QED
      BY <2>1, <3>3, Places
  <2>2. ASSUME NEW o \in modem, o # m, e = o.req PROVE e \in Asked /\ e # r
    BY <2>2, Places DEF r, OneEach
  <2> QED
    BY <1>2, <1>8, <2>1, <2>2, PlacesNext
<1>9. ASSUME NEW e \in Asked, e \notin Asked' PROVE e = r
  <2>1. ~ \E d \in Conns : \E k \in 1 .. Len(stream[d]) : e = stream[d][k]
    BY <1>2, <1>9, PlacesNext
  <2>2. PICK o \in modem : e = o.req
    BY <2>1, Places
  <2>3. o = m
    BY <1>2, <1>9, <2>2, PlacesNext
  <2> QED
    BY <2>2, <2>3 DEF r
<1>10. Service!Lose(r.from) /\ r \notin Asked'
  BY <1>8, <1>9 DEF Service!Lose
<1>11. Service!Answer(r)
  BY <1>1, <1>2, <1>5, <1>6, <1>10 DEF Service!Answer
<1> QED
  BY <1>7, <1>11 DEF r

\* An indication is written to every client.
LEMMA Indicated == ASSUME Indicate PROVE Service!Indicate
<1>1. /\ UNCHANGED <<slot, stream, modem>> /\ counts'.msgs = counts.msgs
      /\ Service!Offer(Seated, None, 0)
  BY Written DEF Indicate
<1>2. UNCHANGED <<Asked, Seated>>
  BY <1>1 DEF Asked, Unread, Sent, Seated
<1> QED
  BY <1>1, <1>2 DEF Service!Indicate

\* The proxy starts over.
LEMMA RestartStep ==
    ASSUME IInv', Reopen, Silent, counts' = counts
    PROVE  Service!Restart
<1>1. \A c \in Conns : stream'[c] = <<>>
  BY DEF Reopen
<1>2. modem' = {} /\ \A i \in Slots : slot'[i] = None
  BY DEF Reopen, Empty
<1>3. \A e : e \notin Asked'
  BY <1>1, <1>2, PlacesNext
<1>4. \A c : c \notin Seated'
  BY <1>2, MbimAssumption DEF Seated
<1>5. Asked' = {} /\ Seated' = {}
  BY <1>3, <1>4
<1> QED
  BY <1>5 DEF Service!Restart, Service!Mute, Service!Offer, Silent, Nothing

LEMMA InitService == Init => Service!ServiceInit
<1> SUFFICES ASSUME Init PROVE Service!ServiceInit
  OBVIOUS
<1>1. IInv
  BY InitIInv
<1>2. \A e : e \notin Asked
  BY <1>1, Places DEF Init
<1>3. \A c : c \notin Seated
  BY MbimAssumption DEF Init, Empty, Seated
<1>4. Asked = {} /\ Seated = {}
  BY <1>2, <1>3
<1> QED
  BY <1>4 DEF Init, Nothing, Service!ServiceInit

LEMMA StepService ==
    ASSUME OInv, OInv', [Next]_vars
    PROVE  [Service!ServiceNext]_Service!serviceVars
<1> USE DEF OInv, Service!ServiceNext
<1>1. ASSUME NEW c \in Conns, Connect(c) PROVE Service!ServiceNext
  BY <1>1, QuietStep DEF Connect
<1>2. ASSUME NEW c \in Conns, NEW how \in {"half", "shut"}, ClientLeaves(c, how)
      PROVE  Service!ServiceNext
  BY <1>2, QuietStep DEF ClientLeaves
<1>3. ASSUME OpenDone PROVE Service!ServiceNext
  BY <1>3, QuietStep DEF OpenDone
<1>4. ASSUME NEW c \in Conns, NEW tid \in Tids, NEW kind \in Kinds,
             ClientSend(c, tid, kind)
      PROVE  Service!ServiceNext
  BY <1>4, AskStep
<1>5. ASSUME OpenFails \/ DeviceLost PROVE Service!ServiceNext
  BY <1>5, RestartStep DEF OpenFails, DeviceLost, Restart
<1>6. ASSUME NEW i \in Slots, ReadFails(i) PROVE Service!ServiceNext
  BY <1>6, RestartStep DEF ReadFails
<1>7. ASSUME NEW c \in Conns, Accept(c) PROVE Service!ServiceNext
  BY <1>7, AcceptStep
<1>8. ASSUME NEW i \in Slots, Disconnect(i) PROVE Service!ServiceNext
  BY <1>8, LeaveStep
<1>9. ASSUME NEW i \in Slots, NEW ok \in BOOLEAN, Request(i, ok)
      PROVE  Service!ServiceNext
  BY <1>9, RequestStep
<1>10. ASSUME NEW m \in modem, Answer(m) PROVE Service!ServiceNext
  BY <1>10, AnswerStep
<1>11. ASSUME Indicate PROVE Service!ServiceNext
  BY <1>11, Indicated
<1>12. ASSUME Terminated \/ UNCHANGED vars PROVE UNCHANGED Service!serviceVars
  BY <1>12 DEF Terminated, Asked, Unread, Sent, Seated, Service!serviceVars
<1> QED
  BY <1>1, <1>2, <1>3, <1>4, <1>5, <1>6, <1>7, <1>8, <1>9, <1>10, <1>11, <1>12
  DEF Next, ClientStep, ServeStep

\* The proxy implements MbimService, for any connections, slots up to 255 and
\* ids below 2 ^ 24: no request is answered twice or to another client while its
\* own is served, each indication is offered to every client, and nothing else is
\* lost but what the service allows to be: requests, and what a client did not
\* take in time.
THEOREM ImplementsService == Spec => ServesClients
<1>1. OInv /\ OInv' /\ [Next]_vars => [Service!ServiceNext]_Service!serviceVars
  BY StepService
<1> QED
  BY <1>1, InitService, SpecOInv, PTL DEF Spec, ServesClients, Service!ServiceSafety
=============================================================================
