---------------------------- MODULE QmiProxyProofs ----------------------------
(***************************************************************************)
(* Proofs about QmiProxy, for any clients, descriptors, ids and bounds:    *)
(* its types; HeadOutstanding, the agreement of the queue with the modem   *)
(* on which the proxy's answers to control requests rest; and where the    *)
(* answers of the modem go. IdsExclusive and AnswerToAsker hold because of *)
(* what else is on its way: an id that a client still names in a request   *)
(* is listed for it, and one whose release is queued is named by nothing   *)
(* else. On top of them, that the proxy implements QmiService: a request   *)
(* is in one place at a time, and the numbers in each place are in order.  *)
(***************************************************************************)
EXTENDS QmiProxy, SequenceTheorems, TLAPS

USE DEF clientVars, modemVars, initVars, vars

\* Connections have descriptors of their own, a client's stream holds its own
\* requests, nothing is queued before the server is open; and while nothing
\* has disturbed it, the queue and the modem agree.
OwnFds == \A c, d \in Clients : c # d /\ fdOf[c] # None => fdOf[c] # fdOf[d]
OwnStreams == \A c \in Clients : \A i \in 1 .. Len(stream[c]) : stream[c][i].from = c
EmptyAtStart == stage = "init" => ctlq = <<>>

QueueKnown ==
    \A i \in 1 .. Len(ctlq) : /\ ctlq[i].req.from \in Clients
                              /\ ctlq[i].fd = fdOf[ctlq[i].req.from]
HeadSent == modemCtl = IF ctlq = <<>> THEN <<>> ELSE <<Head(ctlq).req>>
Agreed == stage = "serve" /\ ~disturbed => QueueKnown /\ HeadSent

QueueInv == OwnFds /\ OwnStreams /\ EmptyAtStart /\ Agreed

IInv == TypeOK /\ QueueInv
-----------------------------------------------------------------------------
LEMMA InitIInv == Init => IInv
<1> SUFFICES ASSUME Init PROVE IInv
  OBVIOUS
<1>1. StageTypeOK
  <2>1. syncs \in 0 .. MaxSyncs
    BY ProxyAssumption DEF Init
  <2>2. syncDone \in BOOLEAN /\ disturbed \in BOOLEAN
    BY DEF Init
  <2> QED
    BY <2>1, <2>2 DEF Init, StageTypeOK
<1>2. LinkTypeOK
  BY DEF Init, LinkTypeOK, NoIds
<1>3. QueueTypeOK
  BY DEF Init, QueueTypeOK
<1>4. TraceTypeOK
  BY DEF Init, TraceTypeOK, Nothing
<1>5. QueueInv
  BY DEF Init, QueueInv, OwnFds, OwnStreams, EmptyAtStart, Agreed
<1> QED
  BY <1>1, <1>2, <1>3, <1>4, <1>5 DEF IInv, TypeOK

\* A message is offered to those it is written to; some of them miss it.
LEMMA Written ==
    ASSUME NEW to, NEW m, Deliver(to, m)
    PROVE  /\ Service!Offer(to, m)
           /\ delivered'.to \cup delivered'.slow = to /\ delivered'.msg = m
           /\ to \subseteq Clients /\ m \in Requests \cup {None} =>
                 delivered' \in [to : SUBSET Clients, slow : SUBSET Clients,
                                msg : Requests \cup {None}]
<1>1. PICK slow \in SUBSET to : delivered' = [to |-> to \ slow, slow |-> slow, msg |-> m]
  BY DEF Deliver
<1>2. delivered'.to = to \ slow /\ delivered'.slow = slow /\ delivered'.msg = m
  BY <1>1
<1> QED
  BY <1>1, <1>2 DEF Service!Offer

\* What is at the head of the modem's control requests and of the queue.
LEMMA TypedModemHead ==
    ASSUME IInv, modemCtl # <<>>
    PROVE  /\ Head(modemCtl) \in Requests /\ Tail(modemCtl) \in Seq(Requests)
           /\ Head(modemCtl).id \in Ids \cup {None}
<1>1. modemCtl \in Seq(Requests)
  BY DEF IInv, TypeOK, QueueTypeOK
<1>2. Head(modemCtl) \in Requests /\ Tail(modemCtl) \in Seq(Requests)
  BY <1>1, HeadTailProperties
<1> QED
  BY <1>2 DEF Requests

LEMMA TypedQueueHead ==
    ASSUME NEW q \in Seq(Queued), q # <<>>
    PROVE  /\ Head(q) \in Queued /\ Tail(q) \in Seq(Queued)
           /\ Head(q).req \in Requests
<1>1. Head(q) \in Queued /\ Tail(q) \in Seq(Queued)
  BY HeadTailProperties
<1> QED
  BY <1>1 DEF Queued

LEMMA TypedStream ==
    ASSUME IInv, NEW c \in Clients, stream[c] # <<>>
    PROVE  /\ Head(stream[c]) \in Requests /\ Head(stream[c]).from = c
           /\ Head(stream[c]) = stream[c][1]
<1>1. stream[c] \in Seq(Requests)
  BY DEF IInv, TypeOK, QueueTypeOK
<1>2. Head(stream[c]) \in Requests
  BY <1>1, HeadTailProperties
<1>3. 1 \in 1 .. Len(stream[c]) /\ Head(stream[c]) = stream[c][1]
  BY <1>1, EmptySeq
<1> QED
  BY <1>2, <1>3 DEF IInv, QueueInv, OwnStreams

\* Appending keeps the elements' type.
LEMMA TypedAppend ==
    ASSUME NEW S, NEW s \in Seq(S), NEW e \in S
    PROVE  Append(s, e) \in Seq(S)
BY AppendProperties

\* Taking a message out of the queue keeps the others.
LEMMA TypedRemoveAt ==
    ASSUME NEW S, NEW s \in Seq(S), NEW i \in 1 .. Len(s)
    PROVE  RemoveAt(s, i) \in Seq(S)
<1>1. Len(s) \in Nat /\ \A j \in 1 .. Len(s) : s[j] \in S
  BY ElementOfSeq, LenProperties
<1>2. i - 1 \in Int /\ i + 1 \in Int /\ Len(s) \in Int
  BY <1>1
<1>3. \A j \in 1 .. i - 1 : s[j] \in S
  BY <1>1
<1>4. \A j \in i + 1 .. Len(s) : s[j] \in S
  BY <1>1
<1>5. SubSeq(s, 1, i - 1) \in Seq(S)
  BY <1>2, <1>3, SubSeqProperties
<1>6. SubSeq(s, i + 1, Len(s)) \in Seq(S)
  BY <1>2, <1>4, SubSeqProperties
<1> QED
  BY <1>5, <1>6, ConcatProperties DEF RemoveAt

\* Every queued message names a descriptor.
LEMMA QueueFds ==
    ASSUME IInv, NEW i \in 1 .. Len(ctlq)
    PROVE  ctlq[i].fd # None
<1>1. ctlq \in Seq(Queued)
  BY DEF IInv, TypeOK, QueueTypeOK
<1>2. ctlq[i] \in Queued
  BY <1>1, ElementOfSeq
<1>3. None \notin Fds
  BY ProxyAssumption
<1> QED
  BY <1>2, <1>3 DEF Queued

\* Stage and flags keep their types.
LEMMA StageTypeStep ==
    ASSUME IInv, [Next]_vars
    PROVE  StageTypeOK'
<1>1. ASSUME SendSync PROVE StageTypeOK'
  BY <1>1, ProxyAssumption DEF SendSync, IInv, TypeOK, StageTypeOK
<1>2. ASSUME RecvWhileInit PROVE StageTypeOK'
  BY <1>2 DEF RecvWhileInit, IInv, TypeOK, StageTypeOK
<1>3. ASSUME StartServer PROVE StageTypeOK'
  <2>1. syncs' \in 0 .. MaxSyncs
    BY <1>3, ProxyAssumption DEF StartServer
  <2> QED
    BY <1>3, <2>1 DEF StartServer, IInv, TypeOK, StageTypeOK
<1>4. ASSUME NEW c \in Clients, NEW f \in Fds, Accept(c, f)
      PROVE  StageTypeOK'
  BY <1>4 DEF Accept, IInv, TypeOK, StageTypeOK
<1>5. ASSUME NEW c \in Clients, Cleanup(c)
      PROVE  StageTypeOK'
  BY <1>5 DEF Cleanup, Unqueue, IInv, TypeOK, StageTypeOK
<1>6. ASSUME NEW c \in Clients, NEW ok \in BOOLEAN, RecvFromClient(c, ok)
      PROVE  StageTypeOK'
  BY <1>6 DEF RecvFromClient, HandleCtl, ToModem, IInv, TypeOK, StageTypeOK
<1>7. ASSUME NEW ok \in BOOLEAN, NEW id \in Ids \cup {None}, RecvCtlAnswer(id,
  ok)
      PROVE  StageTypeOK'
  BY <1>7 DEF RecvCtlAnswer, Deliver, TrackIds, Allocate, SendNext, ToModem,
    IInv, TypeOK, StageTypeOK
<1>8. ASSUME NEW ok \in BOOLEAN,
  RecvCtlNotice(ok)
      PROVE  StageTypeOK'
  BY <1>8 DEF RecvCtlNotice, ToModem, IInv, TypeOK, StageTypeOK
<1>9. ASSUME NEW r \in modemMux, RecvMuxAnswer(r)
      PROVE  StageTypeOK'
  BY <1>9 DEF RecvMuxAnswer, Deliver, IInv, TypeOK, StageTypeOK
<1>10. ASSUME NEW i \in Ids, RecvBroadcast(i)
      PROVE  StageTypeOK'
  BY <1>10 DEF RecvBroadcast, Deliver, IInv, TypeOK, StageTypeOK
<1>11. ASSUME DeviceLost PROVE StageTypeOK'
  <2>1. syncs' \in 0 .. MaxSyncs
    BY <1>11, ProxyAssumption DEF DeviceLost
  <2> QED
    BY <1>11, <2>1 DEF DeviceLost, IInv, TypeOK, StageTypeOK
<1>12. ASSUME NEW c \in Clients, Connect(c)
      PROVE  StageTypeOK'
  BY <1>12 DEF Connect, IInv, TypeOK, StageTypeOK
<1>13. ASSUME NEW c \in Clients, ClientClose(c)
      PROVE  StageTypeOK'
  BY <1>13 DEF ClientClose, IInv, TypeOK, StageTypeOK
<1>14. ASSUME NEW c \in Clients, NEW kind \in Kinds, NEW id \in Ids \cup
  {None}, ClientSend(c, kind, id)
      PROVE  StageTypeOK'
  BY <1>14 DEF ClientSend, IInv, TypeOK, StageTypeOK
<1>15. ASSUME Terminated PROVE StageTypeOK'
  BY <1>15 DEF Terminated, IInv, TypeOK, StageTypeOK
<1>16. ASSUME UNCHANGED vars PROVE StageTypeOK'
  BY <1>16 DEF vars, IInv, TypeOK, StageTypeOK
<1> QED
  BY <1>1, <1>2, <1>3, <1>4, <1>5, <1>6, <1>7, <1>8, <1>9, <1>10, <1>11,
    <1>12, <1>13, <1>14, <1>15, <1>16 DEF Next, LoopStep, ClientStep

\* Connections and ids keep their types.
LEMMA LinkTypeStep ==
    ASSUME IInv, [Next]_vars
    PROVE  LinkTypeOK'
<1>1. ASSUME SendSync PROVE LinkTypeOK'
  BY <1>1 DEF SendSync, IInv, TypeOK, LinkTypeOK
<1>2. ASSUME RecvWhileInit PROVE LinkTypeOK'
  BY <1>2 DEF RecvWhileInit, IInv, TypeOK, LinkTypeOK
<1>3. ASSUME StartServer PROVE LinkTypeOK'
  BY <1>3 DEF StartServer, IInv, TypeOK, LinkTypeOK
<1>4. ASSUME NEW c \in Clients, NEW f \in Fds, Accept(c, f)
      PROVE  LinkTypeOK'
  BY <1>4 DEF Accept, IInv, TypeOK, LinkTypeOK
<1>5. ASSUME NEW c \in Clients, Cleanup(c)
      PROVE  LinkTypeOK'
  BY <1>5 DEF Cleanup, Unqueue, IInv, TypeOK, LinkTypeOK
<1>6. ASSUME NEW c \in Clients, NEW ok \in BOOLEAN, RecvFromClient(c, ok)
      PROVE  LinkTypeOK'
  BY <1>6 DEF RecvFromClient, HandleCtl, ToModem, IInv, TypeOK, LinkTypeOK
<1>7. ASSUME NEW ok \in BOOLEAN, NEW id \in Ids \cup {None}, RecvCtlAnswer(id,
  ok)
      PROVE  LinkTypeOK'
  <2>1. link' \in [Clients -> {"off", "up", "shut"}]
        /\ fdOf' \in [Clients -> Fds \cup {None}]
    BY <1>7 DEF RecvCtlAnswer, IInv, TypeOK, LinkTypeOK
  <2>2. ids' \in [Clients -> SUBSET Ids]
    BY <1>7 DEF RecvCtlAnswer, TrackIds, IInv, TypeOK, LinkTypeOK
  <2>3. mine' \in [Clients -> SUBSET Ids]
    BY <1>7 DEF RecvCtlAnswer, IInv, TypeOK, LinkTypeOK
  <2> QED
    BY <2>1, <2>2, <2>3 DEF LinkTypeOK
<1>8. ASSUME NEW ok \in BOOLEAN,
  RecvCtlNotice(ok)
      PROVE  LinkTypeOK'
  BY <1>8 DEF RecvCtlNotice, ToModem, IInv, TypeOK, LinkTypeOK
<1>9. ASSUME NEW r \in modemMux, RecvMuxAnswer(r)
      PROVE  LinkTypeOK'
  BY <1>9 DEF RecvMuxAnswer, Deliver, IInv, TypeOK, LinkTypeOK
<1>10. ASSUME NEW i \in Ids, RecvBroadcast(i)
      PROVE  LinkTypeOK'
  BY <1>10 DEF RecvBroadcast, Deliver, IInv, TypeOK, LinkTypeOK
<1>11. ASSUME DeviceLost PROVE LinkTypeOK'
  BY <1>11 DEF DeviceLost, NoIds, IInv, TypeOK, LinkTypeOK
<1>12. ASSUME NEW c \in Clients, Connect(c)
      PROVE  LinkTypeOK'
  BY <1>12 DEF Connect, IInv, TypeOK, LinkTypeOK
<1>13. ASSUME NEW c \in Clients, ClientClose(c)
      PROVE  LinkTypeOK'
  BY <1>13 DEF ClientClose, IInv, TypeOK, LinkTypeOK
<1>14. ASSUME NEW c \in Clients, NEW kind \in Kinds, NEW id \in Ids \cup
  {None}, ClientSend(c, kind, id)
      PROVE  LinkTypeOK'
  BY <1>14 DEF ClientSend, IInv, TypeOK, LinkTypeOK
<1>15. ASSUME Terminated PROVE LinkTypeOK'
  BY <1>15 DEF Terminated, IInv, TypeOK, LinkTypeOK
<1>16. ASSUME UNCHANGED vars PROVE LinkTypeOK'
  BY <1>16 DEF vars, IInv, TypeOK, LinkTypeOK
<1> QED
  BY <1>1, <1>2, <1>3, <1>4, <1>5, <1>6, <1>7, <1>8, <1>9, <1>10, <1>11,
    <1>12, <1>13, <1>14, <1>15, <1>16 DEF Next, LoopStep, ClientStep

\* The messages on their way keep their types.
LEMMA QueueTypeStep ==
    ASSUME IInv, [Next]_vars
    PROVE  QueueTypeOK'
<1>1. ASSUME SendSync PROVE QueueTypeOK'
  <2> DEFINE r == [kind |-> "sync", from |-> None, n |-> 0, id |-> None]
  <2>1. r \in Requests
    BY DEF Requests, Kinds
  <2>2. Append(modemCtl, r) \in Seq(Requests)
    BY <2>1, TypedAppend DEF IInv, TypeOK, QueueTypeOK
  <2> QED
    BY <1>1, <2>2 DEF SendSync, IInv, TypeOK, QueueTypeOK
<1>2. ASSUME RecvWhileInit PROVE QueueTypeOK'
  BY <1>2, TypedModemHead DEF RecvWhileInit, IInv, TypeOK, QueueTypeOK
<1>3. ASSUME StartServer PROVE QueueTypeOK'
  BY <1>3 DEF StartServer, IInv, TypeOK, QueueTypeOK
<1>4. ASSUME NEW c \in Clients, NEW f \in Fds, Accept(c, f)
      PROVE  QueueTypeOK'
  BY <1>4 DEF Accept, IInv, TypeOK, QueueTypeOK
<1>5. ASSUME NEW c \in Clients, Cleanup(c)
      PROVE  QueueTypeOK'
  <2>1. ctlq' \in Seq(Queued)
    BY <1>5, TypedRemoveAt DEF Cleanup, Unqueue, IInv, TypeOK, QueueTypeOK
  <2>2. stream' \in [Clients -> Seq(Requests)]
    BY <1>5 DEF Cleanup, IInv, TypeOK, QueueTypeOK
  <2> QED
    BY <1>5, <2>1, <2>2 DEF Cleanup, IInv, TypeOK, QueueTypeOK
<1>6. ASSUME NEW c \in Clients, NEW ok \in BOOLEAN, RecvFromClient(c, ok)
      PROVE  QueueTypeOK'
  <2> DEFINE r == Head(stream[c])
             m == [fd |-> fdOf[c], req |-> r]
  <2>1. stream[c] # <<>> /\ fdOf[c] \in Fds
    BY <1>6 DEF RecvFromClient, IInv, TypeOK, LinkTypeOK
  <2>2. r \in Requests
    BY <2>1, TypedStream
  <2>3. m \in Queued
    BY <2>1, <2>2 DEF Queued
  <2> HIDE DEF r, m
  <2>4. Append(ctlq, m) \in Seq(Queued) /\ Append(modemCtl, r) \in Seq(Requests)
    BY <2>2, <2>3, TypedAppend DEF IInv, TypeOK, QueueTypeOK
  <2> USE DEF r, m
  <2>5. ctlq' \in Seq(Queued)
    BY <1>6, <2>4 DEF RecvFromClient, HandleCtl, IInv, TypeOK, QueueTypeOK
  <2>6. modemCtl' \in Seq(Requests)
    BY <1>6, <2>4 DEF RecvFromClient, HandleCtl, ToModem, IInv, TypeOK, QueueTypeOK
  <2>7. modemMux' \subseteq Requests
    BY <1>6, <2>2 DEF RecvFromClient, IInv, TypeOK, QueueTypeOK
  <2>8. stream' \in [Clients -> Seq(Requests)] /\ alloc' \subseteq Ids
    BY <1>6 DEF RecvFromClient, IInv, TypeOK, QueueTypeOK
  <2> QED
    BY <2>5, <2>6, <2>7, <2>8 DEF QueueTypeOK
<1>7. ASSUME NEW ok \in BOOLEAN, NEW id \in Ids \cup {None}, RecvCtlAnswer(id,
  ok)
      PROVE  QueueTypeOK'
  <2>1. modemCtl # <<>>
    BY <1>7 DEF RecvCtlAnswer
  <2>2. Tail(modemCtl) \in Seq(Requests) /\ Head(modemCtl).id \in Ids \cup {None}
    BY <2>1, TypedModemHead
  <2>3. ctlq' \in Seq(Queued)
    BY <1>7, TypedQueueHead DEF RecvCtlAnswer, IInv, TypeOK, QueueTypeOK
  <2>4. modemCtl' \in Seq(Requests)
    <3>1. CASE modemCtl' = Tail(modemCtl)
      BY <2>2, <3>1
    <3>2. CASE ctlq' # <<>> /\ modemCtl' = Append(Tail(modemCtl), Head(ctlq').req)
      BY <2>2, <2>3, <3>2, TypedQueueHead, TypedAppend
    <3> QED
      BY <1>7, <3>1, <3>2 DEF RecvCtlAnswer, SendNext, ToModem
  <2>5. modemMux' \subseteq Requests
    BY <1>7 DEF RecvCtlAnswer, Allocate, IInv, TypeOK, QueueTypeOK
  <2>6. alloc' \subseteq Ids
    BY <1>7, <2>2 DEF RecvCtlAnswer, Allocate, IInv, TypeOK, QueueTypeOK
  <2>7. stream' \in [Clients -> Seq(Requests)]
    BY <1>7 DEF RecvCtlAnswer, IInv, TypeOK, QueueTypeOK
  <2> QED
    BY <2>3, <2>4, <2>5, <2>6, <2>7 DEF QueueTypeOK
<1>8. ASSUME NEW ok \in BOOLEAN,
  RecvCtlNotice(ok)
      PROVE  QueueTypeOK'
  <2>1. modemCtl' \in Seq(Requests)
    <3>1. CASE UNCHANGED modemCtl
      BY <3>1 DEF IInv, TypeOK, QueueTypeOK
    <3>2. CASE ctlq # <<>> /\ modemCtl' = Append(modemCtl, Head(ctlq).req)
      BY <3>2, TypedQueueHead, TypedAppend DEF IInv, TypeOK, QueueTypeOK
    <3> QED
      BY <1>8, <3>1, <3>2 DEF RecvCtlNotice, ToModem
  <2> QED
    BY <1>8, <2>1 DEF RecvCtlNotice, IInv, TypeOK, QueueTypeOK
<1>9. ASSUME NEW r \in modemMux, RecvMuxAnswer(r)
      PROVE  QueueTypeOK'
  BY <1>9 DEF RecvMuxAnswer, Deliver, IInv, TypeOK, QueueTypeOK
<1>10. ASSUME NEW i \in Ids, RecvBroadcast(i)
      PROVE  QueueTypeOK'
  BY <1>10 DEF RecvBroadcast, Deliver, IInv, TypeOK, QueueTypeOK
<1>11. ASSUME DeviceLost PROVE QueueTypeOK'
  BY <1>11 DEF DeviceLost, IInv, TypeOK, QueueTypeOK
<1>12. ASSUME NEW c \in Clients, Connect(c)
      PROVE  QueueTypeOK'
  BY <1>12 DEF Connect, IInv, TypeOK, QueueTypeOK
<1>13. ASSUME NEW c \in Clients, ClientClose(c)
      PROVE  QueueTypeOK'
  BY <1>13 DEF ClientClose, IInv, TypeOK, QueueTypeOK
<1>14. ASSUME NEW c \in Clients, NEW kind \in Kinds, NEW id \in Ids \cup
  {None}, ClientSend(c, kind, id)
      PROVE  QueueTypeOK'
  <2> DEFINE r == [kind |-> kind, from |-> c, n |-> counts.msgs + 1, id |-> id]
  <2>1. r \in Requests
    BY DEF Requests, IInv, TypeOK, TraceTypeOK
  <2>2. stream[c] \in Seq(Requests)
    BY DEF IInv, TypeOK, QueueTypeOK
  <2>3. Append(stream[c], r) \in Seq(Requests)
    BY <2>1, <2>2, TypedAppend
  <2>4. stream' = [stream EXCEPT ![c] = Append(stream[c], r)]
    BY <1>14 DEF ClientSend
  <2>5. stream' \in [Clients -> Seq(Requests)]
    BY <2>3, <2>4 DEF IInv, TypeOK, QueueTypeOK
  <2> HIDE DEF r
  <2> QED
    BY <1>14, <2>5 DEF ClientSend, IInv, TypeOK, QueueTypeOK
<1>15. ASSUME Terminated PROVE QueueTypeOK'
  BY <1>15 DEF Terminated, IInv, TypeOK, QueueTypeOK
<1>16. ASSUME UNCHANGED vars PROVE QueueTypeOK'
  BY <1>16 DEF vars, IInv, TypeOK, QueueTypeOK
<1> QED
  BY <1>1, <1>2, <1>3, <1>4, <1>5, <1>6, <1>7, <1>8, <1>9, <1>10, <1>11,
    <1>12, <1>13, <1>14, <1>15, <1>16 DEF Next, LoopStep, ClientStep

\* What the properties look at keeps its type.
LEMMA TraceTypeStep ==
    ASSUME IInv, [Next]_vars
    PROVE  TraceTypeOK'
<1>1. ASSUME SendSync PROVE TraceTypeOK'
  BY <1>1 DEF SendSync, IInv, TypeOK, TraceTypeOK, Silent, Nothing
<1>2. ASSUME RecvWhileInit PROVE TraceTypeOK'
  BY <1>2 DEF RecvWhileInit, IInv, TypeOK, TraceTypeOK, Silent, Nothing
<1>3. ASSUME StartServer PROVE TraceTypeOK'
  BY <1>3 DEF StartServer, IInv, TypeOK, TraceTypeOK, Silent, Nothing
<1>4. ASSUME NEW c \in Clients, NEW f \in Fds, Accept(c, f)
      PROVE  TraceTypeOK'
  BY <1>4 DEF Accept, IInv, TypeOK, TraceTypeOK, Silent, Nothing
<1>5. ASSUME NEW c \in Clients, Cleanup(c)
      PROVE  TraceTypeOK'
  BY <1>5 DEF Cleanup, Unqueue, IInv, TypeOK, TraceTypeOK, Silent, Nothing
<1>6. ASSUME NEW c \in Clients, NEW ok \in BOOLEAN, RecvFromClient(c, ok)
      PROVE  TraceTypeOK'
  BY <1>6 DEF RecvFromClient, HandleCtl, ToModem, IInv, TypeOK, TraceTypeOK,
    Silent, Nothing
<1>7. ASSUME NEW ok \in BOOLEAN, NEW id \in Ids \cup {None}, RecvCtlAnswer(id,
  ok)
      PROVE  TraceTypeOK'
  <2>1. Head(modemCtl) \in Requests
    BY <1>7, TypedModemHead DEF RecvCtlAnswer
  <2> QED
    BY <1>7, <2>1, Written DEF RecvCtlAnswer, Owners, IInv, TypeOK, TraceTypeOK
<1>8. ASSUME NEW ok \in BOOLEAN,
  RecvCtlNotice(ok)
      PROVE  TraceTypeOK'
  BY <1>8 DEF RecvCtlNotice, ToModem, IInv, TypeOK, TraceTypeOK, Silent,
    Nothing
<1>9. ASSUME NEW r \in modemMux, RecvMuxAnswer(r)
      PROVE  TraceTypeOK'
  BY <1>9, Written DEF RecvMuxAnswer, QueueTypeOK, IInv, TypeOK, TraceTypeOK
<1>10. ASSUME NEW i \in Ids, RecvBroadcast(i)
      PROVE  TraceTypeOK'
  BY <1>10, Written DEF RecvBroadcast, IInv, TypeOK, TraceTypeOK
<1>11. ASSUME DeviceLost PROVE TraceTypeOK'
  BY <1>11 DEF DeviceLost, IInv, TypeOK, TraceTypeOK, Silent, Nothing
<1>12. ASSUME NEW c \in Clients, Connect(c)
      PROVE  TraceTypeOK'
  BY <1>12 DEF Connect, IInv, TypeOK, TraceTypeOK, Silent, Nothing
<1>13. ASSUME NEW c \in Clients, ClientClose(c)
      PROVE  TraceTypeOK'
  BY <1>13 DEF ClientClose, IInv, TypeOK, TraceTypeOK, Silent, Nothing
<1>14. ASSUME NEW c \in Clients, NEW kind \in Kinds, NEW id \in Ids \cup
  {None}, ClientSend(c, kind, id)
      PROVE  TraceTypeOK'
  BY <1>14 DEF ClientSend, IInv, TypeOK, TraceTypeOK, Silent, Nothing
<1>15. ASSUME Terminated PROVE TraceTypeOK'
  BY <1>15 DEF Terminated, IInv, TypeOK, TraceTypeOK, Silent, Nothing
<1>16. ASSUME UNCHANGED vars PROVE TraceTypeOK'
  BY <1>16 DEF vars, IInv, TypeOK, TraceTypeOK, Silent, Nothing
<1> QED
  BY <1>1, <1>2, <1>3, <1>4, <1>5, <1>6, <1>7, <1>8, <1>9, <1>10, <1>11,
    <1>12, <1>13, <1>14, <1>15, <1>16 DEF Next, LoopStep, ClientStep
\* accept() never hands out a descriptor in use.
LEMMA OwnFdsStep ==
    ASSUME IInv, [Next]_vars
    PROVE  OwnFds'
<1>1. ASSUME SendSync PROVE OwnFds'
  BY <1>1 DEF SendSync, IInv, QueueInv, OwnFds, TypeOK, LinkTypeOK
<1>2. ASSUME RecvWhileInit PROVE OwnFds'
  BY <1>2 DEF RecvWhileInit, IInv, QueueInv, OwnFds, TypeOK, LinkTypeOK
<1>3. ASSUME StartServer PROVE OwnFds'
  BY <1>3 DEF StartServer, IInv, QueueInv, OwnFds, TypeOK, LinkTypeOK
<1>4. ASSUME NEW c \in Clients, NEW f \in Fds, Accept(c, f)
      PROVE  OwnFds'
  BY <1>4 DEF Accept, IInv, QueueInv, OwnFds, TypeOK, LinkTypeOK
<1>5. ASSUME NEW c \in Clients, Cleanup(c)
      PROVE  OwnFds'
  BY <1>5 DEF Cleanup, Unqueue, IInv, QueueInv, OwnFds, TypeOK, LinkTypeOK
<1>6. ASSUME NEW c \in Clients, NEW ok \in BOOLEAN, RecvFromClient(c, ok)
      PROVE  OwnFds'
  BY <1>6 DEF RecvFromClient, HandleCtl, ToModem, IInv, QueueInv, OwnFds,
    TypeOK, LinkTypeOK
<1>7. ASSUME NEW ok \in BOOLEAN, NEW id \in Ids \cup {None}, RecvCtlAnswer(id,
  ok)
      PROVE  OwnFds'
  BY <1>7 DEF RecvCtlAnswer, Deliver, TrackIds, Allocate, SendNext, ToModem,
    IInv, QueueInv, OwnFds, TypeOK, LinkTypeOK
<1>8. ASSUME NEW ok \in BOOLEAN,
  RecvCtlNotice(ok)
      PROVE  OwnFds'
  BY <1>8 DEF RecvCtlNotice, ToModem, IInv, QueueInv, OwnFds, TypeOK,
    LinkTypeOK
<1>9. ASSUME NEW r \in modemMux, RecvMuxAnswer(r)
      PROVE  OwnFds'
  BY <1>9 DEF RecvMuxAnswer, Deliver, IInv, QueueInv, OwnFds, TypeOK,
    LinkTypeOK
<1>10. ASSUME NEW i \in Ids, RecvBroadcast(i)
      PROVE  OwnFds'
  BY <1>10 DEF RecvBroadcast, Deliver, IInv, QueueInv, OwnFds, TypeOK,
    LinkTypeOK
<1>11. ASSUME DeviceLost PROVE OwnFds'
  BY <1>11 DEF DeviceLost, IInv, QueueInv, OwnFds, TypeOK, LinkTypeOK
<1>12. ASSUME NEW c \in Clients, Connect(c)
      PROVE  OwnFds'
  BY <1>12 DEF Connect, IInv, QueueInv, OwnFds, TypeOK, LinkTypeOK
<1>13. ASSUME NEW c \in Clients, ClientClose(c)
      PROVE  OwnFds'
  BY <1>13 DEF ClientClose, IInv, QueueInv, OwnFds, TypeOK, LinkTypeOK
<1>14. ASSUME NEW c \in Clients, NEW kind \in Kinds, NEW id \in Ids \cup
  {None}, ClientSend(c, kind, id)
      PROVE  OwnFds'
  BY <1>14 DEF ClientSend, IInv, QueueInv, OwnFds, TypeOK, LinkTypeOK
<1>15. ASSUME Terminated PROVE OwnFds'
  BY <1>15 DEF Terminated, IInv, QueueInv, OwnFds, TypeOK, LinkTypeOK
<1>16. ASSUME UNCHANGED vars PROVE OwnFds'
  BY <1>16 DEF vars, IInv, QueueInv, OwnFds, TypeOK, LinkTypeOK
<1> QED
  BY <1>1, <1>2, <1>3, <1>4, <1>5, <1>6, <1>7, <1>8, <1>9, <1>10, <1>11,
    <1>12, <1>13, <1>14, <1>15, <1>16 DEF Next, LoopStep, ClientStep

\* What a client writes is its own.
LEMMA OwnStreamsStep ==
    ASSUME IInv, [Next]_vars
    PROVE  OwnStreams'
<1>1. ASSUME SendSync PROVE OwnStreams'
  BY <1>1 DEF SendSync, IInv, QueueInv, OwnStreams, TypeOK, QueueTypeOK
<1>2. ASSUME RecvWhileInit PROVE OwnStreams'
  BY <1>2 DEF RecvWhileInit, IInv, QueueInv, OwnStreams, TypeOK, QueueTypeOK
<1>3. ASSUME StartServer PROVE OwnStreams'
  BY <1>3 DEF StartServer, IInv, QueueInv, OwnStreams, TypeOK, QueueTypeOK
<1>4. ASSUME NEW c \in Clients, NEW f \in Fds, Accept(c, f)
      PROVE  OwnStreams'
  BY <1>4 DEF Accept, IInv, QueueInv, OwnStreams, TypeOK, QueueTypeOK
<1>5. ASSUME NEW c \in Clients, Cleanup(c)
      PROVE  OwnStreams'
  BY <1>5 DEF Cleanup, Unqueue, IInv, QueueInv, OwnStreams, TypeOK,
    QueueTypeOK
<1>6. ASSUME NEW c \in Clients, NEW ok \in BOOLEAN, RecvFromClient(c, ok)
      PROVE  OwnStreams'
  BY <1>6 DEF RecvFromClient, HandleCtl, ToModem, IInv, QueueInv, OwnStreams,
    TypeOK, QueueTypeOK
<1>7. ASSUME NEW ok \in BOOLEAN, NEW id \in Ids \cup {None}, RecvCtlAnswer(id,
  ok)
      PROVE  OwnStreams'
  BY <1>7 DEF RecvCtlAnswer, Deliver, TrackIds, Allocate, SendNext, ToModem,
    IInv, QueueInv, OwnStreams, TypeOK, QueueTypeOK
<1>8. ASSUME NEW ok \in BOOLEAN,
  RecvCtlNotice(ok)
      PROVE  OwnStreams'
  BY <1>8 DEF RecvCtlNotice, ToModem, IInv, QueueInv, OwnStreams, TypeOK,
    QueueTypeOK
<1>9. ASSUME NEW r \in modemMux, RecvMuxAnswer(r)
      PROVE  OwnStreams'
  BY <1>9 DEF RecvMuxAnswer, Deliver, IInv, QueueInv, OwnStreams, TypeOK,
    QueueTypeOK
<1>10. ASSUME NEW i \in Ids, RecvBroadcast(i)
      PROVE  OwnStreams'
  BY <1>10 DEF RecvBroadcast, Deliver, IInv, QueueInv, OwnStreams, TypeOK,
    QueueTypeOK
<1>11. ASSUME DeviceLost PROVE OwnStreams'
  BY <1>11 DEF DeviceLost, IInv, QueueInv, OwnStreams, TypeOK, QueueTypeOK
<1>12. ASSUME NEW c \in Clients, Connect(c)
      PROVE  OwnStreams'
  BY <1>12 DEF Connect, IInv, QueueInv, OwnStreams, TypeOK, QueueTypeOK
<1>13. ASSUME NEW c \in Clients, ClientClose(c)
      PROVE  OwnStreams'
  BY <1>13 DEF ClientClose, IInv, QueueInv, OwnStreams, TypeOK, QueueTypeOK
<1>14. ASSUME NEW c \in Clients, NEW kind \in Kinds, NEW id \in Ids \cup
  {None}, ClientSend(c, kind, id)
      PROVE  OwnStreams'
  <2> DEFINE r == [kind |-> kind, from |-> c, n |-> counts.msgs + 1, id |-> id]
  <2>1. r \in Requests /\ r.from = c
    BY DEF Requests, IInv, TypeOK, TraceTypeOK
  <2>2. stream[c] \in Seq(Requests)
    BY DEF IInv, TypeOK, QueueTypeOK
  <2>3. stream' = [stream EXCEPT ![c] = Append(stream[c], r)]
    BY <1>14 DEF ClientSend
  <2> HIDE DEF r
  <2>4. \A i \in 1 .. Len(Append(stream[c], r)) : Append(stream[c], r)[i].from = c
    BY <2>1, <2>2, AppendProperties, LenProperties DEF IInv, QueueInv, OwnStreams
  <2>5. stream'[c] = Append(stream[c], r)
        /\ \A d \in Clients \ {c} : stream'[d] = stream[d]
    BY <2>3 DEF IInv, TypeOK, QueueTypeOK
  <2> QED
    BY <2>4, <2>5 DEF IInv, QueueInv, OwnStreams
<1>15. ASSUME Terminated PROVE OwnStreams'
  BY <1>15 DEF Terminated, IInv, QueueInv, OwnStreams, TypeOK, QueueTypeOK
<1>16. ASSUME UNCHANGED vars PROVE OwnStreams'
  BY <1>16 DEF vars, IInv, QueueInv, OwnStreams, TypeOK, QueueTypeOK
<1> QED
  BY <1>1, <1>2, <1>3, <1>4, <1>5, <1>6, <1>7, <1>8, <1>9, <1>10, <1>11,
    <1>12, <1>13, <1>14, <1>15, <1>16 DEF Next, LoopStep, ClientStep

\* Nothing is queued before the server is open.
LEMMA EmptyAtStartStep ==
    ASSUME IInv, [Next]_vars
    PROVE  EmptyAtStart'
<1>1. ASSUME SendSync PROVE EmptyAtStart'
  BY <1>1 DEF SendSync, IInv, QueueInv, EmptyAtStart
<1>2. ASSUME RecvWhileInit PROVE EmptyAtStart'
  BY <1>2 DEF RecvWhileInit, IInv, QueueInv, EmptyAtStart
<1>3. ASSUME StartServer PROVE EmptyAtStart'
  BY <1>3 DEF StartServer, IInv, QueueInv, EmptyAtStart
<1>4. ASSUME NEW c \in Clients, NEW f \in Fds, Accept(c, f)
      PROVE  EmptyAtStart'
  BY <1>4 DEF Accept, IInv, QueueInv, EmptyAtStart
<1>5. ASSUME NEW c \in Clients, Cleanup(c)
      PROVE  EmptyAtStart'
  BY <1>5 DEF Cleanup, Unqueue, IInv, QueueInv, EmptyAtStart
<1>6. ASSUME NEW c \in Clients, NEW ok \in BOOLEAN, RecvFromClient(c, ok)
      PROVE  EmptyAtStart'
  BY <1>6 DEF RecvFromClient, HandleCtl, ToModem, IInv, QueueInv, EmptyAtStart
<1>7. ASSUME NEW ok \in BOOLEAN, NEW id \in Ids \cup {None}, RecvCtlAnswer(id,
  ok)
      PROVE  EmptyAtStart'
  BY <1>7 DEF RecvCtlAnswer, Deliver, TrackIds, Allocate, SendNext, ToModem,
    IInv, QueueInv, EmptyAtStart
<1>8. ASSUME NEW ok \in BOOLEAN,
  RecvCtlNotice(ok)
      PROVE  EmptyAtStart'
  BY <1>8 DEF RecvCtlNotice, ToModem, IInv, QueueInv, EmptyAtStart
<1>9. ASSUME NEW r \in modemMux, RecvMuxAnswer(r)
      PROVE  EmptyAtStart'
  BY <1>9 DEF RecvMuxAnswer, Deliver, IInv, QueueInv, EmptyAtStart
<1>10. ASSUME NEW i \in Ids, RecvBroadcast(i)
      PROVE  EmptyAtStart'
  BY <1>10 DEF RecvBroadcast, Deliver, IInv, QueueInv, EmptyAtStart
<1>11. ASSUME DeviceLost PROVE EmptyAtStart'
  BY <1>11 DEF DeviceLost, IInv, QueueInv, EmptyAtStart
<1>12. ASSUME NEW c \in Clients, Connect(c)
      PROVE  EmptyAtStart'
  BY <1>12 DEF Connect, IInv, QueueInv, EmptyAtStart
<1>13. ASSUME NEW c \in Clients, ClientClose(c)
      PROVE  EmptyAtStart'
  BY <1>13 DEF ClientClose, IInv, QueueInv, EmptyAtStart
<1>14. ASSUME NEW c \in Clients, NEW kind \in Kinds, NEW id \in Ids \cup
  {None}, ClientSend(c, kind, id)
      PROVE  EmptyAtStart'
  BY <1>14 DEF ClientSend, IInv, QueueInv, EmptyAtStart
<1>15. ASSUME Terminated PROVE EmptyAtStart'
  BY <1>15 DEF Terminated, IInv, QueueInv, EmptyAtStart
<1>16. ASSUME UNCHANGED vars PROVE EmptyAtStart'
  BY <1>16 DEF vars, IInv, QueueInv, EmptyAtStart
<1> QED
  BY <1>1, <1>2, <1>3, <1>4, <1>5, <1>6, <1>7, <1>8, <1>9, <1>10, <1>11,
    <1>12, <1>13, <1>14, <1>15, <1>16 DEF Next, LoopStep, ClientStep

\* An undisturbed queue and the modem agree.
LEMMA AgreedStep ==
    ASSUME IInv, [Next]_vars
    PROVE  Agreed'
<1>1. ASSUME SendSync PROVE Agreed'
  BY <1>1 DEF SendSync, IInv, QueueInv, Agreed, QueueKnown, HeadSent
<1>2. ASSUME RecvWhileInit PROVE Agreed'
  BY <1>2 DEF RecvWhileInit, IInv, QueueInv, Agreed, QueueKnown, HeadSent
<1>3. ASSUME StartServer PROVE Agreed'
  <2> SUFFICES ASSUME ~disturbed' PROVE QueueKnown' /\ HeadSent'
    BY <1>3 DEF StartServer, Agreed
  <2>1. disturbed' = (disturbed \/ modemCtl # <<>>)
    BY <1>3 DEF StartServer
  <2>2. modemCtl = <<>>
    BY <2>1
  <2>3. ctlq = <<>>
    BY <1>3 DEF StartServer, IInv, QueueInv, EmptyAtStart
  <2> QED
    BY <1>3, <2>2, <2>3 DEF StartServer, QueueKnown, HeadSent
<1>4. ASSUME NEW c \in Clients, NEW f \in Fds, Accept(c, f)
      PROVE  Agreed'
  <2> SUFFICES ASSUME ~disturbed PROVE QueueKnown' /\ HeadSent'
    BY <1>4 DEF Accept, Agreed
  <2>1. QueueKnown /\ HeadSent
    BY <1>4 DEF Accept, IInv, QueueInv, Agreed
  <2>2. \A i \in 1 .. Len(ctlq) : ctlq[i].fd # None
    BY QueueFds
  <2>3. \A i \in 1 .. Len(ctlq) : ctlq[i].req.from # c
    BY <1>4, <2>1, <2>2 DEF Accept, QueueKnown
  <2> QED
    BY <1>4, <2>1, <2>3 DEF Accept, QueueKnown, HeadSent, IInv, TypeOK, LinkTypeOK
<1>5. ASSUME NEW c \in Clients, Cleanup(c)
      PROVE  Agreed'
  <2> SUFFICES ASSUME ~disturbed' PROVE QueueKnown' /\ HeadSent'
    BY <1>5 DEF Cleanup, Agreed
  <2>1. \A m \in Range(ctlq) : m.fd # fdOf[c]
    BY <1>5 DEF Cleanup, Unqueue
  <2>2. UNCHANGED <<ctlq, modemCtl, disturbed>>
    BY <1>5 DEF Cleanup, Unqueue
  <2>3. QueueKnown /\ HeadSent
    BY <1>5, <2>2 DEF Cleanup, IInv, QueueInv, Agreed
  <2>4. \A i \in 1 .. Len(ctlq) : ctlq[i] \in Range(ctlq)
    BY LenProperties DEF Range, IInv, TypeOK, QueueTypeOK
  <2>5. \A i \in 1 .. Len(ctlq) : ctlq[i].req.from # c
    BY <2>1, <2>3, <2>4 DEF QueueKnown
  <2> QED
    BY <1>5, <2>2, <2>3, <2>5
    DEF Cleanup, QueueKnown, HeadSent, IInv, TypeOK, LinkTypeOK
<1>6. ASSUME NEW c \in Clients, NEW ok \in BOOLEAN, RecvFromClient(c, ok)
      PROVE  Agreed'
  <2> SUFFICES ASSUME ~disturbed' PROVE QueueKnown' /\ HeadSent'
    BY <1>6 DEF RecvFromClient, Agreed
  <2> DEFINE r == Head(stream[c])
             m == [fd |-> fdOf[c], req |-> r]
  <2>1. stage = "serve" /\ ~disturbed /\ stream[c] # <<>> /\ fdOf[c] \in Fds
    <3>1. disturbed' = disturbed \/ disturbed' = (disturbed \/ (ctlq = <<>> /\ ~ok))
      BY <1>6 DEF RecvFromClient, HandleCtl
    <3>2. stage = "serve" /\ stream[c] # <<>> /\ fdOf[c] \in Fds
      BY <1>6 DEF RecvFromClient, IInv, TypeOK, LinkTypeOK
    <3>3. ~disturbed
      BY <3>1
    <3> QED
      BY <3>2, <3>3
  <2>2. QueueKnown /\ HeadSent
    BY <2>1 DEF IInv, QueueInv, Agreed
  <2>3. r \in Requests /\ r.from = c
    BY <2>1, TypedStream
  <2>4. m \in Queued /\ m.fd = fdOf[c] /\ m.req = r
    BY <2>1, <2>3 DEF Queued
  <2>5. UNCHANGED fdOf
    BY <1>6 DEF RecvFromClient
  <2>6. CASE UNCHANGED <<ctlq, modemCtl>>
    BY <2>2, <2>5, <2>6 DEF QueueKnown, HeadSent
  <2>7. CASE HandleCtl(c, r, ok)
    <3>1. ctlq' = Append(ctlq, m)
      BY <2>7 DEF HandleCtl
    <3>2. ctlq \in Seq(Queued)
      BY DEF IInv, TypeOK, QueueTypeOK
    <3>3. modemCtl' = IF ctlq = <<>> THEN Append(modemCtl, r) ELSE modemCtl
      BY <2>7 DEF HandleCtl, ToModem
    <3> HIDE DEF r, m
    <3>4. \A i \in 1 .. Len(ctlq') : ctlq'[i] = m \/ (i \in 1 .. Len(ctlq) /\ ctlq'[i] = ctlq[i])
      BY <2>4, <3>1, <3>2, AppendProperties, LenProperties
    <3>5. QueueKnown'
      BY <2>2, <2>3, <2>4, <2>5, <3>4 DEF QueueKnown
    <3>6. ctlq' # <<>>
      BY <2>4, <3>1, <3>2, AppendProperties
    <3>7. CASE ctlq = <<>>
      <4>1. Head(ctlq') = m /\ modemCtl' = <<r>>
        BY <2>2, <3>1, <3>3, <3>7 DEF HeadSent
      <4> QED
        BY <2>4, <3>5, <3>6, <4>1 DEF HeadSent
    <3>8. CASE ctlq # <<>>
      <4>1. Head(ctlq') = Head(ctlq)
        BY <2>4, <3>1, <3>2, <3>8, AppendProperties, EmptySeq
      <4> QED
        BY <2>2, <3>3, <3>5, <3>6, <3>8, <4>1 DEF HeadSent
    <3> QED
      BY <3>7, <3>8
  <2> QED
    BY <1>6, <2>6, <2>7 DEF RecvFromClient
<1>7. ASSUME NEW ok \in BOOLEAN, NEW id \in Ids \cup {None}, RecvCtlAnswer(id,
  ok)
      PROVE  Agreed'
  <2> SUFFICES ASSUME ~disturbed', stage' = "serve" PROVE QueueKnown' /\ HeadSent'
    BY DEF Agreed
  <2>1. stage = "serve" /\ ~disturbed /\ modemCtl # <<>>
    <3>1. disturbed' = disturbed \/ disturbed' = (disturbed \/ ~ok)
      BY <1>7 DEF RecvCtlAnswer, SendNext
    <3>2. stage = "serve" /\ modemCtl # <<>>
      BY <1>7 DEF RecvCtlAnswer
    <3>3. ~disturbed
      BY <3>1
    <3> QED
      BY <3>2, <3>3
  <2>2. QueueKnown /\ HeadSent
    BY <2>1 DEF IInv, QueueInv, Agreed
  <2>3. ctlq # <<>> /\ ctlq \in Seq(Queued) /\ modemCtl = <<Head(ctlq).req>>
    BY <2>1, <2>2 DEF HeadSent, IInv, TypeOK, QueueTypeOK
  <2>4. ctlq' = Tail(ctlq) /\ UNCHANGED fdOf
    BY <1>7, <2>3 DEF RecvCtlAnswer
  <2>5. Tail(modemCtl) = <<>>
    BY <2>3
  <2>6. \A i \in 1 .. Len(ctlq') : i + 1 \in 1 .. Len(ctlq) /\ ctlq'[i] = ctlq[i + 1]
    BY <2>3, <2>4, HeadTailProperties, LenProperties
  <2>7. QueueKnown'
    BY <2>2, <2>4, <2>6 DEF QueueKnown
  <2>8. CASE ctlq' = <<>>
    <3>1. modemCtl' = Tail(modemCtl)
      BY <1>7, <2>8 DEF RecvCtlAnswer, SendNext
    <3> QED
      BY <2>5, <2>7, <2>8, <3>1 DEF HeadSent
  <2>9. CASE ctlq' # <<>>
    <3>1. 1 \in 1 .. Len(ctlq') /\ Head(ctlq') = ctlq'[1]
      BY <2>3, <2>4, <2>9, HeadTailProperties, EmptySeq
    <3>2. Head(ctlq').req.from \in Clients /\ Head(ctlq').fd = fdOf[Head(ctlq').req.from]
      BY <2>4, <2>7, <3>1 DEF QueueKnown
    <3>3. Owners(Head(ctlq')) # {}
      BY <3>2 DEF Owners
    <3>4. SendNext(ctlq', Tail(modemCtl), ok)
      BY <1>7 DEF RecvCtlAnswer
    <3>5. /\ modemCtl' = ToModem(Tail(modemCtl), Head(ctlq').req, ok)
          /\ disturbed' = (disturbed \/ ~ok)
      BY <2>9, <3>3, <3>4 DEF SendNext
    <3>6. ok
      BY <3>5
    <3>7. modemCtl' = Append(<<>>, Head(ctlq').req)
      BY <2>5, <3>5, <3>6 DEF ToModem
    <3>8. modemCtl' = <<Head(ctlq').req>>
      BY <3>7
    <3> QED
      BY <2>7, <2>9, <3>8 DEF HeadSent
  <2> QED
    BY <2>8, <2>9
<1>8. ASSUME NEW ok \in BOOLEAN,
  RecvCtlNotice(ok)
      PROVE  Agreed'
  BY <1>8 DEF RecvCtlNotice, ToModem, IInv, QueueInv, Agreed, QueueKnown,
    HeadSent
<1>9. ASSUME NEW r \in modemMux, RecvMuxAnswer(r)
      PROVE  Agreed'
  BY <1>9 DEF RecvMuxAnswer, Deliver, IInv, QueueInv, Agreed, QueueKnown,
    HeadSent
<1>10. ASSUME NEW i \in Ids, RecvBroadcast(i)
      PROVE  Agreed'
  BY <1>10 DEF RecvBroadcast, Deliver, IInv, QueueInv, Agreed, QueueKnown,
    HeadSent
<1>11. ASSUME DeviceLost PROVE Agreed'
  BY <1>11 DEF DeviceLost, IInv, QueueInv, Agreed, QueueKnown, HeadSent
<1>12. ASSUME NEW c \in Clients, Connect(c)
      PROVE  Agreed'
  BY <1>12 DEF Connect, IInv, QueueInv, Agreed, QueueKnown, HeadSent
<1>13. ASSUME NEW c \in Clients, ClientClose(c)
      PROVE  Agreed'
  BY <1>13 DEF ClientClose, IInv, QueueInv, Agreed, QueueKnown, HeadSent
<1>14. ASSUME NEW c \in Clients, NEW kind \in Kinds, NEW id \in Ids \cup
  {None}, ClientSend(c, kind, id)
      PROVE  Agreed'
  BY <1>14 DEF ClientSend, IInv, QueueInv, Agreed, QueueKnown, HeadSent
<1>15. ASSUME Terminated PROVE Agreed'
  BY <1>15 DEF Terminated, IInv, QueueInv, Agreed, QueueKnown, HeadSent
<1>16. ASSUME UNCHANGED vars PROVE Agreed'
  BY <1>16 DEF vars, IInv, QueueInv, Agreed, QueueKnown, HeadSent
<1> QED
  BY <1>1, <1>2, <1>3, <1>4, <1>5, <1>6, <1>7, <1>8, <1>9, <1>10, <1>11,
    <1>12, <1>13, <1>14, <1>15, <1>16 DEF Next, LoopStep, ClientStep

-----------------------------------------------------------------------------
\* IInv is inductive.
LEMMA NextIInv == IInv /\ [Next]_vars => IInv'
BY StageTypeStep, LinkTypeStep, QueueTypeStep, TraceTypeStep, OwnFdsStep,
   OwnStreamsStep, EmptyAtStartStep, AgreedStep DEF IInv, TypeOK, QueueInv

LEMMA SpecIInv == Spec => []IInv
BY InitIInv, NextIInv, PTL DEF Spec

\* The variables keep their types.
THEOREM Typed == Spec => []TypeOK
<1>1. IInv => TypeOK
  BY DEF IInv
<1> QED
  BY <1>1, SpecIInv, PTL

\* While nothing of what it does not survive has happened, the modem has the
\* head of the queue and nothing else, and the head's connection is that of
\* the client that asked: recv_qmi_from_dev may give the next control answer
\* to the head without comparing transaction ids.
THEOREM HeadIsOutstanding == Spec => []HeadOutstanding
<1>1. IInv => HeadOutstanding
  <2> SUFFICES ASSUME IInv, stage = "serve", ~disturbed
               PROVE  /\ HeadSent
                      /\ \A i \in 1 .. Len(ctlq) : Owners(ctlq[i]) = {ctlq[i].req.from}
    BY DEF HeadOutstanding, HeadSent
  <2>1. QueueKnown /\ HeadSent
    BY DEF IInv, QueueInv, Agreed
  <2>2. \A i \in 1 .. Len(ctlq) : ctlq[i].fd # None
    BY QueueFds
  <2> QED
    BY <2>1, <2>2 DEF QueueKnown, Owners, IInv, QueueInv, OwnFds
<1> QED
  BY <1>1, SpecIInv, PTL
-----------------------------------------------------------------------------
Exclusive ==
    /\ \A c, d \in Clients : c # d => ids[c] \cap ids[d] = {}
    /\ \A c \in Clients : mine[c] \subseteq ids[c] /\ ids[c] \subseteq alloc

\* The modem works for the connections that list the id, if any.
MuxKnown ==
    \A r \in modemMux : /\ r.kind = "mux" /\ r.id \in alloc /\ r.from \in Clients
                        /\ \A c \in Clients : r.id \in ids[c] => c = r.from

\* What a client has written names ids that are listed for it.
StreamIds ==
    \A c \in Clients : \A i \in 1 .. Len(stream[c]) :
        /\ stream[c][i].kind \in {"mux", "release"} => stream[c][i].id \in ids[c]
        /\ stream[c][i].kind \notin {"mux", "release"} => stream[c][i].id = None
        /\ stream[c][i].kind = "release" => stream[c][i].id \notin mine[c]

QueueKinds ==
    \A i \in 1 .. Len(ctlq) : /\ ctlq[i].req.kind \in {"get", "release", "other"}
                              /\ ctlq[i].req.from \in Clients
                              /\ ctlq[i].req.kind # "release" => ctlq[i].req.id = None

\* A release in the queue is the last that is heard of its id.
LastWord(m) ==
    /\ m.id \in ids[m.from] /\ m.id \notin mine[m.from]
    /\ \A j \in 1 .. Len(stream[m.from]) : stream[m.from][j].id # m.id

Releases(i) == ctlq[i].req.kind = "release"
QueueIds ==
    \A i \in 1 .. Len(ctlq) : Releases(i) =>
        /\ LastWord(ctlq[i].req)
        /\ \A j \in 1 .. Len(ctlq) : j # i /\ Releases(j) => ctlq[j].req.id # ctlq[i].req.id

RoutesInv == Exclusive /\ MuxKnown /\ StreamIds /\ QueueKinds /\ QueueIds
Routed == ~disturbed => RoutesInv

RInv == IInv /\ Routed /\ AnswerToAsker
-----------------------------------------------------------------------------
LEMMA InitRInv == Init => RInv
<1> SUFFICES ASSUME Init PROVE RInv
  OBVIOUS
<1>1. Routed
  BY DEF Init, NoIds, Routed, RoutesInv, Exclusive, MuxKnown, StreamIds, QueueKinds, QueueIds
<1>2. AnswerToAsker
  BY DEF Init, Nothing, AnswerToAsker
<1> QED
  BY <1>1, <1>2, InitIInv DEF RInv

\* Ids are no more and no less than listed, and the modem has no new work.
LEMMA RoutedKept ==
    ASSUME Routed, ~disturbed' => ~disturbed, modemMux' \subseteq modemMux,
           UNCHANGED <<ids, mine, alloc, stream, ctlq>>
    PROVE  Routed'
<1> SUFFICES ASSUME ~disturbed' PROVE RoutesInv'
  BY DEF Routed
<1>1. RoutesInv
  BY DEF Routed
<1>2. Exclusive' /\ MuxKnown'
  BY <1>1 DEF RoutesInv, Exclusive, MuxKnown
<1>3. StreamIds'
  BY <1>1 DEF RoutesInv, StreamIds
<1>4. QueueKinds' /\ QueueIds'
  BY <1>1 DEF RoutesInv, QueueKinds, QueueIds, LastWord, Releases
<1> QED
  BY <1>2, <1>3, <1>4 DEF RoutesInv

\* A connection that is closed without a message in the queue takes its ids
\* with it.
LEMMA RoutedCleanup ==
    ASSUME RInv, NEW c \in Clients, Cleanup(c), ~disturbed'
    PROVE  RoutesInv'
<1>1. UNCHANGED <<ctlq, disturbed>> /\ \A m \in Range(ctlq) : m.fd # fdOf[c]
  BY DEF Cleanup, Unqueue
<1>2. stage = "serve" /\ UNCHANGED <<modemMux, alloc>>
  BY DEF Cleanup
<1>3. RoutesInv /\ QueueKnown
  BY <1>1, <1>2 DEF RInv, Routed, IInv, QueueInv, Agreed
<1>4. \A d \in Clients : /\ ids'[d] = (IF d = c THEN {} ELSE ids[d])
                         /\ mine'[d] = (IF d = c THEN {} ELSE mine[d])
                         /\ stream'[d] = (IF d = c THEN <<>> ELSE stream[d])
  BY DEF Cleanup, RInv, IInv, TypeOK, LinkTypeOK, QueueTypeOK
<1>5. \A i \in 1 .. Len(ctlq) : ctlq[i] \in Range(ctlq)
  BY LenProperties DEF Range, RInv, IInv, TypeOK, QueueTypeOK
<1>6. \A i \in 1 .. Len(ctlq) : ctlq[i].req.from \in Clients \ {c}
  BY <1>1, <1>3, <1>5 DEF QueueKnown
<1>7. Exclusive' /\ MuxKnown'
  BY <1>2, <1>3, <1>4 DEF RoutesInv, Exclusive, MuxKnown
<1>8. StreamIds'
  BY <1>3, <1>4 DEF RoutesInv, StreamIds
<1>9. QueueKinds'
  BY <1>1, <1>3 DEF RoutesInv, QueueKinds
<1>10. QueueIds'
  BY <1>1, <1>3, <1>4, <1>6 DEF RoutesInv, QueueIds, LastWord, Releases
<1> QED
  BY <1>7, <1>8, <1>9, <1>10 DEF RoutesInv

\* Ids are members of Ids, so that None is none of them.
LEMMA ListedIds ==
    ASSUME RInv
    PROVE  \A c \in Clients : None \notin ids[c] /\ None \notin mine[c]
BY ProxyAssumption DEF RInv, IInv, TypeOK, LinkTypeOK

\* A client names only ids it uses.
LEMMA RoutedSend ==
    ASSUME RInv, NEW c \in Clients, NEW kind \in Kinds, NEW id \in Ids \cup {None},
           ClientSend(c, kind, id), ~disturbed'
    PROVE  RoutesInv'
<1> DEFINE r == [kind |-> kind, from |-> c, n |-> counts.msgs + 1, id |-> id]
<1>1. RoutesInv
  BY DEF ClientSend, RInv, Routed
<1>2. r \in Requests /\ r.kind = kind /\ r.id = id
  BY DEF Requests, RInv, IInv, TypeOK, TraceTypeOK
<1>3. stream[c] \in Seq(Requests)
  BY DEF RInv, IInv, TypeOK, QueueTypeOK
<1>4. stream' = [stream EXCEPT ![c] = Append(stream[c], r)]
  BY DEF ClientSend
<1>5. /\ UNCHANGED <<ids, alloc, modemMux, ctlq>>
      /\ id \in IF kind \in {"release", "mux"} THEN mine[c] ELSE {None}
      /\ mine' = IF kind = "release" THEN [mine EXCEPT ![c] = @ \ {id}] ELSE mine
  BY DEF ClientSend
<1> HIDE DEF r
<1>6. \A i \in 1 .. Len(stream'[c]) :
          stream'[c][i] = r \/ (i \in 1 .. Len(stream[c]) /\ stream'[c][i] = stream[c][i])
  BY <1>2, <1>3, <1>4, AppendProperties, LenProperties DEF RInv, IInv, TypeOK, QueueTypeOK
<1>7. \A d \in Clients : d # c => stream'[d] = stream[d] /\ mine'[d] = mine[d]
  BY <1>4, <1>5 DEF RInv, IInv, TypeOK, QueueTypeOK, LinkTypeOK
<1>8. mine'[c] \subseteq mine[c] /\ (kind = "release" => id \notin mine'[c])
  BY <1>5 DEF RInv, IInv, TypeOK, LinkTypeOK
<1>9. mine[c] \subseteq ids[c]
  BY <1>1 DEF RoutesInv, Exclusive
<1>10. Exclusive' /\ MuxKnown'
  BY <1>1, <1>5, <1>7, <1>8 DEF RoutesInv, Exclusive, MuxKnown
<1>11. StreamIds'
  <2>1. ASSUME NEW i \in 1 .. Len(stream'[c])
        PROVE  /\ stream'[c][i].kind \in {"mux", "release"} => stream'[c][i].id \in ids[c]
               /\ stream'[c][i].kind \notin {"mux", "release"} => stream'[c][i].id = None
               /\ stream'[c][i].kind = "release" => stream'[c][i].id \notin mine'[c]
    <3>1. CASE stream'[c][i] = r
      BY <1>2, <1>5, <1>8, <1>9, <3>1
    <3>2. CASE i \in 1 .. Len(stream[c]) /\ stream'[c][i] = stream[c][i]
      BY <1>1, <1>8, <3>2 DEF RoutesInv, StreamIds
    <3> QED
      BY <1>6, <3>1, <3>2
  <2> QED
    BY <1>1, <1>5, <1>7, <2>1 DEF RoutesInv, StreamIds
<1>12. ASSUME NEW q, q.from \in Clients, LastWord(q)
       PROVE  /\ q.id \in ids'[q.from] /\ q.id \notin mine'[q.from]
              /\ \A j \in 1 .. Len(stream'[q.from]) : stream'[q.from][j].id # q.id
  <2>1. CASE q.from # c
    BY <1>5, <1>7, <1>12, <2>1 DEF LastWord
  <2>2. CASE q.from = c
    <3>1. id # q.id
      BY <1>5, <1>12, <2>2, ListedIds DEF LastWord
    <3> QED
      BY <1>2, <1>5, <1>6, <1>8, <1>12, <2>2, <3>1 DEF LastWord
  <2> QED
    BY <2>1, <2>2
<1>13. QueueKinds'
  BY <1>1, <1>5 DEF RoutesInv, QueueKinds
<1>14. QueueIds'
  <2> SUFFICES ASSUME NEW i \in 1 .. Len(ctlq), Releases(i)
               PROVE  /\ LastWord(ctlq[i].req)'
                      /\ \A j \in 1 .. Len(ctlq) :
                            j # i /\ Releases(j) => ctlq[j].req.id # ctlq[i].req.id
    BY <1>5 DEF QueueIds, Releases
  <2>1. LastWord(ctlq[i].req) /\ ctlq[i].req.from \in Clients
    BY <1>1 DEF RoutesInv, QueueIds, QueueKinds
  <2>2. LastWord(ctlq[i].req)'
    BY <1>5, <1>12, <2>1 DEF LastWord
  <2> QED
    BY <1>1, <2>2 DEF RoutesInv, QueueIds
<1> QED
  BY <1>10, <1>11, <1>13, <1>14 DEF RoutesInv

\* A request leaves its stream for the modem or the queue, and takes what else
\* is in the stream with it.
LEMMA RoutedRecv ==
    ASSUME RInv, NEW c \in Clients, NEW ok \in BOOLEAN, RecvFromClient(c, ok), ~disturbed'
    PROVE  RoutesInv'
<1> DEFINE r == Head(stream[c])
           m == [fd |-> fdOf[c], req |-> r]
<1>1. ~disturbed /\ RoutesInv
  <2>1. disturbed' = disturbed \/ disturbed' = (disturbed \/ (ctlq = <<>> /\ ~ok))
    BY DEF RecvFromClient, HandleCtl
  <2>2. ~disturbed
    BY <2>1
  <2> QED
    BY <2>2 DEF RInv, Routed
<1>2. /\ stream[c] # <<>> /\ fdOf[c] \in Fds
      /\ UNCHANGED <<ids, mine, alloc>> /\ stream' = [stream EXCEPT ![c] = <<>>]
  BY DEF RecvFromClient, RInv, IInv, TypeOK, LinkTypeOK
<1>3. r \in Requests /\ r.from = c /\ r = stream[c][1] /\ 1 \in 1 .. Len(stream[c])
  BY <1>2, TypedStream, EmptySeq DEF RInv, IInv, TypeOK, QueueTypeOK
<1>4. \A d \in Clients : stream'[d] = (IF d = c THEN <<>> ELSE stream[d])
  BY <1>2 DEF RInv, IInv, TypeOK, QueueTypeOK
<1>5. Exclusive' /\ StreamIds'
  BY <1>1, <1>2, <1>4 DEF RoutesInv, Exclusive, StreamIds
<1>6. /\ r.kind \in {"mux", "release"} => r.id \in ids[c]
      /\ r.kind \notin {"mux", "release"} => r.id = None
      /\ r.kind = "release" => r.id \notin mine[c]
  BY <1>1, <1>3 DEF RoutesInv, StreamIds
<1>7. \A i \in 1 .. Len(ctlq) : Releases(i) => LastWord(ctlq[i].req) /\ ctlq[i].req.from \in Clients
  BY <1>1 DEF RoutesInv, QueueIds, QueueKinds
<1>8. ASSUME NEW q \in Requests, q.from \in Clients, LastWord(q)
      PROVE  q.id \in ids'[q.from] /\ q.id \notin mine'[q.from]
             /\ \A j \in 1 .. Len(stream'[q.from]) : stream'[q.from][j].id # q.id
  BY <1>2, <1>4, <1>8 DEF LastWord
<1>9. CASE UNCHANGED <<ctlq, modemMux>>
  <2>1. QueueKinds' /\ QueueIds'
    BY <1>1, <1>2, <1>4, <1>7, <1>9 DEF RoutesInv, QueueKinds, QueueIds, LastWord, Releases
  <2> QED
    BY <1>1, <1>2, <1>5, <1>9, <2>1 DEF RoutesInv, MuxKnown
<1>10. CASE r.kind = "mux" /\ modemMux' = modemMux \cup {r} /\ UNCHANGED ctlq
  <2>1. QueueKinds' /\ QueueIds'
    BY <1>1, <1>2, <1>4, <1>7, <1>10 DEF RoutesInv, QueueKinds, QueueIds, LastWord, Releases
  <2>2. r.id \in alloc /\ \A d \in Clients : r.id \in ids[d] => d = r.from
    BY <1>1, <1>3, <1>6, <1>10 DEF RoutesInv, Exclusive
  <2>3. MuxKnown'
    BY <1>1, <1>2, <1>3, <1>10, <2>2 DEF RoutesInv, MuxKnown
  <2> QED
    BY <1>5, <2>1, <2>3 DEF RoutesInv
<1>11. CASE r.kind \notin {"mux", "sync"} /\ HandleCtl(c, r, ok) /\ UNCHANGED modemMux
  <2>1. ctlq' = Append(ctlq, m) /\ ctlq \in Seq(Queued)
    BY <1>11 DEF HandleCtl, RInv, IInv, TypeOK, QueueTypeOK
  <2>2. m \in Queued /\ m.req = r
    BY <1>2, <1>3 DEF Queued
  <2>3. r.kind \in {"get", "release", "other"}
    BY <1>3, <1>11 DEF Requests, Kinds
  <2> HIDE DEF m, r
  <2>4. /\ Len(ctlq') = Len(ctlq) + 1 /\ Len(ctlq) \in Nat /\ ctlq'[Len(ctlq) + 1] = m
        /\ \A i \in 1 .. Len(ctlq) : ctlq'[i] = ctlq[i]
    BY <2>1, <2>2, AppendProperties, LenProperties
  <2>5. QueueKinds'
    <3> SUFFICES ASSUME NEW i \in 1 .. Len(ctlq')
                 PROVE  /\ ctlq'[i].req.kind \in {"get", "release", "other"}
                        /\ ctlq'[i].req.from \in Clients
                        /\ ctlq'[i].req.kind # "release" => ctlq'[i].req.id = None
      BY DEF QueueKinds
    <3>1. i \in 1 .. Len(ctlq) \/ i = Len(ctlq) + 1
      BY <2>4
    <3> QED
      BY <1>1, <1>3, <1>6, <2>2, <2>3, <2>4, <3>1 DEF RoutesInv, QueueKinds
  <2>6. ASSUME NEW i \in 1 .. Len(ctlq'), Releases(i)'
        PROVE  LastWord(ctlq[i].req)'
    <3>1. CASE i \in 1 .. Len(ctlq)
      BY <1>2, <1>4, <1>7, <2>4, <2>6, <3>1 DEF LastWord, Releases
    <3>2. CASE i = Len(ctlq) + 1
      BY <1>2, <1>3, <1>4, <1>6, <2>2, <2>4, <2>6, <3>2 DEF LastWord, Releases
    <3> QED
      BY <2>4, <3>1, <3>2
  <2>7. ASSUME NEW i \in 1 .. Len(ctlq), Releases(i), r.kind = "release"
        PROVE  ctlq[i].req.id # r.id
    <3>1. LastWord(ctlq[i].req) /\ ctlq[i].req.from \in Clients
      BY <1>7, <2>7
    <3>2. ctlq[i].req.id = r.id => ctlq[i].req.from = c
      BY <1>1, <1>6, <2>7, <3>1 DEF RoutesInv, Exclusive, LastWord
    <3> QED
      BY <1>3, <3>1, <3>2 DEF LastWord
  <2>8. QueueIds'
    <3> SUFFICES ASSUME NEW i \in 1 .. Len(ctlq'), Releases(i)',
                        NEW j \in 1 .. Len(ctlq'), j # i, Releases(j)'
                 PROVE  ctlq'[j].req.id # ctlq'[i].req.id
      BY <2>6 DEF QueueIds
    <3>1. CASE i \in 1 .. Len(ctlq) /\ j \in 1 .. Len(ctlq)
      BY <1>1, <2>4, <3>1 DEF RoutesInv, QueueIds, Releases
    <3>2. CASE i \in 1 .. Len(ctlq) /\ j = Len(ctlq) + 1
      BY <2>2, <2>4, <2>7, <3>2 DEF Releases
    <3>3. CASE i = Len(ctlq) + 1 /\ j \in 1 .. Len(ctlq)
      BY <2>2, <2>4, <2>7, <3>3 DEF Releases
    <3> QED
      BY <2>4, <3>1, <3>2, <3>3
  <2>9. MuxKnown'
    BY <1>1, <1>2, <1>11 DEF RoutesInv, MuxKnown
  <2> QED
    BY <1>5, <2>5, <2>8, <2>9 DEF RoutesInv
<1> QED
  BY <1>9, <1>10, <1>11 DEF RecvFromClient

\* Whose answer the modem gives, while nothing has disturbed the queue.
LEMMA AnswerOfHead ==
    ASSUME RInv, NEW ok \in BOOLEAN, NEW id \in Ids \cup {None}, RecvCtlAnswer(id, ok),
           ~disturbed'
    PROVE  /\ ~disturbed /\ RoutesInv
           /\ ctlq # <<>> /\ ctlq \in Seq(Queued) /\ 1 \in 1 .. Len(ctlq)
           /\ Head(ctlq) = ctlq[1] /\ Head(modemCtl) = ctlq[1].req
           /\ Owners(Head(ctlq)) = {ctlq[1].req.from} /\ ctlq[1].req.from \in Clients
<1>1. stage = "serve" /\ modemCtl # <<>> /\ ~disturbed
  <2>1. disturbed' = disturbed \/ disturbed' = (disturbed \/ ~ok)
    BY DEF RecvCtlAnswer, SendNext
  <2>2. ~disturbed
    BY <2>1
  <2> QED
    BY <2>2 DEF RecvCtlAnswer
<1>2. QueueKnown /\ HeadSent /\ RoutesInv
  BY <1>1 DEF RInv, Routed, IInv, QueueInv, Agreed
<1>3. ctlq # <<>> /\ ctlq \in Seq(Queued) /\ modemCtl = <<Head(ctlq).req>>
  BY <1>1, <1>2 DEF HeadSent, RInv, IInv, TypeOK, QueueTypeOK
<1>4. 1 \in 1 .. Len(ctlq) /\ Head(ctlq) = ctlq[1]
  BY <1>3, EmptySeq
<1>5. ctlq[1].fd # None /\ ctlq[1].fd = fdOf[ctlq[1].req.from] /\ ctlq[1].req.from \in Clients
  BY <1>2, <1>4, QueueFds DEF QueueKnown, RInv
<1>6. Owners(ctlq[1]) = {ctlq[1].req.from}
  BY <1>5 DEF Owners, RInv, IInv, QueueInv, OwnFds
<1> QED
  BY <1>1, <1>2, <1>3, <1>4, <1>5, <1>6

\* The rest of the queue is as good as the queue.
LEMMA QueueTail ==
    ASSUME QueueIds, UNCHANGED stream,
           \A i \in 1 .. Len(ctlq') :
               i + 1 \in 1 .. Len(ctlq) /\ i + 1 # 1 /\ ctlq'[i] = ctlq[i + 1],
           \A i \in 1 .. Len(ctlq) : i # 1 /\ Releases(i) =>
               /\ ctlq[i].req.id \in ids'[ctlq[i].req.from]
               /\ ctlq[i].req.id \notin mine'[ctlq[i].req.from]
    PROVE  QueueIds'
<1> SUFFICES ASSUME NEW i \in 1 .. Len(ctlq'), Releases(i)'
             PROVE  /\ LastWord(ctlq[i].req)'
                    /\ \A j \in 1 .. Len(ctlq') :
                          j # i /\ Releases(j)' => ctlq'[j].req.id # ctlq'[i].req.id
  BY DEF QueueIds
<1>1. i + 1 \in 1 .. Len(ctlq) /\ i + 1 # 1 /\ ctlq'[i] = ctlq[i + 1]
  OBVIOUS
<1>2. Releases(i + 1) /\ LastWord(ctlq[i + 1].req)
  BY <1>1 DEF Releases, QueueIds
<1>3. LastWord(ctlq[i].req)'
  BY <1>1, <1>2 DEF LastWord
<1>4. ASSUME NEW j \in 1 .. Len(ctlq'), j # i, Releases(j)'
      PROVE  ctlq'[j].req.id # ctlq'[i].req.id
  <2>1. j + 1 \in 1 .. Len(ctlq) /\ ctlq'[j] = ctlq[j + 1]
    OBVIOUS
  <2>2. j + 1 # i + 1
    BY <1>4
  <2>3. Releases(j + 1)
    BY <1>4, <2>1 DEF Releases
  <2> QED
    BY <1>1, <1>2, <2>1, <2>2, <2>3 DEF QueueIds
<1> QED
  BY <1>3, <1>4

\* The answer to a control request changes the ids of its client only: a new
\* one that nothing names, or one less that nothing names any more.
LEMMA RoutedAnswer ==
    ASSUME RInv, NEW ok \in BOOLEAN, NEW id \in Ids \cup {None}, RecvCtlAnswer(id, ok),
           ~disturbed'
    PROVE  RoutesInv'
<1> DEFINE r == ctlq[1].req
           c == r.from
           gets == r.kind = "get" /\ id # None
<1>1. RoutesInv /\ 1 \in 1 .. Len(ctlq) /\ c \in Clients /\ ctlq \in Seq(Queued)
  BY AnswerOfHead
<1>2. ctlq # <<>> /\ Head(modemCtl) = r /\ Owners(Head(ctlq)) = {c}
  BY AnswerOfHead
<1>3. r.kind \in {"get", "release", "other"}
  BY <1>1 DEF RoutesInv, QueueKinds
<1>4. /\ TrackIds({c}, r, id) /\ Allocate(r, id)
      /\ mine' = [d \in Clients |-> IF d \in delivered'.to /\ d = r.from /\ id # None
                                    THEN mine[d] \cup {id} ELSE mine[d]]
      /\ id \in IF r.kind = "get" THEN (Ids \ alloc) \cup {None} ELSE {None}
      /\ ctlq' = Tail(ctlq) /\ UNCHANGED stream
  BY <1>2 DEF RecvCtlAnswer
<1>5. \A i \in 1 .. Len(ctlq') :
          /\ i + 1 \in 1 .. Len(ctlq) /\ i + 1 # 1 /\ ctlq'[i] = ctlq[i + 1]
  BY <1>1, <1>2, <1>4, HeadTailProperties, LenProperties
<1>6. \A d \in Clients : d # c => ids'[d] = ids[d] /\ mine'[d] = mine[d]
  BY <1>4 DEF TrackIds
<1>7. \A i \in 1 .. Len(ctlq) : Releases(i) => LastWord(ctlq[i].req)
  BY <1>1 DEF RoutesInv, QueueIds
<1>8. QueueKinds'
  BY <1>1, <1>5 DEF RoutesInv, QueueKinds
<1>9. \A d \in Clients : ids[d] \subseteq alloc
  BY <1>1 DEF RoutesInv, Exclusive
<1>10. CASE gets
  <2>1. /\ ids'[c] = ids[c] \cup {id} /\ mine'[c] \subseteq mine[c] \cup {id}
        /\ alloc' = alloc \cup {id} /\ id \notin alloc /\ modemMux' = modemMux
    BY <1>1, <1>4, <1>10 DEF TrackIds, Allocate
  <2> HIDE DEF r, c, gets
  <2>2. Exclusive'
    BY <1>1, <1>6, <1>9, <2>1 DEF RoutesInv, Exclusive
  <2>3. MuxKnown'
    BY <1>1, <1>6, <2>1 DEF RoutesInv, MuxKnown
  <2>4. StreamIds'
    <3> SUFFICES ASSUME NEW d \in Clients, NEW i \in 1 .. Len(stream[d])
                 PROVE  /\ stream[d][i].kind \in {"mux", "release"} => stream[d][i].id \in ids'[d]
                        /\ stream[d][i].kind \notin {"mux", "release"} => stream[d][i].id = None
                        /\ stream[d][i].kind = "release" => stream[d][i].id \notin mine'[d]
      BY <1>4 DEF StreamIds
    <3>1. /\ stream[d][i].kind \in {"mux", "release"} => stream[d][i].id \in ids[d]
          /\ stream[d][i].kind \notin {"mux", "release"} => stream[d][i].id = None
          /\ stream[d][i].kind = "release" => stream[d][i].id \notin mine[d]
      BY <1>1 DEF RoutesInv, StreamIds
    <3>2. stream[d][i].kind \in {"mux", "release"} => stream[d][i].id # id
      BY <1>9, <2>1, <3>1
    <3> QED
      BY <1>6, <2>1, <3>1, <3>2
  <2>5. ASSUME NEW i \in 1 .. Len(ctlq), Releases(i)
        PROVE  /\ ctlq[i].req.id \in ids'[ctlq[i].req.from]
               /\ ctlq[i].req.id \notin mine'[ctlq[i].req.from]
    <3>1. LastWord(ctlq[i].req) /\ ctlq[i].req.from \in Clients
      BY <1>1, <1>7, <2>5 DEF RoutesInv, QueueKinds
    <3> QED
      BY <1>6, <1>9, <2>1, <3>1 DEF LastWord
  <2>6. QueueIds'
    BY <1>1, <1>4, <1>5, <2>5, QueueTail DEF RoutesInv
  <2> QED
    BY <1>8, <2>2, <2>3, <2>4, <2>6 DEF RoutesInv
<1>11. CASE r.kind = "release"
  <2>1. /\ ids'[c] = ids[c] \ {r.id} /\ mine'[c] = mine[c]
        /\ alloc' = alloc \ {r.id}
        /\ modemMux' = {m \in modemMux : m.id # r.id}
    BY <1>1, <1>4, <1>11 DEF TrackIds, Allocate
  <2>2. /\ r.id \in ids[c] /\ r.id \notin mine[c]
        /\ \A j \in 1 .. Len(stream[c]) : stream[c][j].id # r.id
    BY <1>1, <1>7, <1>11 DEF LastWord, Releases
  <2>3. \A i \in 1 .. Len(ctlq) : i # 1 /\ Releases(i) => ctlq[i].req.id # r.id
    BY <1>1, <1>11 DEF RoutesInv, QueueIds, Releases
  <2> HIDE DEF r, c, gets
  <2>4. \A d \in Clients : d # c => r.id \notin ids[d]
    BY <1>1, <2>2 DEF RoutesInv, Exclusive
  <2>5. Exclusive'
    BY <1>1, <1>6, <2>1, <2>2, <2>4 DEF RoutesInv, Exclusive
  <2>6. MuxKnown'
    BY <1>1, <1>6, <2>1 DEF RoutesInv, MuxKnown
  <2>7. StreamIds'
    BY <1>1, <1>4, <1>6, <2>1, <2>2 DEF RoutesInv, StreamIds
  <2>8. ASSUME NEW i \in 1 .. Len(ctlq), i # 1, Releases(i)
        PROVE  /\ ctlq[i].req.id \in ids'[ctlq[i].req.from]
               /\ ctlq[i].req.id \notin mine'[ctlq[i].req.from]
    <3>1. LastWord(ctlq[i].req) /\ ctlq[i].req.from \in Clients /\ ctlq[i].req.id # r.id
      BY <1>1, <1>7, <2>3, <2>8 DEF RoutesInv, QueueKinds
    <3> QED
      BY <1>6, <2>1, <3>1 DEF LastWord
  <2>9. QueueIds'
    BY <1>1, <1>4, <1>5, <2>8, QueueTail DEF RoutesInv
  <2> QED
    BY <1>8, <2>5, <2>6, <2>7, <2>9 DEF RoutesInv
<1>12. CASE ~gets /\ r.kind # "release"
  <2>1. id = None
    BY <1>4, <1>12
  <2>2. \A d \in Clients : ids'[d] = ids[d] /\ mine'[d] = mine[d]
    BY <1>3, <1>4, <1>12, <2>1 DEF TrackIds
  <2>3. alloc' = alloc /\ modemMux' \subseteq modemMux
    BY <1>3, <1>4, <1>12, <2>1 DEF Allocate
  <2> HIDE DEF r, c, gets
  <2>4. Exclusive' /\ MuxKnown'
    BY <1>1, <2>2, <2>3 DEF RoutesInv, Exclusive, MuxKnown
  <2>5. StreamIds'
    BY <1>1, <1>4, <2>2 DEF RoutesInv, StreamIds
  <2>6. ASSUME NEW i \in 1 .. Len(ctlq), Releases(i)
        PROVE  /\ ctlq[i].req.id \in ids'[ctlq[i].req.from]
               /\ ctlq[i].req.id \notin mine'[ctlq[i].req.from]
    <3>1. LastWord(ctlq[i].req) /\ ctlq[i].req.from \in Clients
      BY <1>1, <1>7, <2>6 DEF RoutesInv, QueueKinds
    <3> QED
      BY <2>2, <3>1 DEF LastWord
  <2>7. QueueIds'
    BY <1>1, <1>4, <1>5, <2>6, QueueTail DEF RoutesInv
  <2> QED
    BY <1>8, <2>4, <2>5, <2>7 DEF RoutesInv
<1> QED
  BY <1>10, <1>11, <1>12

\* Every step keeps the ids where they belong.
LEMMA RoutedStep ==
    ASSUME RInv, [Next]_vars
    PROVE  Routed'
<1>1. ASSUME SendSync PROVE Routed'
  BY <1>1, RoutedKept DEF SendSync, RInv
<1>2. ASSUME RecvWhileInit PROVE Routed'
  BY <1>2, RoutedKept DEF RecvWhileInit, RInv
<1>3. ASSUME StartServer PROVE Routed'
  BY <1>3, RoutedKept DEF StartServer, RInv
<1>4. ASSUME NEW c \in Clients, NEW f \in Fds, Accept(c, f) PROVE Routed'
  BY <1>4, RoutedKept DEF Accept, RInv
<1>5. ASSUME NEW c \in Clients, Cleanup(c) PROVE Routed'
  BY <1>5, RoutedCleanup DEF Routed
<1>6. ASSUME NEW c \in Clients, NEW ok \in BOOLEAN, RecvFromClient(c, ok) PROVE Routed'
  BY <1>6, RoutedRecv DEF Routed
<1>7. ASSUME NEW ok \in BOOLEAN, NEW id \in Ids \cup {None}, RecvCtlAnswer(id, ok) PROVE Routed'
  BY <1>7, RoutedAnswer DEF Routed
<1>8. ASSUME NEW ok \in BOOLEAN, RecvCtlNotice(ok) PROVE Routed'
  BY <1>8 DEF RecvCtlNotice, Routed
<1>9. ASSUME NEW r \in modemMux, RecvMuxAnswer(r) PROVE Routed'
  BY <1>9, RoutedKept DEF RecvMuxAnswer, RInv
<1>10. ASSUME NEW i \in Ids, RecvBroadcast(i) PROVE Routed'
  BY <1>10, RoutedKept DEF RecvBroadcast, RInv
<1>11. ASSUME DeviceLost PROVE Routed'
  BY <1>11
  DEF DeviceLost, NoIds, Routed, RoutesInv, Exclusive, MuxKnown, StreamIds, QueueKinds, QueueIds
<1>12. ASSUME NEW c \in Clients, Connect(c) PROVE Routed'
  BY <1>12, RoutedKept DEF Connect, RInv
<1>13. ASSUME NEW c \in Clients, ClientClose(c) PROVE Routed'
  BY <1>13, RoutedKept DEF ClientClose, RInv
<1>14. ASSUME NEW c \in Clients, NEW kind \in Kinds,
             NEW id \in Ids \cup {None}, ClientSend(c, kind, id) PROVE Routed'
  BY <1>14, RoutedSend DEF Routed
<1>15. ASSUME Terminated PROVE Routed'
  BY <1>15, RoutedKept DEF Terminated, RInv
<1>16. ASSUME UNCHANGED vars PROVE Routed'
  BY <1>16, RoutedKept DEF RInv
<1> QED
  BY <1>1, <1>2, <1>3, <1>4, <1>5, <1>6, <1>7, <1>8, <1>9, <1>10, <1>11,
    <1>12, <1>13, <1>14, <1>15, <1>16 DEF Next, LoopStep, ClientStep

\* Every step writes to the client that asked.
LEMMA AnswerStep ==
    ASSUME RInv, [Next]_vars
    PROVE  AnswerToAsker'
<1>1. ASSUME SendSync PROVE AnswerToAsker'
  BY <1>1 DEF SendSync, Silent, Nothing, AnswerToAsker
<1>2. ASSUME RecvWhileInit PROVE AnswerToAsker'
  BY <1>2 DEF RecvWhileInit, Silent, Nothing, AnswerToAsker
<1>3. ASSUME StartServer PROVE AnswerToAsker'
  BY <1>3 DEF StartServer, Silent, Nothing, AnswerToAsker
<1>4. ASSUME NEW c \in Clients, NEW f \in Fds, Accept(c, f) PROVE AnswerToAsker'
  BY <1>4 DEF Accept, Silent, Nothing, AnswerToAsker
<1>5. ASSUME NEW c \in Clients, Cleanup(c) PROVE AnswerToAsker'
  BY <1>5 DEF Cleanup, Silent, Nothing, AnswerToAsker
<1>6. ASSUME NEW c \in Clients, NEW ok \in BOOLEAN, RecvFromClient(c, ok) PROVE AnswerToAsker'
  BY <1>6 DEF RecvFromClient, Silent, Nothing, AnswerToAsker
<1>7. ASSUME NEW ok \in BOOLEAN, NEW id \in Ids \cup {None}, RecvCtlAnswer(id, ok) PROVE AnswerToAsker'
  <2> SUFFICES ASSUME ~disturbed' PROVE AnswerToAsker'
    BY DEF AnswerToAsker
  <2>1. Deliver({ctlq[1].req.from}, ctlq[1].req)
    BY <1>7, AnswerOfHead DEF RecvCtlAnswer
  <2>2. ctlq[1].req.kind # "mux"
    BY <1>7, AnswerOfHead DEF RoutesInv, QueueKinds
  <2> QED
    BY <2>1, <2>2, Written DEF AnswerToAsker
<1>8. ASSUME NEW ok \in BOOLEAN, RecvCtlNotice(ok) PROVE AnswerToAsker'
  BY <1>8 DEF RecvCtlNotice, Silent, Nothing, AnswerToAsker
<1>9. ASSUME NEW r \in modemMux, RecvMuxAnswer(r) PROVE AnswerToAsker'
  <2> SUFFICES ASSUME ~disturbed'
               PROVE  r.kind = "mux" /\ delivered'.to \cup delivered'.slow \subseteq {r.from}
    BY <1>9 DEF RecvMuxAnswer, Deliver, AnswerToAsker
  <2>1. ~disturbed
    BY <1>9 DEF RecvMuxAnswer
  <2>2. MuxKnown
    BY <2>1 DEF RInv, Routed, RoutesInv
  <2>3. \A c \in delivered'.to \cup delivered'.slow : c \in Clients /\ r.id \in ids[c]
    BY <1>9, Written DEF RecvMuxAnswer, Addressed
  <2> QED
    BY <2>2, <2>3 DEF MuxKnown
<1>10. ASSUME NEW i \in Ids, RecvBroadcast(i) PROVE AnswerToAsker'
  BY <1>10 DEF RecvBroadcast, Deliver, AnswerToAsker
<1>11. ASSUME DeviceLost PROVE AnswerToAsker'
  BY <1>11 DEF DeviceLost, Silent, Nothing, AnswerToAsker
<1>12. ASSUME NEW c \in Clients, Connect(c) PROVE AnswerToAsker'
  BY <1>12 DEF Connect, Silent, Nothing, AnswerToAsker
<1>13. ASSUME NEW c \in Clients, ClientClose(c) PROVE AnswerToAsker'
  BY <1>13 DEF ClientClose, Silent, Nothing, AnswerToAsker
<1>14. ASSUME NEW c \in Clients, NEW kind \in Kinds,
             NEW id \in Ids \cup {None}, ClientSend(c, kind, id) PROVE AnswerToAsker'
  BY <1>14 DEF ClientSend, Silent, Nothing, AnswerToAsker
<1>15. ASSUME Terminated PROVE AnswerToAsker'
  BY <1>15 DEF Terminated, RInv, AnswerToAsker
<1>16. ASSUME UNCHANGED vars PROVE AnswerToAsker'
  BY <1>16 DEF RInv, AnswerToAsker
<1> QED
  BY <1>1, <1>2, <1>3, <1>4, <1>5, <1>6, <1>7, <1>8, <1>9, <1>10, <1>11,
    <1>12, <1>13, <1>14, <1>15, <1>16 DEF Next, LoopStep, ClientStep

LEMMA NextRInv == RInv /\ [Next]_vars => RInv'
BY NextIInv, RoutedStep, AnswerStep DEF RInv

LEMMA SpecRInv == Spec => []RInv
BY InitRInv, NextRInv, PTL DEF Spec
-----------------------------------------------------------------------------
\* While the queue is undisturbed, no two connections list one client id, and
\* what a client uses is listed for it and allocated in the modem: the lists
\* that get_client_id and release_client_id keep from the answers alone.
THEOREM IdsKept == Spec => []IdsExclusive
<1>1. RInv => IdsExclusive
  BY DEF RInv, Routed, RoutesInv, Exclusive, IdsExclusive
<1> QED
  BY <1>1, SpecRInv, PTL

\* While the queue is undisturbed, whatever the modem answers is written to the
\* client that asked and to no other, control answers by the order of the
\* queue and all others by the client id.
THEOREM AnswersReturn == Spec => []AnswerToAsker
<1>1. RInv => AnswerToAsker
  BY DEF RInv
<1> QED
  BY <1>1, SpecRInv, PTL
-----------------------------------------------------------------------------
(* The service the clients see. A request is in one place at a time: what a *)
(* client has written is newer than what the proxy has read from it, and    *)
(* the queue keeps the order of each client's requests.                     *)

SentBefore ==
    /\ \A c \in Clients : \A i \in 1 .. Len(stream[c]) : stream[c][i].n <= counts.msgs
    /\ \A i \in 1 .. Len(ctlq) : ctlq[i].req.n <= counts.msgs
    /\ \A r \in modemMux : r.n <= counts.msgs

ReadBefore ==
    \A c \in Clients : \A i \in 1 .. Len(stream[c]) :
        /\ \A j \in 1 .. Len(ctlq) : ctlq[j].req.from = c => ctlq[j].req.n < stream[c][i].n
        /\ \A r \in modemMux : r.from = c => r.n < stream[c][i].n

QueueInTurn ==
    \A i, j \in 1 .. Len(ctlq) :
        i < j /\ ctlq[i].req.from = ctlq[j].req.from => ctlq[i].req.n < ctlq[j].req.n

InOrder == SentBefore /\ ReadBefore /\ QueueInTurn
Ordered == ~disturbed => InOrder

OInv == RInv /\ Ordered
-----------------------------------------------------------------------------
LEMMA InitOInv == Init => OInv
<1> SUFFICES ASSUME Init PROVE Ordered
  BY InitRInv DEF OInv
<1> QED
  BY DEF Init, Ordered, InOrder, SentBefore, ReadBefore, QueueInTurn

\* Nothing is written or read, and the modem has no new work.
LEMMA OrderKept ==
    ASSUME Ordered, ~disturbed' => ~disturbed, modemMux' \subseteq modemMux,
           counts'.msgs = counts.msgs, UNCHANGED <<stream, ctlq>>
    PROVE  Ordered'
BY DEF Ordered, InOrder, SentBefore, ReadBefore, QueueInTurn

\* The numbers of requests are numbers.
LEMMA Numbers ==
    ASSUME IInv
    PROVE  /\ counts.msgs \in Nat
           /\ \A c \in Clients : \A i \in 1 .. Len(stream[c]) : stream[c][i].n \in Nat
           /\ \A i \in 1 .. Len(ctlq) : ctlq[i].req.n \in Nat
           /\ \A r \in modemMux : r.n \in Nat
<1>1. counts.msgs \in Nat
  BY DEF IInv, TypeOK, TraceTypeOK
<1>2. ASSUME NEW c \in Clients, NEW i \in 1 .. Len(stream[c]) PROVE stream[c][i].n \in Nat
  <2>1. stream[c] \in Seq(Requests)
    BY DEF IInv, TypeOK, QueueTypeOK
  <2>2. stream[c][i] \in Requests
    BY <2>1, ElementOfSeq
  <2> QED
    BY <2>2 DEF Requests
<1>3. ASSUME NEW i \in 1 .. Len(ctlq) PROVE ctlq[i].req.n \in Nat
  <2>1. ctlq \in Seq(Queued)
    BY DEF IInv, TypeOK, QueueTypeOK
  <2>2. ctlq[i] \in Queued
    BY <2>1, ElementOfSeq
  <2> QED
    BY <2>2 DEF Queued, Requests
<1>4. \A r \in modemMux : r.n \in Nat
  BY DEF IInv, TypeOK, QueueTypeOK, Requests
<1> QED
  BY <1>1, <1>2, <1>3, <1>4

\* A client writes the newest request of all.
LEMMA OrderSend ==
    ASSUME OInv, NEW c \in Clients, NEW kind \in Kinds, NEW id \in Ids \cup {None},
           ClientSend(c, kind, id), ~disturbed'
    PROVE  InOrder'
<1> DEFINE r == [kind |-> kind, from |-> c, n |-> counts.msgs + 1, id |-> id]
<1>1. InOrder
  BY DEF ClientSend, OInv, Ordered
<1>2. counts.msgs \in Nat /\ counts'.msgs = counts.msgs + 1
  BY DEF ClientSend, OInv, RInv, IInv, TypeOK, TraceTypeOK
<1>3. r \in Requests /\ r.n = counts.msgs + 1
  BY <1>2 DEF Requests
<1>4. stream' = [stream EXCEPT ![c] = Append(stream[c], r)] /\ UNCHANGED <<modemMux, ctlq>>
  BY DEF ClientSend
<1>5. stream \in [Clients -> Seq(Requests)] /\ stream[c] \in Seq(Requests)
  BY DEF OInv, RInv, IInv, TypeOK, QueueTypeOK
<1> HIDE DEF r
<1>6. \A i \in 1 .. Len(stream'[c]) :
          stream'[c][i] = r \/ (i \in 1 .. Len(stream[c]) /\ stream'[c][i] = stream[c][i])
  BY <1>3, <1>4, <1>5, AppendProperties, LenProperties
<1>7. \A d \in Clients : d # c => stream'[d] = stream[d]
  BY <1>4, <1>5
<1>8. ASSUME NEW d \in Clients, NEW i \in 1 .. Len(stream'[d])
      PROVE  \/ stream'[d][i].n = counts.msgs + 1
             \/ \E j \in 1 .. Len(stream[d]) : stream'[d][i] = stream[d][j]
  BY <1>3, <1>6, <1>7
<1>9. /\ \A d \in Clients : \A i \in 1 .. Len(stream[d]) : stream[d][i].n \in Nat
      /\ \A i \in 1 .. Len(ctlq) : ctlq[i].req.n \in Nat
      /\ \A q \in modemMux : q.n \in Nat
  BY Numbers DEF OInv, RInv
<1>10. SentBefore'
  <2>1. ASSUME NEW d \in Clients, NEW i \in 1 .. Len(stream'[d])
        PROVE  stream'[d][i].n <= counts'.msgs
    BY <1>1, <1>2, <1>8, <1>9 DEF InOrder, SentBefore
  <2> QED
    BY <1>1, <1>2, <1>4, <1>9, <2>1 DEF InOrder, SentBefore
<1>11. ReadBefore'
  <2> SUFFICES ASSUME NEW d \in Clients, NEW i \in 1 .. Len(stream'[d])
               PROVE  /\ \A j \in 1 .. Len(ctlq) :
                            ctlq[j].req.from = d => ctlq[j].req.n < stream'[d][i].n
                      /\ \A q \in modemMux : q.from = d => q.n < stream'[d][i].n
    BY <1>4 DEF ReadBefore
  <2>1. CASE stream'[d][i].n = counts.msgs + 1
    BY <1>1, <1>2, <1>9, <2>1 DEF InOrder, SentBefore
  <2>2. CASE \E j \in 1 .. Len(stream[d]) : stream'[d][i] = stream[d][j]
    BY <1>1, <2>2 DEF InOrder, ReadBefore
  <2> QED
    BY <1>8, <2>1, <2>2
<1>12. QueueInTurn'
  BY <1>1, <1>4 DEF InOrder, QueueInTurn
<1> QED
  BY <1>10, <1>11, <1>12 DEF InOrder

\* A request that is read is newer than what was read before, and the only one
\* that was in the stream.
LEMMA OrderRecv ==
    ASSUME OInv, NEW c \in Clients, NEW ok \in BOOLEAN, RecvFromClient(c, ok), ~disturbed'
    PROVE  InOrder'
<1> DEFINE r == Head(stream[c])
           m == [fd |-> fdOf[c], req |-> r]
<1>1. InOrder
  <2>1. disturbed' = disturbed \/ disturbed' = (disturbed \/ (ctlq = <<>> /\ ~ok))
    BY DEF RecvFromClient, HandleCtl
  <2>2. ~disturbed
    BY <2>1
  <2> QED
    BY <2>2 DEF OInv, Ordered
<1>2. /\ stream[c] # <<>> /\ fdOf[c] \in Fds /\ counts' = counts
      /\ stream' = [stream EXCEPT ![c] = <<>>]
  BY DEF RecvFromClient, OInv, RInv, IInv, TypeOK, LinkTypeOK
<1>3. r \in Requests /\ r.from = c /\ r = stream[c][1] /\ 1 \in 1 .. Len(stream[c])
  BY <1>2, TypedStream, EmptySeq DEF OInv, RInv, IInv, TypeOK, QueueTypeOK
<1>4. \A d \in Clients : stream'[d] = (IF d = c THEN <<>> ELSE stream[d])
  BY <1>2 DEF OInv, RInv, IInv, TypeOK, QueueTypeOK
<1>5. /\ r.n <= counts.msgs
      /\ \A j \in 1 .. Len(ctlq) : ctlq[j].req.from = c => ctlq[j].req.n < r.n
  BY <1>1, <1>3 DEF InOrder, SentBefore, ReadBefore
<1>6. CASE UNCHANGED <<ctlq, modemMux>>
  BY <1>1, <1>2, <1>4, <1>6 DEF InOrder, SentBefore, ReadBefore, QueueInTurn
<1>7. CASE modemMux' = modemMux \cup {r} /\ UNCHANGED ctlq
  <2> HIDE DEF r
  <2>1. SentBefore'
    BY <1>1, <1>2, <1>4, <1>5, <1>7 DEF InOrder, SentBefore
  <2>2. ReadBefore'
    BY <1>1, <1>3, <1>4, <1>7 DEF InOrder, ReadBefore
  <2>3. QueueInTurn'
    BY <1>1, <1>7 DEF InOrder, QueueInTurn
  <2> QED
    BY <2>1, <2>2, <2>3 DEF InOrder
<1>8. CASE HandleCtl(c, r, ok) /\ UNCHANGED modemMux
  <2>1. ctlq' = Append(ctlq, m) /\ ctlq \in Seq(Queued)
    BY <1>8 DEF HandleCtl, OInv, RInv, IInv, TypeOK, QueueTypeOK
  <2>2. m \in Queued /\ m.req = r
    BY <1>2, <1>3 DEF Queued
  <2> HIDE DEF m, r
  <2>3. /\ Len(ctlq') = Len(ctlq) + 1 /\ Len(ctlq) \in Nat /\ ctlq'[Len(ctlq) + 1] = m
        /\ \A i \in 1 .. Len(ctlq) : ctlq'[i] = ctlq[i]
    BY <2>1, <2>2, AppendProperties, LenProperties
  <2>4. \A i \in 1 .. Len(ctlq') : i \in 1 .. Len(ctlq) \/ i = Len(ctlq) + 1
    BY <2>3
  <2>5. SentBefore'
    <3>1. \A i \in 1 .. Len(ctlq') : ctlq'[i].req.n <= counts.msgs
      BY <1>1, <1>5, <2>2, <2>3, <2>4 DEF InOrder, SentBefore
    <3> QED
      BY <1>1, <1>2, <1>4, <1>8, <3>1 DEF InOrder, SentBefore
  <2>6. ReadBefore'
    <3> SUFFICES ASSUME NEW d \in Clients \ {c}, NEW i \in 1 .. Len(stream[d])
                 PROVE  /\ \A j \in 1 .. Len(ctlq') :
                              ctlq'[j].req.from = d => ctlq'[j].req.n < stream[d][i].n
                        /\ \A q \in modemMux : q.from = d => q.n < stream[d][i].n
      BY <1>4, <1>8 DEF ReadBefore
    <3> QED
      BY <1>1, <1>3, <2>2, <2>3, <2>4 DEF InOrder, ReadBefore
  <2>7. QueueInTurn'
    <3> SUFFICES ASSUME NEW i \in 1 .. Len(ctlq'), NEW j \in 1 .. Len(ctlq'), i < j,
                        ctlq'[i].req.from = ctlq'[j].req.from
                 PROVE  ctlq'[i].req.n < ctlq'[j].req.n
      BY DEF QueueInTurn
    <3>1. i \in 1 .. Len(ctlq)
      BY <2>3
    <3>2. CASE j \in 1 .. Len(ctlq)
      BY <1>1, <2>3, <3>1, <3>2 DEF InOrder, QueueInTurn
    <3>3. CASE j = Len(ctlq) + 1
      BY <1>3, <1>5, <2>2, <2>3, <3>1, <3>3
    <3> QED
      BY <2>4, <3>2, <3>3
  <2> QED
    BY <2>5, <2>6, <2>7 DEF InOrder
<1> QED
  BY <1>6, <1>7, <1>8 DEF RecvFromClient

\* The head leaves, the others keep their order.
LEMMA OrderAnswer ==
    ASSUME OInv, NEW ok \in BOOLEAN, NEW id \in Ids \cup {None}, RecvCtlAnswer(id, ok),
           ~disturbed'
    PROVE  InOrder'
<1>1. /\ ~disturbed /\ ctlq # <<>> /\ ctlq \in Seq(Queued)
  BY AnswerOfHead DEF OInv
<1>2. InOrder
  BY <1>1 DEF OInv, Ordered
<1>3. ctlq' = Tail(ctlq) /\ UNCHANGED <<stream, counts>> /\ modemMux' \subseteq modemMux
  BY <1>1 DEF RecvCtlAnswer, Allocate
<1>4. \A i \in 1 .. Len(ctlq') : i + 1 \in 1 .. Len(ctlq) /\ ctlq'[i] = ctlq[i + 1]
  BY <1>1, <1>3, HeadTailProperties, LenProperties
<1>5. SentBefore' /\ ReadBefore'
  BY <1>2, <1>3, <1>4 DEF InOrder, SentBefore, ReadBefore
<1>6. QueueInTurn'
  <2> SUFFICES ASSUME NEW i \in 1 .. Len(ctlq'), NEW j \in 1 .. Len(ctlq'), i < j,
                      ctlq'[i].req.from = ctlq'[j].req.from
               PROVE  ctlq'[i].req.n < ctlq'[j].req.n
    BY DEF QueueInTurn
  <2>1. i + 1 < j + 1
    BY <1>1, <1>3, LenProperties
  <2>2. /\ i + 1 \in 1 .. Len(ctlq) /\ ctlq'[i] = ctlq[i + 1]
        /\ j + 1 \in 1 .. Len(ctlq) /\ ctlq'[j] = ctlq[j + 1]
    BY <1>4
  <2>3. QueueInTurn
    BY <1>2 DEF InOrder
  <2> QED
    BY <2>1, <2>2, <2>3 DEF QueueInTurn
<1> QED
  BY <1>5, <1>6 DEF InOrder

LEMMA OrderStep ==
    ASSUME OInv, [Next]_vars
    PROVE  Ordered'
<1>1. ASSUME SendSync \/ RecvWhileInit \/ StartServer PROVE Ordered'
  <2>1. ASSUME SendSync PROVE Ordered'
    BY <2>1, OrderKept DEF SendSync, OInv
  <2>2. ASSUME RecvWhileInit PROVE Ordered'
    BY <2>2, OrderKept DEF RecvWhileInit, OInv
  <2>3. ASSUME StartServer PROVE Ordered'
    BY <2>3, OrderKept DEF StartServer, OInv
  <2> QED
    BY <1>1, <2>1, <2>2, <2>3
<1>2. ASSUME NEW c \in Clients, NEW f \in Fds, Accept(c, f) PROVE Ordered'
  BY <1>2, OrderKept DEF Accept, OInv
<1>3. ASSUME NEW c \in Clients, Cleanup(c) PROVE Ordered'
  <2> SUFFICES ASSUME ~disturbed' PROVE InOrder'
    BY DEF Ordered
  <2>1. UNCHANGED <<ctlq, disturbed, modemMux, counts>>
    BY <1>3 DEF Cleanup, Unqueue
  <2>2. \A d \in Clients : stream'[d] = (IF d = c THEN <<>> ELSE stream[d])
    BY <1>3 DEF Cleanup, OInv, RInv, IInv, TypeOK, QueueTypeOK
  <2>3. InOrder
    BY <2>1 DEF OInv, Ordered
  <2> QED
    BY <2>1, <2>2, <2>3 DEF InOrder, SentBefore, ReadBefore, QueueInTurn
<1>4. ASSUME NEW c \in Clients, NEW ok \in BOOLEAN, RecvFromClient(c, ok) PROVE Ordered'
  BY <1>4, OrderRecv DEF Ordered
<1>5. ASSUME NEW ok \in BOOLEAN, NEW id \in Ids \cup {None}, RecvCtlAnswer(id, ok) PROVE Ordered'
  BY <1>5, OrderAnswer DEF Ordered
<1>6. ASSUME NEW ok \in BOOLEAN, RecvCtlNotice(ok) PROVE Ordered'
  BY <1>6 DEF RecvCtlNotice, Ordered
<1>7. ASSUME NEW r \in modemMux, RecvMuxAnswer(r) PROVE Ordered'
  BY <1>7, OrderKept DEF RecvMuxAnswer, OInv
<1>8. ASSUME NEW i \in Ids, RecvBroadcast(i) PROVE Ordered'
  <2>1. counts'.msgs = counts.msgs
    BY <1>8 DEF RecvBroadcast, OInv, RInv, IInv, TypeOK, TraceTypeOK
  <2> QED
    BY <1>8, <2>1, OrderKept DEF RecvBroadcast, OInv
<1>9. ASSUME DeviceLost PROVE Ordered'
  BY <1>9 DEF DeviceLost, Ordered, InOrder, SentBefore, ReadBefore, QueueInTurn
<1>10. ASSUME NEW c \in Clients, Connect(c) \/ ClientClose(c) PROVE Ordered'
  BY <1>10, OrderKept DEF Connect, ClientClose, OInv
<1>11. ASSUME NEW c \in Clients, NEW kind \in Kinds,
              NEW id \in Ids \cup {None}, ClientSend(c, kind, id) PROVE Ordered'
  BY <1>11, OrderSend DEF Ordered
<1>12. ASSUME Terminated \/ UNCHANGED vars PROVE Ordered'
  BY <1>12, OrderKept DEF Terminated, OInv
<1> QED
  BY <1>1, <1>2, <1>3, <1>4, <1>5, <1>6, <1>7, <1>8, <1>9, <1>10, <1>11, <1>12
  DEF Next, LoopStep, ClientStep

LEMMA NextOInv == OInv /\ [Next]_vars => OInv'
BY NextRInv, OrderStep DEF OInv

LEMMA SpecOInv == Spec => []OInv
BY InitOInv, NextOInv, PTL DEF Spec
-----------------------------------------------------------------------------
(* The refinement of QmiService. *)

\* What is asked, place by place.
LEMMA Places ==
    ASSUME IInv, NEW e
    PROVE  /\ e \in Unread <=> \E c \in Clients : \E i \in 1 .. Len(stream[c]) : e = stream[c][i]
           /\ e \in Waiting <=> \E i \in 1 .. Len(ctlq) : e = ctlq[i].req
           /\ e \in Asked <=> e \in Unread \/ e \in Waiting \/ e \in modemMux
<1>1. /\ \A c \in Clients : DOMAIN stream[c] = 1 .. Len(stream[c])
      /\ DOMAIN ctlq = 1 .. Len(ctlq)
  BY LenProperties DEF IInv, TypeOK, QueueTypeOK
<1>2. e \in Unread <=> \E c \in Clients : \E i \in 1 .. Len(stream[c]) : e = stream[c][i]
  BY <1>1 DEF Unread, Range
<1>3. e \in Waiting <=> \E i \in 1 .. Len(ctlq) : e = ctlq[i].req
  BY <1>1 DEF Waiting, Range
<1> QED
  BY <1>2, <1>3 DEF Asked

LEMMA PlacesNext ==
    ASSUME IInv', NEW e
    PROVE  /\ e \in Unread' <=> \E c \in Clients : \E i \in 1 .. Len(stream'[c]) : e = stream'[c][i]
           /\ e \in Waiting' <=> \E i \in 1 .. Len(ctlq') : e = ctlq'[i].req
           /\ e \in Asked' <=> e \in Unread' \/ e \in Waiting' \/ e \in modemMux'
<1>1. /\ \A c \in Clients : DOMAIN stream'[c] = 1 .. Len(stream'[c])
      /\ DOMAIN ctlq' = 1 .. Len(ctlq')
  BY LenProperties DEF IInv, TypeOK, QueueTypeOK
<1>2. e \in Unread' <=> \E c \in Clients : \E i \in 1 .. Len(stream'[c]) : e = stream'[c][i]
  BY <1>1 DEF Unread, Range
<1>3. e \in Waiting' <=> \E i \in 1 .. Len(ctlq') : e = ctlq'[i].req
  BY <1>1 DEF Waiting, Range
<1> QED
  BY <1>2, <1>3 DEF Asked

\* A request is in one place, and tells by its kind and number which.
LEMMA Apart ==
    ASSUME OInv, ~disturbed
    PROVE  /\ \A q \in Waiting : q.kind \in {"get", "release", "other"}
           /\ \A q \in modemMux : q.kind = "mux"
           /\ \A q \in Unread : \A p \in Waiting \cup modemMux :
                  p.from = q.from => p.n \in Nat /\ q.n \in Nat /\ p.n < q.n
<1>1. RoutesInv /\ InOrder /\ IInv
  BY DEF OInv, RInv, Routed, Ordered
<1>2. \A q \in Waiting : q.kind \in {"get", "release", "other"}
  BY <1>1, Places DEF RoutesInv, QueueKinds
<1>3. \A q \in modemMux : q.kind = "mux"
  BY <1>1 DEF RoutesInv, MuxKnown
<1>4. ASSUME NEW q \in Unread, NEW p \in Waiting \cup modemMux, p.from = q.from
      PROVE  p.n \in Nat /\ q.n \in Nat /\ p.n < q.n
  <2>1. PICK c \in Clients : \E i \in 1 .. Len(stream[c]) : q = stream[c][i]
    BY <1>1, Places
  <2>2. PICK i \in 1 .. Len(stream[c]) : q = stream[c][i]
    BY <2>1
  <2>3. q.from = c
    BY <1>1, <2>2 DEF IInv, QueueInv, OwnStreams
  <2>4. CASE p \in Waiting
    <3>1. PICK j \in 1 .. Len(ctlq) : p = ctlq[j].req
      BY <1>1, <2>4, Places
    <3> QED
      BY <1>1, <1>4, <2>2, <2>3, <3>1, Numbers DEF InOrder, ReadBefore
  <2>5. CASE p \in modemMux
    BY <1>1, <1>4, <2>2, <2>3, <2>5, Numbers DEF InOrder, ReadBefore
  <2> QED
    BY <2>4, <2>5
<1> QED
  BY <1>2, <1>3, <1>4

\* Nothing is asked and nothing answered.
LEMMA QuietStep ==
    ASSUME UNCHANGED <<stream, ctlq, modemMux, counts, mine>>, Silent
    PROVE  Service!Quiet
<1>1. UNCHANGED Asked
  BY DEF Asked, Unread, Waiting
<1> QED
  BY <1>1 DEF Service!Quiet, Service!Mute, Service!Offer, Silent, Nothing

\* A client asks.
LEMMA AskStep ==
    ASSUME IInv, IInv', NEW c \in Clients, NEW kind \in Kinds, NEW id \in Ids \cup {None},
           ClientSend(c, kind, id)
    PROVE  Service!Ask(c, kind, id)
<1> DEFINE r == [kind |-> kind, from |-> c, n |-> counts.msgs + 1, id |-> id]
<1>1. counts.msgs \in Nat /\ counts'.msgs = counts.msgs + 1
  BY DEF ClientSend, IInv, TypeOK, TraceTypeOK
<1>2. r \in Requests
  BY <1>1 DEF Requests
<1>3. stream' = [stream EXCEPT ![c] = Append(stream[c], r)] /\ UNCHANGED <<modemMux, ctlq>>
  BY DEF ClientSend
<1>4. stream \in [Clients -> Seq(Requests)] /\ stream[c] \in Seq(Requests)
  BY DEF IInv, TypeOK, QueueTypeOK
<1>5. UNCHANGED Waiting
  BY <1>3 DEF Waiting
<1> HIDE DEF r
<1>6. /\ Len(stream'[c]) = Len(stream[c]) + 1 /\ Len(stream[c]) \in Nat
      /\ stream'[c][Len(stream[c]) + 1] = r
      /\ \A i \in 1 .. Len(stream[c]) : stream'[c][i] = stream[c][i]
  BY <1>2, <1>3, <1>4, AppendProperties, LenProperties
<1>7. \A d \in Clients : d # c => stream'[d] = stream[d]
  BY <1>3, <1>4
<1>8. \A e : e \in Unread' <=> e \in Unread \/ e = r
  <2> TAKE e
  <2>1. ASSUME e \in Unread' PROVE e \in Unread \/ e = r
    <3>1. PICK d \in Clients : \E i \in 1 .. Len(stream'[d]) : e = stream'[d][i]
      BY <2>1, PlacesNext
    <3>2. PICK i \in 1 .. Len(stream'[d]) : e = stream'[d][i]
      BY <3>1
    <3>3. e = r \/ (i \in 1 .. Len(stream[d]) /\ e = stream[d][i])
      BY <1>6, <1>7, <3>2
    <3> QED
      BY <3>3, Places
  <2>2. ASSUME e \in Unread PROVE e \in Unread'
    <3>1. PICK d \in Clients : \E i \in 1 .. Len(stream[d]) : e = stream[d][i]
      BY <2>2, Places
    <3>2. PICK i \in 1 .. Len(stream[d]) : e = stream[d][i]
      BY <3>1
    <3>3. i \in 1 .. Len(stream'[d]) /\ e = stream'[d][i]
      BY <1>6, <1>7, <3>2
    <3> QED
      BY <3>3, PlacesNext
  <2>3. r \in Unread'
    <3>1. Len(stream[c]) + 1 \in 1 .. Len(stream'[c])
      BY <1>6
    <3> QED
      BY <1>6, <3>1, PlacesNext
  <2> QED
    BY <2>1, <2>2, <2>3
<1>9. Asked' = Asked \cup {r}
  <2>1. \A e : e \in Asked' <=> e \in Asked \/ e = r
    BY <1>3, <1>5, <1>8, Places, PlacesNext
  <2> QED
    BY <2>1
<1> QED
  BY <1>1, <1>9
  DEF r, ClientSend, Service!Ask, Service!Mute, Service!Offer, Silent, Nothing

\* The proxy reads what a client has written, and may lose it.
LEMMA ReadStep ==
    ASSUME IInv, IInv', NEW c \in Clients, NEW ok \in BOOLEAN, RecvFromClient(c, ok)
    PROVE  Service!Drop(c)
<1> DEFINE r == Head(stream[c])
           m == [fd |-> fdOf[c], req |-> r]
<1>1. /\ stream[c] # <<>> /\ fdOf[c] \in Fds /\ UNCHANGED <<counts, mine>>
      /\ stream' = [stream EXCEPT ![c] = <<>>] /\ Silent
  BY DEF RecvFromClient, IInv, TypeOK, LinkTypeOK
<1>2. r \in Requests /\ r = stream[c][1] /\ 1 \in 1 .. Len(stream[c])
  BY <1>1, TypedStream, EmptySeq DEF IInv, TypeOK, QueueTypeOK
<1>3. \A d \in Clients : stream'[d] = (IF d = c THEN <<>> ELSE stream[d])
  BY <1>1 DEF IInv, TypeOK, QueueTypeOK
<1>4. r \in Unread
  BY <1>2, Places
<1>5. \A e \in Unread' : e \in Unread
  BY <1>3, Places, PlacesNext
<1>6. \A e \in Unread : e.from = c \/ e \in Unread'
  <2> TAKE e \in Unread
  <2>1. PICK d \in Clients : \E i \in 1 .. Len(stream[d]) : e = stream[d][i]
    BY Places
  <2>2. CASE d = c
    BY <2>1, <2>2 DEF IInv, QueueInv, OwnStreams
  <2>3. CASE d # c
    BY <1>3, <2>1, <2>3, PlacesNext
  <2> QED
    BY <2>2, <2>3
<1>7. /\ \A e \in Waiting' : e \in Waiting \/ e = r
      /\ \A e \in Waiting : e \in Waiting'
  <2>1. CASE UNCHANGED ctlq
    BY <2>1 DEF Waiting
  <2>2. CASE HandleCtl(c, r, ok)
    <3>1. ctlq' = Append(ctlq, m) /\ ctlq \in Seq(Queued)
      BY <2>2 DEF HandleCtl, IInv, TypeOK, QueueTypeOK
    <3>2. m \in Queued /\ m.req = r
      BY <1>1, <1>2 DEF Queued
    <3> HIDE DEF m, r
    <3>3. /\ Len(ctlq') = Len(ctlq) + 1 /\ Len(ctlq) \in Nat /\ ctlq'[Len(ctlq) + 1] = m
          /\ \A i \in 1 .. Len(ctlq) : ctlq'[i] = ctlq[i]
      BY <3>1, <3>2, AppendProperties, LenProperties
    <3>4. ASSUME NEW e \in Waiting' PROVE e \in Waiting \/ e = r
      <4>1. PICK i \in 1 .. Len(ctlq') : e = ctlq'[i].req
        BY PlacesNext
      <4>2. i \in 1 .. Len(ctlq) \/ i = Len(ctlq) + 1
        BY <3>3
      <4> QED
        BY <3>2, <3>3, <4>1, <4>2, Places
    <3>5. ASSUME NEW e \in Waiting PROVE e \in Waiting'
      <4>1. PICK i \in 1 .. Len(ctlq) : e = ctlq[i].req
        BY Places
      <4>2. i \in 1 .. Len(ctlq') /\ e = ctlq'[i].req
        BY <3>3, <4>1
      <4> QED
        BY <4>2, PlacesNext
    <3> QED
      BY <3>4, <3>5
  <2> QED
    BY <2>1, <2>2 DEF RecvFromClient
<1>8. modemMux \subseteq modemMux' /\ modemMux' \subseteq modemMux \cup {r}
  BY DEF RecvFromClient
<1> HIDE DEF r, m
<1>9. \A e \in Asked' : e \in Asked
  BY <1>4, <1>5, <1>7, <1>8, Places, PlacesNext
<1>10. \A e \in Asked : e.from = c \/ e \in Asked'
  BY <1>6, <1>7, <1>8, Places, PlacesNext
<1> QED
  BY <1>1, <1>9, <1>10
  DEF Service!Drop, Service!Lose, Service!Mute, Service!Offer, Silent, Nothing

\* A client that leaves takes what the proxy has not read with it.
LEMMA LeaveStep ==
    ASSUME IInv, IInv', NEW c \in Clients, Cleanup(c), ~disturbed'
    PROVE  Service!Leave(c)
<1>1. /\ UNCHANGED <<ctlq, modemMux, counts>> /\ Silent
      /\ mine' = [mine EXCEPT ![c] = {}]
  BY DEF Cleanup, Unqueue
<1>2. \A d \in Clients : stream'[d] = (IF d = c THEN <<>> ELSE stream[d])
  BY DEF Cleanup, IInv, TypeOK, QueueTypeOK
<1>3. \A e \in Unread' : e \in Unread
  BY <1>2, Places, PlacesNext
<1>4. \A e \in Unread : e.from = c \/ e \in Unread'
  <2> TAKE e \in Unread
  <2>1. PICK d \in Clients : \E i \in 1 .. Len(stream[d]) : e = stream[d][i]
    BY Places
  <2>2. CASE d = c
    BY <2>1, <2>2 DEF IInv, QueueInv, OwnStreams
  <2>3. CASE d # c
    BY <1>2, <2>1, <2>3, PlacesNext
  <2> QED
    BY <2>2, <2>3
<1>5. UNCHANGED Waiting
  BY <1>1 DEF Waiting
<1>6. \A e \in Asked' : e \in Asked
  BY <1>1, <1>3, <1>5, Places, PlacesNext
<1>7. \A e \in Asked : e.from = c \/ e \in Asked'
  BY <1>1, <1>4, <1>5, Places, PlacesNext
<1> QED
  BY <1>1, <1>6, <1>7
  DEF Service!Leave, Service!Lose, Service!Mute, Service!Offer, Silent, Nothing
\* The modem answers a request that bears an id.
LEMMA MuxAnswered ==
    ASSUME OInv, IInv', NEW r \in modemMux, RecvMuxAnswer(r), ~disturbed'
    PROVE  r \in Asked /\ Service!Answer(r)
<1>1. /\ modemMux' = modemMux \ {r} /\ UNCHANGED <<stream, ctlq, counts, mine, disturbed>>
      /\ Service!Offer({c \in Clients : r.id \in ids[c]}, r)
  BY Written DEF RecvMuxAnswer, Addressed
<1>2. IInv /\ RoutesInv
  BY <1>1 DEF OInv, RInv, Routed
<1>3. UNCHANGED Unread /\ UNCHANGED Waiting
  BY <1>1 DEF Unread, Waiting
<1>4. r.kind = "mux" /\ r \notin Waiting /\ r \notin Unread
  <2>1. r.kind = "mux" /\ r \notin Waiting
    BY <1>1, Apart
  <2>2. ASSUME r \in Unread PROVE FALSE
    <3>1. r.n \in Nat /\ r.n < r.n
      BY <1>1, <2>2, Apart
    <3> QED
      BY <3>1
  <2> QED
    BY <2>1, <2>2
<1>5. Asked' = Asked \ {r}
  <2>1. \A e : e \in Asked' <=> e \in Asked /\ e # r
    BY <1>1, <1>2, <1>3, <1>4, Places, PlacesNext
  <2> QED
    BY <2>1
<1>6. \A c \in Clients : r.id \in ids[c] => c = r.from
  BY <1>2 DEF RoutesInv, MuxKnown
<1>7. r.from \in Clients
  BY <1>2 DEF RoutesInv, MuxKnown
<1>8. /\ {c \in Clients : r.id \in ids[c]} \in {{}, {r.from}}
      /\ r.id \in mine[r.from] => {c \in Clients : r.id \in ids[c]} # {}
  BY <1>2, <1>6, <1>7 DEF RoutesInv, Exclusive
<1>9. Service!AnswerMux(r)
  BY <1>1, <1>4, <1>5, <1>8 DEF Service!AnswerMux
<1> QED
  BY <1>9 DEF Service!Answer, Asked

\* ... and the one at the head of the queue.
LEMMA ControlAnswered ==
    ASSUME OInv, IInv', NEW ok \in BOOLEAN, NEW id \in Ids \cup {None},
           RecvCtlAnswer(id, ok), ~disturbed'
    PROVE  ctlq[1].req \in Asked /\ Service!Answer(ctlq[1].req)
<1> DEFINE r == ctlq[1].req
           c == r.from
<1>1. /\ IInv /\ RInv /\ ~disturbed /\ RoutesInv /\ InOrder
      /\ 1 \in 1 .. Len(ctlq) /\ ctlq # <<>> /\ ctlq \in Seq(Queued)
      /\ Head(modemCtl) = r /\ Owners(Head(ctlq)) = {c} /\ c \in Clients
  BY AnswerOfHead DEF OInv, RInv, Ordered
<1>2. /\ Deliver({c}, r) /\ Allocate(r, id)
      /\ mine' = [d \in Clients |-> IF d \in delivered'.to /\ d = r.from /\ id # None
                                    THEN mine[d] \cup {id} ELSE mine[d]]
      /\ id \in IF r.kind = "get" THEN (Ids \ alloc) \cup {None} ELSE {None}
      /\ ctlq' = Tail(ctlq) /\ UNCHANGED <<stream, counts>>
  BY <1>1 DEF RecvCtlAnswer
<1>3. r.kind \in {"get", "release", "other"}
  BY <1>1 DEF RoutesInv, QueueKinds
<1>4. mine \in [Clients -> SUBSET Ids] /\ None \notin Ids
  BY <1>1, ProxyAssumption DEF IInv, TypeOK, LinkTypeOK
<1>5. r \in Waiting /\ UNCHANGED Unread
  BY <1>1, <1>2, Places DEF Unread
<1>6. /\ Len(ctlq) \in Nat /\ Len(ctlq') = Len(ctlq) - 1
      /\ \A i \in 1 .. Len(ctlq') : i + 1 \in 1 .. Len(ctlq) /\ ctlq'[i] = ctlq[i + 1]
  BY <1>1, <1>2, HeadTailProperties, LenProperties
<1> HIDE DEF r
<1>7. \A i \in 1 .. Len(ctlq) :
          i # 1 => ctlq[i].req.from # c \/ (r.n \in Nat /\ ctlq[i].req.n \in Nat /\ r.n < ctlq[i].req.n)
  BY <1>1, Numbers DEF r, InOrder, QueueInTurn
<1>8. \A e : e \in Waiting' <=> e \in Waiting /\ e # r
  <2> TAKE e
  <2>1. ASSUME e \in Waiting' PROVE e \in Waiting /\ e # r
    <3>1. PICK i \in 1 .. Len(ctlq') : e = ctlq'[i].req
      BY <2>1, PlacesNext
    <3>2. i + 1 \in 1 .. Len(ctlq) /\ i + 1 # 1 /\ e = ctlq[i + 1].req
      BY <1>6, <3>1
    <3>3. e # r
      BY <1>7, <3>2
    <3> QED
      BY <1>1, <3>2, <3>3, Places
  <2>2. ASSUME e \in Waiting, e # r PROVE e \in Waiting'
    <3>1. PICK i \in 1 .. Len(ctlq) : e = ctlq[i].req
      BY <1>1, <2>2, Places
    <3>2. i # 1
      BY <2>2, <3>1 DEF r
    <3>3. i - 1 \in 1 .. Len(ctlq') /\ (i - 1) + 1 = i
      BY <1>6, <3>2
    <3>4. e = ctlq'[i - 1].req
      BY <1>6, <3>1, <3>3
    <3> QED
      BY <3>3, <3>4, PlacesNext
  <2> QED
    BY <2>1, <2>2
<1>9. r \notin Unread /\ r \notin modemMux
  <2>1. r \notin modemMux
    BY <1>1, <1>3, Apart
  <2>2. ASSUME r \in Unread PROVE FALSE
    <3>1. r.n \in Nat /\ r.n < r.n
      BY <1>1, <1>5, <2>2, Apart
    <3> QED
      BY <3>1
  <2> QED
    BY <2>1, <2>2
\* Nothing the client has written names an id whose release is answered.
<1>10. ASSUME r.kind = "release", NEW e \in Unread, e.kind = "mux" PROVE e.id # r.id
  <2>1. LastWord(r)
    BY <1>1, <1>10 DEF r, RoutesInv, QueueIds, Releases
  <2>2. PICK d \in Clients : \E i \in 1 .. Len(stream[d]) : e = stream[d][i]
    BY <1>1, <1>10, Places
  <2>3. PICK i \in 1 .. Len(stream[d]) : e = stream[d][i]
    BY <2>2
  <2>4. e.id \in ids[d]
    BY <1>1, <1>10, <2>3 DEF RoutesInv, StreamIds
  <2>5. CASE d = c
    BY <2>1, <2>3, <2>5 DEF LastWord
  <2>6. CASE d # c
    BY <1>1, <2>1, <2>4, <2>6 DEF LastWord, RoutesInv, Exclusive
  <2> QED
    BY <2>5, <2>6
<1>11. modemMux' = {m \in modemMux : r.kind # "release" \/ m.id # r.id}
  BY <1>2 DEF Allocate
<1>12. Asked' = Asked \ Service!Ended(r)
  <2>1. \A e \in Waiting : e.kind # "mux"
    BY <1>1, Apart
  <2>2. \A e \in modemMux : e.kind = "mux"
    BY <1>1, Apart
  <2>3. \A e : e \in Service!Ended(r) <=>
               e = r \/ (e \in Asked /\ r.kind = "release" /\ e.kind = "mux" /\ e.id = r.id)
    BY DEF Service!Ended
  <2>4. \A e : e \in Asked' <=> e \in Asked /\ e \notin Service!Ended(r)
    <3> TAKE e
    <3>1. e \in Unread' <=> e \in Unread /\ e \notin Service!Ended(r)
      BY <1>5, <1>9, <1>10, <2>3
    <3>2. e \in Waiting' <=> e \in Waiting /\ e \notin Service!Ended(r)
      BY <1>8, <2>1, <2>3
    <3>3. e \in modemMux' <=> e \in modemMux /\ e \notin Service!Ended(r)
      BY <1>9, <1>11, <2>2, <2>3 DEF Asked
    <3> QED
      BY <3>1, <3>2, <3>3 DEF Asked
  <2> QED
    BY <2>4
\* What the client asked before is answered.
<1>13. Service!InTurn(r)
  <2> SUFFICES ASSUME NEW q \in Asked, q.kind # "mux", q.from = c PROVE r.n <= q.n
    BY DEF Service!InTurn, Service!Control
  <2>1. r.n \in Nat
    BY <1>1, Numbers DEF r
  <2>2. CASE q \in Unread
    BY <1>1, <1>5, <2>2, Apart
  <2>3. CASE q \in Waiting
    <3>1. PICK i \in 1 .. Len(ctlq) : q = ctlq[i].req
      BY <1>1, <2>3, Places
    <3> QED
      BY <1>7, <2>1, <3>1 DEF r
  <2>4. CASE q \in modemMux
    BY <1>1, <2>4, Apart
  <2> QED
    BY <2>2, <2>3, <2>4 DEF Asked
<1>14. Service!AnswerControl(r)
  BY <1>2, <1>3, <1>12, <1>13, Written
  DEF Service!AnswerControl, Service!Control
\* A client that misses the answer does not know the id.
<1>15. CASE id = None \/ c \notin delivered'.to
  <2>1. mine' = mine
    BY <1>2, <1>4, <1>15
  <2> QED
    BY <1>5, <1>14, <2>1 DEF r, Service!Answer, Asked
\* Ids that are named are allocated.
<1>16. CASE id # None /\ c \in delivered'.to
  <2>1. id \in Ids /\ id \notin alloc /\ r.kind = "get"
    BY <1>2, <1>16
  <2>2. mine' = [mine EXCEPT ![c] = @ \cup {id}]
    BY <1>2, <1>4, <1>16
  <2>3. \A d \in Clients : id \notin ids[d] /\ id \notin mine[d]
    BY <1>1, <2>1 DEF RoutesInv, Exclusive
  <2>4. ASSUME NEW q \in Asked PROVE q.id # id
    <3>1. CASE q \in Unread
      <4>1. PICK d \in Clients : \E i \in 1 .. Len(stream[d]) : q = stream[d][i]
        BY <1>1, <3>1, Places
      <4> QED
        BY <1>1, <2>1, <2>3, <4>1, <1>16 DEF RoutesInv, StreamIds
    <3>2. CASE q \in Waiting
      <4>1. PICK i \in 1 .. Len(ctlq) : q = ctlq[i].req
        BY <1>1, <3>2, Places
      <4>2. q.id = None \/ (q.from \in Clients /\ q.id \in ids[q.from])
        BY <1>1, <4>1 DEF RoutesInv, QueueKinds, QueueIds, LastWord, Releases
      <4> QED
        BY <1>16, <2>3, <4>2
    <3>3. CASE q \in modemMux
      BY <1>1, <2>1, <3>3 DEF RoutesInv, MuxKnown
    <3> QED
      BY <3>1, <3>2, <3>3 DEF Asked
  <2>5. delivered'.to = {c}
    BY <1>2, <1>16, Written
  <2>6. Service!Granted(r, id)
    BY <2>1, <2>2, <2>3, <2>4, <2>5 DEF Service!Granted
  <2> QED
    BY <1>5, <1>14, <2>1, <2>6 DEF r, Service!Answer, Asked
<1> QED
  BY <1>15, <1>16 DEF r
\* An indication is written to the clients of its service.
LEMMA Indicated ==
    ASSUME OInv, NEW i \in Ids, RecvBroadcast(i), ~disturbed'
    PROVE  Service!Indicate(i)
<1> DEFINE to == {c \in Clients : \E j \in ids[c] : OfService(j, i)}
<1>1. /\ Service!Offer(to, None) /\ to \in SUBSET Clients
      /\ UNCHANGED <<stream, ctlq, modemMux, mine, disturbed>>
      /\ counts'.msgs = counts.msgs
  BY Written DEF RecvBroadcast, OInv, RInv, IInv, TypeOK, TraceTypeOK
<1>2. \A c \in Clients : mine[c] \subseteq ids[c]
  BY <1>1 DEF OInv, RInv, Routed, RoutesInv, Exclusive
<1>3. Service!Users(i) \subseteq to
  BY <1>2 DEF Service!Users, OfService
<1>4. UNCHANGED Asked
  BY <1>1 DEF Asked, Unread, Waiting
<1> QED
  BY <1>1, <1>3, <1>4 DEF Service!Indicate

LEMMA InitService == Init => Service!ServiceInit
<1> SUFFICES ASSUME Init PROVE Service!ServiceInit
  OBVIOUS
<1>1. IInv
  BY InitIInv
<1>2. \A e : e \notin Asked
  BY <1>1, Places DEF Init
<1> QED
  BY <1>2 DEF Init, NoIds, Nothing, Service!ServiceInit, Service!Fresh

\* Every step is one of the service, or breaks it, or is none.
LEMMA StepService ==
    ASSUME OInv, [Next]_vars
    PROVE  [Service!ServiceNext]_Service!serviceVars
<1>1. IInv /\ IInv'
  BY NextOInv DEF OInv, RInv
<1> SUFFICES ASSUME ~disturbed' PROVE [Service!ServiceNext]_Service!serviceVars
  BY DEF Service!ServiceNext
<1>2. DeviceLost => Service!Restart
  <2> SUFFICES ASSUME DeviceLost PROVE Service!Restart
    OBVIOUS
  <2>1. \A e : e \notin Asked'
    BY <1>1, PlacesNext DEF DeviceLost
  <2>2. Asked' = {}
    BY <2>1
  <2> QED
    BY <2>2
    DEF DeviceLost, NoIds, Silent, Nothing, Service!Restart, Service!Fresh, Service!Mute, Service!Offer
<1>3. ASSUME SendSync \/ RecvWhileInit \/ StartServer PROVE ~disturbed /\ Service!Serve
  <2>1. Silent /\ UNCHANGED <<stream, ctlq, modemMux, counts, mine>>
    BY <1>3 DEF SendSync, RecvWhileInit, StartServer
  <2>2. disturbed' = disturbed \/ disturbed' = (disturbed \/ modemCtl # <<>>)
    BY <1>3 DEF SendSync, RecvWhileInit, StartServer
  <2>3. ~disturbed
    BY <2>2
  <2> QED
    BY <2>1, <2>3, QuietStep DEF Service!Serve
<1>4. ASSUME NEW c \in Clients,
             Connect(c) \/ ClientClose(c) \/ \E f \in Fds : Accept(c, f)
      PROVE  ~disturbed /\ Service!Serve
  <2>1. /\ ~disturbed /\ Silent
        /\ UNCHANGED <<stream, ctlq, modemMux, counts, mine>>
    BY <1>4 DEF Connect, ClientClose, Accept
  <2> QED
    BY <2>1, QuietStep DEF Service!Serve
<1>5. ASSUME NEW c \in Clients, NEW kind \in Kinds, NEW id \in Ids \cup {None},
             ClientSend(c, kind, id)
      PROVE  ~disturbed /\ Service!Serve
  <2>1. ~disturbed /\ kind \in Service!Control \cup {"mux"}
    BY <1>5 DEF ClientSend, Kinds, Service!Control
  <2> QED
    BY <1>1, <1>5, <2>1, AskStep DEF Service!Serve
<1>6. ASSUME NEW c \in Clients, NEW ok \in BOOLEAN, RecvFromClient(c, ok)
      PROVE  ~disturbed /\ Service!Serve
  <2>1. disturbed' = disturbed \/ disturbed' = (disturbed \/ (ctlq = <<>> /\ ~ok))
    BY <1>6 DEF RecvFromClient, HandleCtl
  <2>2. ~disturbed
    BY <2>1
  <2> QED
    BY <1>1, <1>6, <2>2, ReadStep DEF Service!Serve
<1>7. ASSUME NEW c \in Clients, Cleanup(c) PROVE ~disturbed /\ Service!Serve
  <2>1. ~disturbed
    BY <1>7 DEF Cleanup, Unqueue
  <2> QED
    BY <1>1, <1>7, <2>1, LeaveStep DEF Service!Serve
<1>8. ASSUME NEW ok \in BOOLEAN, NEW id \in Ids \cup {None}, RecvCtlAnswer(id, ok)
      PROVE  ~disturbed /\ Service!Serve
  <2>1. ~disturbed
    BY <1>8, AnswerOfHead DEF OInv
  <2> QED
    BY <1>1, <1>8, <2>1, ControlAnswered DEF Service!Serve
<1>9. ASSUME NEW r \in modemMux, RecvMuxAnswer(r) PROVE ~disturbed /\ Service!Serve
  <2>1. ~disturbed
    BY <1>9 DEF RecvMuxAnswer
  <2> QED
    BY <1>1, <1>9, <2>1, MuxAnswered DEF Service!Serve
<1>10. ASSUME NEW i \in Ids, RecvBroadcast(i) PROVE ~disturbed /\ Service!Serve
  <2>1. ~disturbed
    BY <1>10 DEF RecvBroadcast
  <2> QED
    BY <1>10, <2>1, Indicated DEF Service!Serve
<1>11. ASSUME NEW ok \in BOOLEAN, RecvCtlNotice(ok) PROVE FALSE
  BY <1>11 DEF RecvCtlNotice
<1>12. ASSUME Terminated \/ UNCHANGED vars PROVE UNCHANGED Service!serviceVars
  BY <1>12 DEF Terminated, Asked, Unread, Waiting, Service!serviceVars
<1> QED
  BY <1>2, <1>3, <1>4, <1>5, <1>6, <1>7, <1>8, <1>9, <1>10, <1>11, <1>12
  DEF Next, LoopStep, ClientStep, Service!ServiceNext

\* The proxy implements the service: until one of the named disturbances, and
\* again after each restart, a request is answered at most once, to the client
\* that asked and in its turn; an id is granted only when no client uses it and
\* no request names it; an indication is offered to every client of its service.
\* A client misses only what it did not take in time.
THEOREM ImplementsService == Spec => ServesClients
BY InitService, StepService, SpecOInv, PTL DEF Spec, ServesClients, Service!ServiceSafety
=============================================================================
