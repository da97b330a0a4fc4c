------------------------------- MODULE QmiProxy -------------------------------
(***************************************************************************)
(* quectel-qmi-proxy of quectel-CM 1.6.1: one thread (qmi_proxy_loop)      *)
(* shares the QMI device between local clients. Control requests carry no  *)
(* client id, so the proxy keeps them in one queue (qmi_proxy_ctl_msg),    *)
(* has the head outstanding at the modem and gives the next control answer *)
(* to whoever asked the head; all other messages are routed by the client  *)
(* ids each connection was seen to obtain.                                 *)
(*                                                                         *)
(* A request and its answer are one record; n numbers the requests and     *)
(* exists for the properties only. An answer on its way is modelled as a   *)
(* request not yet answered. A connection is named by its client and by    *)
(* its descriptor, which the queue remembers and accept() reuses.          *)
(***************************************************************************)
EXTENDS Integers, Sequences, SequencesExt

CONSTANTS
    Clients,
    Fds,          \* the descriptors accept() hands out
    Ids,          \* the client ids of the modem
    TypeOf,       \* [Ids -> service type]
    MaxSyncs,     \* SYNC requests qmi_proxy_init sends before it gives up
    MaxMsgs,      \* bound: messages of the clients
    MaxNotices,   \* bound: control messages the modem sends by itself
    None

Kinds == {"sync", "get", "release", "other", "mux"}
Requests ==
    [kind : Kinds, from : Clients \cup {None}, n : Nat, id : Ids \cup {None}]
Queued == [fd : Fds, req : Requests]

ASSUME ProxyAssumption ==
    /\ None \notin Clients /\ None \notin Ids /\ None \notin Fds
    /\ None \notin Requests
    /\ MaxSyncs \in Nat \ {0}
    /\ MaxMsgs \in Nat /\ MaxNotices \in Nat

VARIABLES
    stage,        \* "init" (qmi_proxy_server_fd = -1), "serve" or "dead"
    syncs,        \* SYNC requests sent by this qmi_proxy_init
    syncDone,     \* qmi_sync_done
    link,         \* [Clients -> "off", "up", or "shut": closed by the client]
    fdOf,         \* [Clients -> descriptor of the connection, or None]
    ids,          \* [Clients -> client ids listed for the connection]
    stream,       \* [Clients -> requests the proxy has not read]
    ctlq,         \* qmi_proxy_ctl_msg
    modemCtl,     \* control requests the modem has not answered
    modemMux,     \* other requests the modem has not answered
    alloc,        \* client ids allocated in the modem
    mine,         \* [Clients -> client ids the client uses]
    delivered,    \* what the last step wrote to clients: who got it, and who
                  \*  was too slow to take it
    counts,       \* messages of the clients and notices since the start
    disturbed     \* one of the events that the queue does not survive (below)

clientVars == <<link, fdOf, ids, mine>>
modemVars  == <<modemCtl, modemMux, alloc>>
initVars   == <<stage, syncs, syncDone>>
vars == <<initVars, clientVars, stream, ctlq, modemVars, delivered,
          counts, disturbed>>

Nothing == [to |-> {}, slow |-> {}, msg |-> None]
Silent == delivered' = Nothing

NoIds == [c \in Clients |-> {}]
-----------------------------------------------------------------------------
Init ==
    /\ stage = "init" /\ syncs = 0 /\ syncDone = FALSE
    /\ link = [c \in Clients |-> "off"] /\ fdOf = [c \in Clients |-> None]
    /\ ids = NoIds /\ mine = NoIds
    /\ stream = [c \in Clients |-> <<>>]
    /\ ctlq = <<>>
    /\ modemCtl = <<>> /\ modemMux = {} /\ alloc = {}
    /\ delivered = Nothing
    /\ counts = [msgs |-> 0, notices |-> 0]
    /\ disturbed = FALSE
-----------------------------------------------------------------------------
(* The clients. *)

Connect(c) ==
    /\ stage = "serve" /\ link[c] = "off"
    /\ link' = [link EXCEPT ![c] = "up"]
    /\ Silent
    /\ UNCHANGED <<initVars, fdOf, ids, mine, stream, ctlq, modemVars,
                   counts, disturbed>>

\* A client uses an id until it asks for its release.
ClientSend(c, kind, id) ==
    LET r == [kind |-> kind, from |-> c, n |-> counts.msgs + 1, id |-> id]
    IN  /\ stage = "serve" /\ link[c] = "up"
        /\ counts.msgs < MaxMsgs
        /\ id \in IF kind \in {"release", "mux"} THEN mine[c] ELSE {None}
        /\ counts' = [counts EXCEPT !.msgs = @ + 1]
        /\ stream' = [stream EXCEPT ![c] = Append(@, r)]
        /\ mine' = IF kind = "release" THEN [mine EXCEPT ![c] = @ \ {id}] ELSE mine
        /\ Silent
        /\ UNCHANGED <<initVars, link, fdOf, ids, ctlq, modemVars,
                       disturbed>>

ClientClose(c) ==
    /\ link[c] = "up"
    /\ link' = [link EXCEPT ![c] = "shut"]
    /\ Silent
    /\ UNCHANGED <<initVars, fdOf, ids, mine, stream, ctlq, modemVars,
                   counts, disturbed>>
-----------------------------------------------------------------------------
(* Start-up: main() synchronises while qmi_proxy_loop already reads. *)

SendSync ==
    /\ stage = "init" /\ ~syncDone /\ syncs < MaxSyncs
    /\ syncs' = syncs + 1
    /\ modemCtl' = Append(modemCtl,
                      [kind |-> "sync", from |-> None, n |-> 0, id |-> None])
    /\ Silent
    /\ UNCHANGED <<stage, syncDone, clientVars, stream, ctlq, modemMux, alloc,
                   counts, disturbed>>

\* Whatever is read before the server exists counts as the answer to SYNC.
RecvWhileInit ==
    /\ stage = "init" /\ modemCtl # <<>>
    /\ modemCtl' = Tail(modemCtl)
    /\ syncDone' = TRUE
    /\ Silent
    /\ UNCHANGED <<stage, syncs, clientVars, stream, ctlq, modemMux, alloc,
                   counts, disturbed>>

\* The server is opened with or without an answer; a SYNC answer still to come
\* will be taken for a client's (a disturbance).
StartServer ==
    /\ stage = "init" /\ (syncDone \/ syncs = MaxSyncs)
    /\ stage' = "serve" /\ syncs' = 0
    /\ disturbed' = (disturbed \/ modemCtl # <<>>)
    /\ Silent
    /\ UNCHANGED <<syncDone, clientVars, stream, ctlq, modemVars,
                   counts>>
-----------------------------------------------------------------------------
(* qmi_proxy_loop. *)

\* accept() hands out a descriptor that is free: also one used before.
Accept(c, f) ==
    /\ stage = "serve" /\ link[c] # "off" /\ fdOf[c] = None
    /\ \A d \in Clients : fdOf[d] # f
    /\ fdOf' = [fdOf EXCEPT ![c] = f]
    /\ Silent
    /\ UNCHANGED <<initVars, link, ids, mine, stream, ctlq, modemVars,
                   counts, disturbed>>

\* Whom a queued message belongs to: the connection that has its descriptor.
Owners(m) == {c \in Clients : fdOf[c] = m.fd}

\* send_qmi_to_cdc_wdm; ok is whether poll() saw the device ready in time.
ToModem(q, r, ok) == IF ok THEN Append(q, r) ELSE q

\* Faulty: every control request is sent at once.
HandleCtlAtOnce(c, r, ok) ==
    /\ modemCtl' = ToModem(modemCtl, r, ok)
    /\ ctlq' = Append(ctlq, [fd |-> fdOf[c], req |-> r])
    /\ disturbed' = (disturbed \/ ~ok)

\* Faulty: the newest request is the head.
HandleCtlNewest(c, r, ok) ==
    /\ modemCtl' = IF ctlq = <<>> THEN ToModem(modemCtl, r, ok) ELSE modemCtl
    /\ ctlq' = <<[fd |-> fdOf[c], req |-> r]>> \o ctlq
    /\ disturbed' = (disturbed \/ (ctlq = <<>> /\ ~ok))

\* Only the head of the queue is with the modem.
HandleCtl(c, r, ok) ==
    /\ modemCtl' = IF ctlq = <<>> THEN ToModem(modemCtl, r, ok) ELSE modemCtl
    /\ ctlq' = Append(ctlq, [fd |-> fdOf[c], req |-> r])
    /\ disturbed' = (disturbed \/ (ctlq = <<>> /\ ~ok))

\* recv_qmi_from_client. A read that returns several messages
\* drops them all; a client's SYNC is refused.
RecvFromClient(c, ok) ==
    LET r == Head(stream[c])
    IN  /\ stage = "serve" /\ link[c] = "up" /\ fdOf[c] # None /\ stream[c] # <<>>
        /\ stream' = [stream EXCEPT ![c] = <<>>]
        /\ IF Len(stream[c]) > 1 \/ r.kind = "sync"
           THEN UNCHANGED <<modemCtl, modemMux, ctlq, disturbed>>
           ELSE IF r.kind = "mux"
           THEN /\ modemMux' = IF ok THEN modemMux \cup {r} ELSE modemMux
                /\ UNCHANGED <<modemCtl, ctlq, disturbed>>
           ELSE HandleCtl(c, r, ok) /\ UNCHANGED modemMux
        /\ Silent
        /\ UNCHANGED <<initVars, clientVars, alloc, counts>>

\* send_qmi_to_client: a client whose socket has no room for 5 s, or not enough,
\* stays connected and misses the message; nobody is told. write() to a
\* connection its client has closed, which always has room, raises SIGPIPE.
Deliver(to, m) ==
    /\ \E slow \in SUBSET {c \in to : link[c] = "up"} :
          delivered' = [to |-> to \ slow, slow |-> slow, msg |-> m]
    /\ stage' = IF \E c \in to : link[c] = "shut" THEN "dead" ELSE stage

\* Faulty: a release leaves the id listed.
TrackIdsForever(to, r, id) ==
    ids' = [c \in Clients |-> IF c \in to /\ r.kind = "get" /\ id # None
                              THEN ids[c] \cup {id} ELSE ids[c]]

\* get_client_id, release_client_id.
TrackIds(to, r, id) ==
    ids' = [c \in Clients |->
               IF c \notin to THEN ids[c]
               ELSE CASE r.kind = "get" /\ id # None -> ids[c] \cup {id}
                      [] r.kind = "release"          -> ids[c] \ {r.id}
                      [] OTHER                       -> ids[c]]

\* What the answer to r means in the modem: a released id is forgotten.
Allocate(r, id) ==
    /\ modemMux' = {m \in modemMux : r.kind # "release" \/ m.id # r.id}
    /\ alloc' = CASE r.kind = "get" /\ id # None -> alloc \cup {id}
                   [] r.kind = "release"          -> alloc \ {r.id}
                   [] r.kind = "sync"             -> {}
                   [] OTHER                       -> alloc

\* Faulty: the next message is left to itself.
SendNextNever(q, rest, ok) ==
    modemCtl' = rest /\ disturbed' = disturbed

\* Send the message that is now the head, if its connection still exists.
SendNext(q, rest, ok) ==
    IF q # <<>> /\ Owners(Head(q)) # {}
    THEN /\ modemCtl' = ToModem(rest, Head(q).req, ok)
         /\ disturbed' = (disturbed \/ ~ok)
    ELSE modemCtl' = rest /\ disturbed' = disturbed

\* recv_qmi_from_dev on a control answer: it is given to the head's asker. The
\* answer to a "get" carries a fresh client id, or None when it is refused; an
\* id is listed for a client that misses the answer, too.
RecvCtlAnswer(id, ok) ==
    LET r  == Head(modemCtl)
        to == IF ctlq = <<>> THEN {} ELSE Owners(Head(ctlq))
    IN  /\ stage = "serve" /\ modemCtl # <<>>
        /\ id \in IF r.kind = "get" THEN (Ids \ alloc) \cup {None} ELSE {None}
        /\ Deliver(to, r)
        /\ TrackIds(to, r, id)
        /\ Allocate(r, id)
        /\ mine' = [c \in Clients |-> IF c \in delivered'.to /\ c = r.from /\ id # None
                                      THEN mine[c] \cup {id} ELSE mine[c]]
        /\ ctlq' = IF ctlq = <<>> THEN ctlq ELSE Tail(ctlq)
        /\ SendNext(ctlq', Tail(modemCtl), ok)
        /\ UNCHANGED <<syncs, syncDone, link, fdOf, stream, counts>>

\* ... on a control message that is no response: the head is sent once more.
RecvCtlNotice(ok) ==
    /\ stage = "serve" /\ counts.notices < MaxNotices
    /\ counts' = [counts EXCEPT !.notices = @ + 1]
    /\ IF ctlq # <<>> /\ Owners(Head(ctlq)) # {}
       THEN modemCtl' = ToModem(modemCtl, Head(ctlq).req, ok)
       ELSE UNCHANGED modemCtl
    /\ disturbed' = TRUE
    /\ Silent
    /\ UNCHANGED <<initVars, clientVars, stream, ctlq, modemMux, alloc>>

Addressed(i, id) == i = id

\* ... on any other answer: to every connection that lists its client id.
RecvMuxAnswer(r) ==
    /\ stage = "serve" /\ r \in modemMux
    /\ modemMux' = modemMux \ {r}
    /\ Deliver({c \in Clients : \E i \in ids[c] : Addressed(i, r.id)}, r)
    /\ UNCHANGED <<syncs, syncDone, clientVars, stream, ctlq, modemCtl, alloc,
                   counts, disturbed>>

\* Faulty: the id is compared, as for an answer.
OfServiceOne(j, i) == j = i

OfService(j, i) == TypeOf[j] = TypeOf[i]

\* ... on an indication to all clients of a service (client id 0).
RecvBroadcast(i) ==
    LET to == {c \in Clients : \E j \in ids[c] : OfService(j, i)}
    IN  /\ stage = "serve" /\ counts.notices < MaxNotices
        /\ counts' = [counts EXCEPT !.notices = @ + 1]
        /\ Deliver(to, None)
        /\ UNCHANGED <<syncs, syncDone, clientVars, stream, ctlq, modemVars,
                       disturbed>>

\* cleanup_qmi_connection takes the first message of the connection out of the
\* queue, whether it is with the modem or not, and no other.
Unqueue(f) ==
    \/ /\ \A m \in Range(ctlq) : m.fd # f
       /\ UNCHANGED <<ctlq, disturbed>>
    \/ \E i \in 1 .. Len(ctlq) :
       /\ ctlq[i].fd = f /\ \A j \in 1 .. i - 1 : ctlq[j].fd # f
       /\ ctlq' = RemoveAt(ctlq, i)
       /\ disturbed' = TRUE

Cleanup(c) ==
    /\ stage = "serve" /\ link[c] = "shut" /\ fdOf[c] # None
    /\ Unqueue(fdOf[c])
    /\ link' = [link EXCEPT ![c] = "off"]
    /\ fdOf' = [fdOf EXCEPT ![c] = None]
    /\ ids' = [ids EXCEPT ![c] = {}] /\ mine' = [mine EXCEPT ![c] = {}]
    /\ stream' = [stream EXCEPT ![c] = <<>>]
    /\ Silent
    /\ UNCHANGED <<initVars, modemVars, counts>>

\* The device goes away: the loop ends, main() starts again from nothing.
DeviceLost ==
    /\ stage = "serve"
    /\ stage' = "init" /\ syncs' = 0 /\ syncDone' = FALSE
    /\ link' = [c \in Clients |-> "off"] /\ fdOf' = [c \in Clients |-> None]
    /\ ids' = NoIds /\ mine' = NoIds
    /\ stream' = [c \in Clients |-> <<>>]
    /\ ctlq' = <<>>
    /\ modemCtl' = <<>> /\ modemMux' = {} /\ alloc' = {}
    /\ disturbed' = FALSE
    /\ Silent
    /\ counts' = [msgs |-> 0, notices |-> 0]
-----------------------------------------------------------------------------
LoopStep ==
    \/ \E c \in Clients :
          \/ Cleanup(c) \/ \E f \in Fds : Accept(c, f)
          \/ \E ok \in BOOLEAN : RecvFromClient(c, ok)
    \/ \E ok \in BOOLEAN, id \in Ids \cup {None} : RecvCtlAnswer(id, ok)
    \/ \E ok \in BOOLEAN : RecvCtlNotice(ok)
    \/ \E r \in modemMux : RecvMuxAnswer(r)
    \/ \E i \in Ids : RecvBroadcast(i)
    \/ DeviceLost

ClientStep ==
    \E c \in Clients :
        \/ Connect(c) \/ ClientClose(c)
        \/ \E kind \in Kinds, id \in Ids \cup {None} : ClientSend(c, kind, id)

Terminated == stage = "dead" /\ UNCHANGED vars

Next == SendSync \/ RecvWhileInit \/ StartServer \/ LoopStep \/ ClientStep \/ Terminated

Spec == Init /\ [][Next]_vars

\* The loop runs, and the modem answers the control request it has.
Fairness ==
    /\ WF_vars(\E ok \in BOOLEAN, id \in Ids \cup {None} : RecvCtlAnswer(id, ok))
    /\ WF_vars(\E c \in Clients : Cleanup(c) \/ (\E f \in Fds : Accept(c, f))
                   \/ \E ok \in BOOLEAN : RecvFromClient(c, ok))

FairSpec == Spec /\ Fairness
-----------------------------------------------------------------------------
(* What must hold. The queue has no protection against a SYNC answer that   *)
(* is late, a control message the modem sends by itself, a connection that  *)
(* closes with a request queued, and a write the device does not take:      *)
(* disturbed tells that one of them has happened since the last restart.    *)
(* The properties say that they are the only ways for it to go wrong.       *)

StageTypeOK ==
    /\ stage \in {"init", "serve", "dead"} /\ syncs \in 0 .. MaxSyncs
    /\ syncDone \in BOOLEAN /\ disturbed \in BOOLEAN

LinkTypeOK ==
    /\ link \in [Clients -> {"off", "up", "shut"}]
    /\ fdOf \in [Clients -> Fds \cup {None}]
    /\ ids \in [Clients -> SUBSET Ids] /\ mine \in [Clients -> SUBSET Ids]

QueueTypeOK ==
    /\ stream \in [Clients -> Seq(Requests)]
    /\ ctlq \in Seq(Queued)
    /\ modemCtl \in Seq(Requests) /\ modemMux \subseteq Requests
    /\ alloc \subseteq Ids

TraceTypeOK ==
    /\ delivered \in [to : SUBSET Clients, slow : SUBSET Clients,
                      msg : Requests \cup {None}]
    /\ counts \in [msgs : Nat, notices : Nat]

TypeOK == StageTypeOK /\ LinkTypeOK /\ QueueTypeOK /\ TraceTypeOK

\* The modem has the head of the queue and nothing else, and every queued
\* request is on the connection of the client that made it: what lets
\* recv_qmi_from_dev give an answer to the head without looking at its id.
HeadOutstanding ==
    stage = "serve" /\ ~disturbed =>
        /\ modemCtl = IF ctlq = <<>> THEN <<>> ELSE <<Head(ctlq).req>>
        /\ \A i \in 1 .. Len(ctlq) : Owners(ctlq[i]) = {ctlq[i].req.from}

\* Every answer goes to the client that asked, if it takes it, and to no other.
AnswerToAsker ==
    ~disturbed /\ delivered.msg # None =>
        IF delivered.msg.kind = "mux"
        THEN delivered.to \cup delivered.slow \subseteq {delivered.msg.from}
        ELSE delivered.to \cup delivered.slow = {delivered.msg.from}

\* No two connections list one client id, the listed ids are allocated in the
\* modem, and those a client uses are listed for it.
IdsExclusive ==
    ~disturbed =>
        /\ \A c, d \in Clients : c # d => ids[c] \cap ids[d] = {}
        /\ \A c \in Clients : mine[c] \subseteq ids[c] /\ ids[c] \subseteq alloc

\* A queued control request leaves the queue in the end.
InQueue(k) == \E i \in 1 .. Len(ctlq) : ctlq[i].req.n = k
QueueMoves ==
    \A k \in 1 .. MaxMsgs :
        InQueue(k) ~> (~InQueue(k) \/ disturbed \/ stage = "dead")

\* What the clients see of the proxy is the service they are promised: a request
\* is answered once and in its turn, an id that is granted is named by nothing
\* still on its way, an indication misses no client of its service that takes
\* it in time. A request is open in its stream, in the queue, or in the modem.
Unread == UNION {Range(stream[c]) : c \in Clients}
Waiting == {m.req : m \in Range(ctlq)}
Asked == Unread \cup Waiting \cup modemMux
Service == INSTANCE QmiService WITH asked <- Asked, last <- counts.msgs,
               uses <- mine, told <- delivered, sound <- ~disturbed
ServesClients == Service!ServiceSafety
=============================================================================
