------------------------------ MODULE MbimProxy ------------------------------
(***************************************************************************)
(* quectel-mbim-proxy of quectel-CM 1.6.1: one thread shares the MBIM      *)
(* device between local clients. Each connection has a slot of cm_clients, *)
(* and a request goes to the modem with the number of the slot in the top  *)
(* byte of its transaction id, which tells where the answer belongs.       *)
(*                                                                         *)
(* Every connection is another member of Conns. An answer on its way is a  *)
(* request not yet answered; the modem answers in any order. The number n  *)
(* of a request is not in the code: the properties tell requests by it.    *)
(***************************************************************************)
EXTENDS Integers, Functions, Sequences

CONSTANTS
    Conns,
    MaxClient,       \* CM_MAX_CLIENT
    Tids,            \* the transaction ids clients use
    MaxMsgs,         \* bound: messages of the clients
    MaxIndications,  \* bound: messages the modem sends by itself
    None

Shift == 16777216    \* 2 ^ TID_SHIFT
Slots == 1 .. MaxClient
Kinds == {"open", "other"}
Requests == [from : Conns, tid : Tids, kind : Kinds, n : Nat]
Messages == [tag : Nat, req : Requests]

\* The top byte has room for every slot, and clients leave it alone (mbim-cm.c
\* starts again at 1 when its counter gets there).
ASSUME MbimAssumption ==
    /\ MaxClient \in 1 .. 255
    /\ Tids \subseteq 0 .. Shift - 1
    /\ None \notin Conns /\ None \notin Requests
    /\ MaxMsgs \in Nat /\ MaxIndications \in Nat

VARIABLES
    stage,      \* "open" (mbim_server_fd = -1), "serve" or "dead"
    opening,    \* the modem has an MBIM_OPEN to answer
    leaked,     \* a former server was left open, with its name
    slot,       \* cm_clients: [Slots -> connection or None]
    link,       \* [Conns -> "new", "up", "half" (the client sends no more),
                \*  "shut" (it has closed), "gone" (both have), "forgotten"]
    stream,     \* [Conns -> messages the proxy has not read]
    modem,      \* requests the modem has not answered
    counts,     \* messages of the clients, and of the modem by itself
    delivered   \* what the last step wrote to clients: who got it, and who was
                \*  too slow to take it

procVars == <<stage, opening, leaked>>
connVars == <<slot, link, stream>>
vars == <<procVars, connVars, modem, counts, delivered>>

Nothing == [to |-> {}, slow |-> {}, req |-> None, tid |-> 0]
Silent == delivered' = Nothing

Connected == {"up", "half", "shut"}
Seated == {c \in Conns : \E i \in Slots : slot[i] = c}
Empty == [i \in Slots |-> None]
-----------------------------------------------------------------------------
Init ==
    /\ stage = "open" /\ opening = TRUE /\ leaked = FALSE
    /\ slot = Empty
    /\ link = [c \in Conns |-> "new"] /\ stream = [c \in Conns |-> <<>>]
    /\ modem = {}
    /\ counts = [msgs |-> 0, inds |-> 0]
    /\ delivered = Nothing
-----------------------------------------------------------------------------
(* The clients. *)

Connect(c) ==
    /\ stage = "serve" /\ link[c] = "new"
    /\ link' = [link EXCEPT ![c] = "up"]
    /\ Silent
    /\ UNCHANGED <<procVars, slot, stream, modem, counts>>

ClientSend(c, tid, kind) ==
    LET r == [from |-> c, tid |-> tid, kind |-> kind, n |-> counts.msgs + 1]
    IN  /\ link[c] = "up"
        /\ counts.msgs < MaxMsgs
        /\ counts' = [counts EXCEPT !.msgs = @ + 1]
        /\ stream' = [stream EXCEPT ![c] = Append(@, r)]
        /\ Silent
        /\ UNCHANGED <<procVars, slot, link, modem>>

\* shutdown() of the sending side, or close().
ClientLeaves(c, how) ==
    /\ link[c] = "up" \/ (link[c] = "half" /\ how = "shut")
    /\ link' = [link EXCEPT ![c] = how]
    /\ Silent
    /\ UNCHANGED <<procVars, slot, stream, modem, counts>>
-----------------------------------------------------------------------------
(* main() and the start of proxy_loop. *)

\* Faulty: MBIM_OPEN is sent only once.
ReopenQuietly ==
    /\ stage' = "open" /\ opening' = FALSE
    /\ slot' = Empty /\ stream' = [c \in Conns |-> <<>>]
    /\ modem' = {}

\* main() opens the device again and sends MBIM_OPEN, which makes the modem
\* forget what it was asked before; the table is cleared.
Reopen ==
    /\ stage' = "open" /\ opening' = TRUE
    /\ slot' = Empty /\ stream' = [c \in Conns |-> <<>>]
    /\ modem' = {}

\* The error exit of proxy_loop closes the server and all connections.
Restart ==
    /\ Reopen
    /\ link' = [c \in Conns |-> IF link[c] \in Connected THEN "gone" ELSE link[c]]
    /\ Silent
    /\ UNCHANGED <<leaked, counts>>

\* MBIM_OPEN_DONE: the server is made, which fails if its name is still taken.
OpenDone ==
    /\ stage = "open" /\ opening
    /\ opening' = FALSE
    /\ stage' = IF leaked THEN "open" ELSE "serve"
    /\ Silent
    /\ UNCHANGED <<leaked, connVars, modem, counts>>

\* ... with an error status, or poll() times out after 10 s.
OpenFails == stage = "open" /\ Restart

DeviceLost == stage = "serve" /\ Restart
-----------------------------------------------------------------------------
(* proxy_loop. *)

\* accept(): the first free slot, or none.
Accept(c) ==
    /\ stage = "serve" /\ link[c] \in Connected /\ c \notin Seated
    /\ \/ \E i \in Slots :
             /\ slot[i] = None /\ \A j \in 1 .. i - 1 : slot[j] # None
             /\ slot' = [slot EXCEPT ![i] = c]
             /\ UNCHANGED <<link, stream>>
       \/ /\ \A i \in Slots : slot[i] # None
          /\ link' = [link EXCEPT ![c] = "gone"]
          /\ stream' = [stream EXCEPT ![c] = <<>>]
          /\ UNCHANGED slot
    /\ Silent
    /\ UNCHANGED <<procVars, modem, counts>>

\* Faulty: the slot is not freed.
FreeNothing(i) == UNCHANGED slot

\* Faulty: the connections behind it move up.
FreeCompacting(i) ==
    slot' = [j \in Slots |-> IF j < i THEN slot[j]
                             ELSE IF j < MaxClient THEN slot[j + 1] ELSE None]

Free(i) == slot' = [slot EXCEPT ![i] = None]

\* handle_client_disconnect, on POLLHUP: what it had sent is not read.
Disconnect(i) ==
    LET c == slot[i]
    IN  /\ stage = "serve" /\ c # None /\ link[c] = "shut"
        /\ Free(i)
        /\ link' = [link EXCEPT ![c] = "gone"]
        /\ stream' = [stream EXCEPT ![c] = <<>>]
        /\ Silent
        /\ UNCHANGED <<procVars, modem, counts>>

\* non_block_write: a client whose socket has no room after 3 s, or not enough,
\* keeps its slot and misses the message; nobody is told. A write to a
\* connection its client has closed raises SIGPIPE.
Deliver(to, r, tid) ==
    /\ \E slow \in SUBSET {c \in to : link[c] # "shut"} :
          delivered' = [to |-> to \ slow, slow |-> slow, req |-> r, tid |-> tid]
    /\ stage' = IF \E c \in to : link[c] = "shut" THEN "dead" ELSE stage

Tag(i, tid) == i * Shift + tid

\* handle_client_request: one read() is one message, whatever follows it in
\* the stream is lost. The proxy answers MBIM_OPEN and MBIM_CLOSE itself;
\* ok is whether the device takes the message.
Request(i, ok) ==
    LET c == slot[i]
        r == Head(stream[c])
    IN  /\ stage = "serve" /\ c # None /\ stream[c] # <<>>
        /\ stream' = [stream EXCEPT ![c] = <<>>]
        /\ IF r.kind = "open"
           THEN Deliver({c}, r, r.tid) /\ UNCHANGED modem
           ELSE /\ modem' = IF ok THEN modem \cup {[tag |-> Tag(i, r.tid), req |-> r]}
                                  ELSE modem
                /\ Silent
                /\ UNCHANGED stage
        /\ UNCHANGED <<opening, leaked, slot, link, counts>>

\* read() returns 0: proxy_loop closes this connection and returns, without
\* closing the server or the other connections.
ReadFails(i) ==
    LET c == slot[i]
    IN  /\ stage = "serve" /\ c # None /\ link[c] = "half" /\ stream[c] = <<>>
        /\ leaked' = TRUE
        /\ Reopen
        /\ link' = [d \in Conns |-> IF d = c THEN "gone"
                                  ELSE IF link[d] \in Connected THEN "forgotten"
                                  ELSE link[d]]
        /\ Silent
        /\ UNCHANGED counts

Sender(tag) == tag \div Shift

OwnTid(tag) == tag % Shift

\* handle_device_response on an answer.
Answer(m) ==
    LET c == slot[Sender(m.tag)]
    IN  /\ stage = "serve"
        /\ modem' = modem \ {m}
        /\ Deliver(IF c = None THEN {} ELSE {c}, m.req, OwnTid(m.tag))
        /\ UNCHANGED <<opening, leaked, connVars, counts>>

\* Faulty: only the first client hears of it, as if it were an answer.
IndicateFirst ==
    /\ stage = "serve"
    /\ counts.inds < MaxIndications
    /\ counts' = [counts EXCEPT !.inds = @ + 1]
    /\ \E i \in Slots : /\ slot[i] # None /\ \A j \in 1 .. i - 1 : slot[j] = None
                       /\ Deliver({slot[i]}, None, 0)
    /\ UNCHANGED <<opening, leaked, connVars, modem>>

\* ... on an indication.
Indicate ==
    /\ stage = "serve"
    /\ counts.inds < MaxIndications
    /\ counts' = [counts EXCEPT !.inds = @ + 1]
    /\ Deliver(Seated, None, 0)
    /\ UNCHANGED <<opening, leaked, connVars, modem>>
-----------------------------------------------------------------------------
ClientStep ==
    \E c \in Conns :
        \/ Connect(c)
        \/ \E tid \in Tids, kind \in Kinds : ClientSend(c, tid, kind)
        \/ \E how \in {"half", "shut"} : ClientLeaves(c, how)

ServeStep ==
    \/ \E c \in Conns : Accept(c)
    \/ \E i \in Slots : \/ Disconnect(i) \/ ReadFails(i)
                        \/ \E ok \in BOOLEAN : Request(i, ok)
    \/ \E m \in modem : Answer(m)
    \/ Indicate

Terminated == stage = "dead" /\ UNCHANGED vars

Next == ClientStep \/ OpenDone \/ OpenFails \/ DeviceLost \/ ServeStep \/ Terminated

Spec == Init /\ [][Next]_vars

\* The modem accepts MBIM_OPEN in the end if it is sent again and again, and
\* poll() times out.
Fairness == SF_vars(OpenDone) /\ WF_vars(OpenFails)

FairSpec == Spec /\ Fairness
-----------------------------------------------------------------------------
TypeOK ==
    /\ stage \in {"open", "serve", "dead"}
    /\ opening \in BOOLEAN /\ leaked \in BOOLEAN
    /\ slot \in [Slots -> Conns \cup {None}]
    /\ link \in [Conns -> {"new", "gone", "forgotten"} \cup Connected]
    /\ stream \in [Conns -> Seq(Requests)]
    /\ modem \subseteq Messages
    /\ counts \in [msgs : Nat, inds : Nat]
    /\ delivered \in [to : SUBSET Conns, slow : SUBSET Conns,
                      req : Requests \cup {None}, tid : Nat]

\* A connection has one slot, only open connections have one, and before the
\* server is made none has (handle_client_connect, handle_client_disconnect).
SlotsExclusive ==
    /\ \A i, j \in Slots : i # j /\ slot[i] # None => slot[i] # slot[j]
    /\ \A c \in Seated : link[c] \in Connected
    /\ stage = "open" => slot = Empty

\* While its client is connected an answer goes to it, if it takes it, and to
\* no other, with the transaction id it chose. (When it has left, whoever has
\* its slot now gets the answer.)
AnswerToAsker ==
    delivered.req # None =>
        /\ delivered.tid = delivered.req.tid
        /\ link[delivered.req.from] \in Connected
              => delivered.to \cup delivered.slow = {delivered.req.from}

\* After a failed start or the loss of the device the proxy serves again,
\* unless it returned once without closing its server.
ServesAgain == stage = "open" ~> (stage # "open" \/ leaked)

\* What the clients see of the proxy is the service they are promised: one answer
\* at most to each request, under its id, to its client while that has a slot,
\* and each indication to every client, if it takes them in time. A request is
\* open in its stream or in the modem.
Unread == UNION {Range(stream[c]) : c \in Conns}
Sent == {m.req : m \in modem}
Asked == Unread \cup Sent
Service == INSTANCE MbimService WITH asked <- Asked, last <- counts.msgs,
               served <- Seated, told <- delivered
ServesClients == Service!ServiceSafety
=============================================================================
