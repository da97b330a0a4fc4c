------------------------------ MODULE QmiService ------------------------------
(***************************************************************************)
(* What quectel-qmi-proxy promises the clients that share the modem: a     *)
(* request is answered at most once, to the client that asked; a client's  *)
(* control requests are answered in the order in which it asked them; a    *)
(* client id is given to one client, and only when nothing on its way      *)
(* names it; an answer to an id in use, and an indication to its service,  *)
(* are offered to the client. A client that does not take in time what it  *)
(* is offered misses it, and requests may be lost, without a word.         *)
(*                                                                         *)
(* All that holds until it is disturbed, and again after a restart.        *)
(***************************************************************************)
EXTENDS Integers

CONSTANTS Clients, Ids, TypeOf, None

VARIABLES
    asked,        \* requests that may still be answered
    last,         \* number of the last request
    uses,         \* [Clients -> client ids the client may use]
    told,         \* what the last step offered to clients: who took it, and
                  \*  who was too slow
    sound         \* nothing has disturbed the service since it started

serviceVars == <<asked, last, uses, told, sound>>

Control == {"sync", "get", "release", "other"}

\* Some of those it is meant for do not take it.
Offer(to, m) ==
    \E slow \in SUBSET to : told' = [to |-> to \ slow, slow |-> slow, msg |-> m]
Mute == Offer({}, None)
Fresh == asked = {} /\ last = 0 /\ uses = [c \in Clients |-> {}]

ServiceInit == Fresh /\ told = [to |-> {}, slow |-> {}, msg |-> None] /\ sound = TRUE
-----------------------------------------------------------------------------
\* A client gives an id up when it asks for its release.
Ask(c, kind, id) ==
    /\ id \in IF kind \in {"release", "mux"} THEN uses[c] ELSE {None}
    /\ last' = last + 1
    /\ asked' = asked \cup {[kind |-> kind, from |-> c, n |-> last + 1, id |-> id]}
    /\ uses' = IF kind = "release" THEN [uses EXCEPT ![c] = @ \ {id}] ELSE uses
    /\ Mute

\* No control request that its client asked before is still open.
InTurn(r) == \A q \in asked : q.kind \in Control /\ q.from = r.from => r.n <= q.n

\* A release ends what else was asked with the id.
Ended(r) == {r} \cup {q \in asked : r.kind = "release" /\ q.kind = "mux" /\ q.id = r.id}

AnswerControl(r) ==
    /\ r.kind \in Control /\ InTurn(r)
    /\ asked' = asked \ Ended(r)
    /\ Offer({r.from}, r)
    /\ UNCHANGED last

\* Nobody uses the id that is granted, no request names it, and the client
\* knows of it.
Granted(r, id) ==
    /\ r.kind = "get" /\ told'.to = {r.from}
    /\ \A c \in Clients : id \notin uses[c]
    /\ \A q \in asked : q.id # id
    /\ uses' = [uses EXCEPT ![r.from] = @ \cup {id}]

AnswerMux(r) ==
    /\ r.kind = "mux"
    /\ asked' = asked \ {r}
    /\ \E to \in {{}, {r.from}} :
          Offer(to, r) /\ (r.id \in uses[r.from] => to # {})
    /\ UNCHANGED <<last, uses>>

Answer(r) ==
    \/ AnswerControl(r) /\ (uses' = uses \/ \E id \in Ids : Granted(r, id))
    \/ AnswerMux(r)

\* An indication is offered at least to the clients of its service.
Users(i) == {c \in Clients : \E j \in uses[c] : TypeOf[j] = TypeOf[i]}
Indicate(i) ==
    /\ \E to \in SUBSET Clients : Offer(to, None) /\ Users(i) \subseteq to
    /\ UNCHANGED <<asked, last, uses>>

\* What a client asked may be lost, at the latest when it leaves.
Lose(c) ==
    /\ asked' \subseteq asked /\ \A q \in asked \ asked' : q.from = c
    /\ Mute
    /\ UNCHANGED last

Drop(c)  == Lose(c) /\ UNCHANGED uses
Leave(c) == Lose(c) /\ uses' = [uses EXCEPT ![c] = {}]

Quiet == Mute /\ UNCHANGED <<asked, last, uses>>

Serve ==
    \/ \E c \in Clients :
          \/ Drop(c) \/ Leave(c)
          \/ \E kind \in Control \cup {"mux"}, id \in Ids \cup {None} : Ask(c, kind, id)
    \/ \E r \in asked : Answer(r)
    \/ \E i \in Ids : Indicate(i)
    \/ Quiet

Restart == Fresh' /\ Mute

\* Once it is disturbed, nothing is promised before the restart.
ServiceNext ==
    \/ sound' /\ (Restart \/ (sound /\ Serve))
    \/ ~sound'

ServiceSafety == ServiceInit /\ [][ServiceNext]_serviceVars
=============================================================================
