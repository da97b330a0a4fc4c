----------------------------- MODULE MbimService -----------------------------
(***************************************************************************)
(* What quectel-mbim-proxy promises the clients that share the device: a   *)
(* request is answered at most once, under the transaction id its client   *)
(* chose, and to that client as long as it is served; an indication is     *)
(* offered to every client that is served. A client that does not take in  *)
(* time what it is offered misses it. Requests may be lost, without a      *)
(* word, and a restart loses them all. The answer to a client that has     *)
(* left may go to another one.                                             *)
(***************************************************************************)
EXTENDS Integers

CONSTANTS Conns, Tids, Kinds, None

VARIABLES
    asked,     \* requests that may still be answered
    last,      \* number of the last request
    served,    \* connections that are served
    told       \* what the last step offered to clients: who took it, and who
               \*  was too slow

serviceVars == <<asked, last, served, told>>

\* Some of those it is meant for do not take it.
Offer(to, r, tid) ==
    \E slow \in SUBSET to :
       told' = [to |-> to \ slow, slow |-> slow, req |-> r, tid |-> tid]
Mute == Offer({}, None, 0)

ServiceInit ==
    /\ asked = {} /\ last = 0 /\ served = {}
    /\ told = [to |-> {}, slow |-> {}, req |-> None, tid |-> 0]
-----------------------------------------------------------------------------
Ask(c, tid, kind) ==
    /\ last' = last + 1
    /\ asked' = asked \cup {[from |-> c, tid |-> tid, kind |-> kind, n |-> last + 1]}
    /\ Mute
    /\ UNCHANGED served

\* Only what c asked is lost, at the latest when it leaves.
Lose(c) == asked' \subseteq asked /\ \A q \in asked \ asked' : q.from = c

Drop(c)  == Lose(c) /\ Mute /\ UNCHANGED <<last, served>>
Join(c)  == served' = served \cup {c} /\ Mute /\ UNCHANGED <<asked, last>>
Leave(c) == Lose(c) /\ served' = served \ {c} /\ Mute /\ UNCHANGED last

\* To nobody else while its client is served; with it the client may lose others.
Answer(r) ==
    /\ Lose(r.from) /\ r \notin asked'
    /\ \E to \in {{}} \cup {{c} : c \in served} :
          Offer(to, r, r.tid) /\ (r.from \in served => to = {r.from})
    /\ UNCHANGED <<last, served>>

Indicate == Offer(served, None, 0) /\ UNCHANGED <<asked, last, served>>

Quiet == Mute /\ UNCHANGED <<asked, last, served>>

Restart == asked' = {} /\ served' = {} /\ Mute /\ UNCHANGED last

ServiceNext ==
    \/ \E c \in Conns :
          \/ Drop(c) \/ Join(c) \/ Leave(c)
          \/ \E tid \in Tids, kind \in Kinds : Ask(c, tid, kind)
    \/ \E r \in asked : Answer(r)
    \/ Indicate \/ Quiet \/ Restart

ServiceSafety == ServiceInit /\ [][ServiceNext]_serviceVars
=============================================================================
