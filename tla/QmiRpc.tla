------------------------------- MODULE QmiRpc -------------------------------
(***************************************************************************)
(* What QmiThreadSendQMITimeout promises its caller: one request at a time *)
(* is asked; the call ends once, with the answer to that request, with     *)
(* success and no answer (it was given up), with an error or with a        *)
(* timeout; nothing that happens after the call ended changes its outcome. *)
(***************************************************************************)
CONSTANTS Requests, None

VARIABLES busy, asked, ret, answer

rpcVars == <<busy, asked, ret, answer>>

RpcInit == busy = FALSE /\ asked = None /\ ret = "ok" /\ answer = None

\* No request is asked twice in a row.
Ask ==
    /\ ~busy
    /\ busy' = TRUE
    /\ asked' \in Requests /\ asked' # asked
    /\ ret' = "ok" /\ answer' = None

EndOk(a) ==
    /\ busy
    /\ busy' = FALSE
    /\ a \in {asked, None}
    /\ ret' = "ok" /\ answer' = a
    /\ UNCHANGED asked

EndFailed ==
    /\ busy
    /\ busy' = FALSE
    /\ ret' \in {"error", "timeout"}
    /\ UNCHANGED <<asked, answer>>

RpcEnd == EndFailed \/ \E a \in {asked, None} : EndOk(a)

RpcNext == Ask \/ RpcEnd

RpcSafety == RpcInit /\ [][RpcNext]_rpcVars

\* With fairness: every call ends.
RpcSpec == RpcSafety /\ WF_rpcVars(RpcEnd)
=============================================================================
