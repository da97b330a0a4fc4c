------------------------------ MODULE QmiThread ------------------------------
(***************************************************************************)
(* The QMI transaction core of quectel-CM 1.6.1: the main thread issues    *)
(* one request at a time through QmiThreadSendQMITimeout and sleeps on     *)
(* cm_command_cond; the reader thread (QmiWwanThread) reads the modem and  *)
(* hands every message to QmiThreadRecvQMI, which settles the pending      *)
(* transaction or forwards an indication to the main thread through the    *)
(* socketpair qmidevice_control_fd while it holds cm_command_mutex.        *)
(*                                                                         *)
(* A request and the answer to it are the same record: the service, the    *)
(* transaction id the code matches on, and the ordinal n of the request on *)
(* its transaction id counter, which the code does not have and which only *)
(* the properties look at.                                                 *)
(***************************************************************************)
EXTENDS Integers, Sequences, FiniteSets

CONSTANTS
    Services,        \* what a request is addressed to
    CTL,             \* QMUX_TYPE_CTL, the only service with the QCTL counter
    QmiType,         \* [Services -> type on the wire]; WDS_IPV6 goes out as WDS
    ClientId,        \* [Services -> Nat]; 0 is no client id (CTL needs none)
    LateEvent,       \* [Services -> Indications \cup {NoEvent}], see RecvStray
    Indications,     \* the indications that become events of the main thread
    Reset,           \* MODEM_REPORT_RESET_EVENT
    TidMax,          \* [Counters -> last transaction id before the wrap]
    AnswerWindow,    \* [Counters -> calls within which the modem answers]
    NSlices,         \* timedwait slices of one call
    EventCap,        \* events the socketpair to the main thread holds
    MaxCalls,        \* bound: requests composed
    MaxIndications,  \* bound: indications the modem emits
    None, NoEvent

Counters == {"ctl", "mux"}
Counter(s) == IF s = CTL THEN "ctl" ELSE "mux"
Requests == [svc : Services, tid : Nat, n : Nat]
Events == Indications \cup {"connected", "disconnected"}

ASSUME ServicesAssumption ==
    /\ QmiType \in [Services -> Nat]
    /\ CTL \in Services
    /\ \A s \in Services : QmiType[s] = QmiType[CTL] => s = CTL
    /\ ClientId \in [Services -> Nat]
    /\ LateEvent \in [Services -> Indications \cup {NoEvent}]

ASSUME EventsAssumption ==
    /\ Reset \in Indications
    /\ NoEvent \notin Indications
    /\ Indications \cap {"connected", "disconnected"} = {}
    /\ None \notin Requests

\* The modem answers within fewer requests than it takes to reuse an id.
ASSUME WindowAssumption ==
    /\ TidMax \in [Counters -> Nat \ {0}]
    /\ AnswerWindow \in [Counters -> Nat \ {0}]
    /\ \A c \in Counters : AnswerWindow[c] <= TidMax[c]

ASSUME BoundsAssumption ==
    /\ NSlices \in Nat \ {0}
    /\ EventCap \in Nat \ {0}
    /\ MaxCalls \in Nat
    /\ MaxIndications \in Nat

VARIABLES
    mutex,       \* cm_command_mutex: "none" or the thread that holds it
    mainPc,      \* where the main thread is
    req,         \* pRequest of the call under way, or of the last one
    slice,       \* i of pthread_cond_timeout_np, counted in slices
    ret,         \* what the last call returned
    ppResponse,  \* *ppResponse of the last call
    sRequest,    \* s_pRequest
    sResponse,   \* s_pResponse
    live,        \* the requests that are allocated
    tid,         \* the two static TransactionId counters
    sent,        \* how often each was incremented
    modem,       \* requests written whose answer has not been read
    inds,        \* indications emitted
    readerPc,    \* where the reader thread is
    event,       \* the event it is writing to the main thread
    fdOpen,      \* cdc_wdm_fd # -1
    waitQuit,    \* wait_for_request_quit
    signalled,   \* SIGINT or SIGTERM was caught
    toMain,      \* socketpair, reader to main
    toReader     \* socketpair, main to reader (repeats change nothing)

callVars   == <<req, slice, ret, ppResponse>>
txnVars    == <<sRequest, sResponse, live>>
modemVars  == <<tid, sent, modem, inds>>
readerVars == <<readerPc, event, fdOpen, waitQuit>>
vars == <<mutex, mainPc, callVars, txnVars, modemVars, readerVars, signalled,
          toMain, toReader>>

Waiting == {"wait", "timedout", "woken"}
InCall  == {"lock", "send", "write"} \cup Waiting
-----------------------------------------------------------------------------
Init ==
    /\ mutex = "none"
    /\ mainPc = "start"
    /\ req = None /\ slice = 1 /\ ret = "ok" /\ ppResponse = None
    /\ sRequest = None /\ sResponse = None /\ live = {}
    /\ tid = [c \in Counters |-> 0] /\ sent = [c \in Counters |-> 0]
    /\ modem = {} /\ inds = 0
    /\ readerPc = "open" /\ event = NoEvent
    /\ fdOpen = FALSE /\ waitQuit = FALSE /\ signalled = FALSE
    /\ toMain = <<>> /\ toReader = {}
-----------------------------------------------------------------------------
(* The main thread. *)

\* qmi_main goes on only if the reader's first event is "connected".
MainStart ==
    /\ mainPc = "start"
    /\ toMain # <<>>
    /\ mainPc' = IF Head(toMain) = "connected" THEN "idle" ELSE "failed"
    /\ toMain' = Tail(toMain)
    /\ UNCHANGED <<mutex, callVars, txnVars, modemVars, readerVars, signalled,
                   toReader>>

NextTid(c) == IF tid[c] + 1 > TidMax[c] THEN 1 ELSE tid[c] + 1

\* Compose a request; answers that would now be AnswerWindow requests late
\* are no longer expected of the modem.
Call(s) ==
    LET c == Counter(s)
        r == [svc |-> s, tid |-> NextTid(c), n |-> sent[c] + 1]
    IN  /\ mainPc = "idle"
        /\ sent["ctl"] + sent["mux"] < MaxCalls
        /\ tid' = [tid EXCEPT ![c] = NextTid(c)]
        /\ sent' = [sent EXCEPT ![c] = @ + 1]
        /\ modem' = {m \in modem : Counter(m.svc) = c
                                     => sent[c] + 1 - m.n < AnswerWindow[c]}
        /\ req' = r /\ slice' = 1 /\ ret' = "ok" /\ ppResponse' = None
        /\ live' = live \cup {r}
        /\ mainPc' = "lock"
        /\ UNCHANGED <<mutex, sRequest, sResponse, inds, readerVars, signalled,
                       toMain, toReader>>

\* Faulty: s_pResponse is not reset.
SendLockStale ==
    /\ mainPc = "lock"
    /\ mutex = "none"
    /\ mutex' = "main"
    /\ sRequest' = req
    /\ mainPc' = "send"
    /\ UNCHANGED <<callVars, sResponse, live, modemVars, readerVars, signalled,
                   toMain, toReader>>

\* A request that was still pending is overwritten, and stays allocated.
SendLock ==
    /\ mainPc = "lock"
    /\ mutex = "none"
    /\ mutex' = "main"
    /\ sRequest' = req
    /\ sResponse' = None
    /\ mainPc' = "send"
    /\ UNCHANGED <<callVars, live, modemVars, readerVars, signalled, toMain,
                   toReader>>

\* Faulty: the error path returns without the unlock.
ReturnLocked(code) ==
    /\ ret' = code
    /\ mutex' = IF code = "error" THEN mutex ELSE "none"
    /\ mainPc' = "idle"

Return(code) ==
    /\ ret' = code
    /\ mutex' = "none"
    /\ mainPc' = "idle"

\* The checks qmidev_send makes before it polls the device.
CanSend(s) == fdOpen /\ (s # CTL => ClientId[s] # 0)

SendCheck ==
    /\ mainPc = "send"
    /\ IF CanSend(req.svc)
       THEN mainPc' = "write" /\ UNCHANGED <<mutex, ret>>
       ELSE Return("error")
    /\ UNCHANGED <<req, slice, ppResponse, txnVars, modemVars, readerVars,
                   signalled, toMain, toReader>>

\* Faulty: the slices are counted from zero.
BeginWaitAtZero == mainPc' = "wait" /\ mutex' = "none" /\ slice' = 0

BeginWait == mainPc' = "wait" /\ mutex' = "none" /\ slice' = 1

WriteOk ==
    /\ mainPc = "write"
    /\ fdOpen
    /\ modem' = modem \cup {req}
    /\ BeginWait
    /\ UNCHANGED <<req, ret, ppResponse, txnVars, tid, sent, inds, readerVars,
                   signalled, toMain, toReader>>

\* poll() for POLLOUT times out: its 0 is taken for "written".
WriteStalled ==
    /\ mainPc = "write"
    /\ fdOpen
    /\ BeginWait
    /\ UNCHANGED <<req, ret, ppResponse, txnVars, modemVars, readerVars,
                   signalled, toMain, toReader>>

\* A short or failed write, or a descriptor the reader has closed meanwhile.
WriteFails ==
    /\ mainPc = "write"
    /\ Return("error")
    /\ UNCHANGED <<req, slice, ppResponse, txnVars, modemVars, readerVars,
                   signalled, toMain, toReader>>

\* One timedwait ends without a signal: its slice is over, or spuriously.
WaitEnds(pc) ==
    /\ mainPc = "wait"
    /\ mainPc' = pc
    /\ UNCHANGED <<mutex, callVars, txnVars, modemVars, readerVars, signalled,
                   toMain, toReader>>
SliceExpires == WaitEnds("timedout")
SpuriousWake == WaitEnds("woken")

\* Faulty: the slices are not counted.
NextSliceForever ==
    /\ mainPc = "timedout"
    /\ mutex = "none"
    /\ mainPc' = "wait"
    /\ UNCHANGED <<mutex, callVars, txnVars, modemVars, readerVars, signalled,
                   toMain, toReader>>

\* Back from ETIMEDOUT with the mutex: the next slice, or the end of the call.
\* The transaction is not looked at.
NextSlice ==
    /\ mainPc = "timedout"
    /\ mutex = "none"
    /\ IF slice < NSlices
       THEN slice' = slice + 1 /\ mainPc' = "wait" /\ UNCHANGED <<mutex, ret>>
       ELSE slice' = slice /\ Return("timeout")
    /\ UNCHANGED <<req, ppResponse, txnVars, modemVars, readerVars, signalled,
                   toMain, toReader>>

\* Back from a wake-up with the mutex: success, with or without an answer.
Woken ==
    /\ mainPc = "woken"
    /\ mutex = "none"
    /\ ppResponse' = sResponse
    /\ Return("ok")
    /\ UNCHANGED <<req, slice, txnVars, modemVars, readerVars, signalled,
                   toMain, toReader>>

\* The main loop reads an event; a reset or a lost device ends it.
MainEvent ==
    /\ mainPc = "idle"
    /\ toMain # <<>>
    /\ toMain' = Tail(toMain)
    /\ mainPc' = IF Head(toMain) \in {Reset, "disconnected"} THEN "join" ELSE "idle"
    /\ toReader' = IF Head(toMain) = Reset THEN toReader \cup {"quit"} ELSE toReader
    /\ UNCHANGED <<mutex, callVars, txnVars, modemVars, readerVars, signalled>>

\* Faulty: the reader is not told to quit.
MainStopQuietly ==
    /\ mainPc = "idle"
    /\ signalled
    /\ mainPc' = "join"
    /\ UNCHANGED <<mutex, callVars, txnVars, modemVars, readerVars, signalled,
                   toMain, toReader>>

\* The main loop handles SIG_EVENT_STOP (its requests are Calls before this).
MainStop ==
    /\ mainPc = "idle"
    /\ signalled
    /\ toReader' = toReader \cup {"quit"}
    /\ mainPc' = "join"
    /\ UNCHANGED <<mutex, callVars, txnVars, modemVars, readerVars, signalled,
                   toMain>>

MainJoin ==
    /\ mainPc = "join"
    /\ readerPc = "exited"
    /\ mainPc' = "done"
    /\ UNCHANGED <<mutex, callVars, txnVars, modemVars, readerVars, signalled,
                   toMain, toReader>>

\* ql_sigaction, on a stop signal.
Signal ==
    /\ ~signalled
    /\ signalled' = TRUE
    /\ toReader' = toReader \cup {"stop"}
    /\ UNCHANGED <<mutex, mainPc, callVars, txnVars, modemVars, readerVars,
                   toMain>>
-----------------------------------------------------------------------------
(* The reader thread. *)

OpenOk ==
    /\ readerPc = "open"
    /\ fdOpen' = TRUE
    /\ toMain' = Append(toMain, "connected")
    /\ readerPc' = "poll"
    /\ UNCHANGED <<mutex, mainPc, callVars, txnVars, modemVars, event, waitQuit,
                   signalled, toReader>>

OpenFails ==
    /\ readerPc = "open"
    /\ toMain' = Append(toMain, "disconnected")
    /\ readerPc' = "exited"
    /\ UNCHANGED <<mutex, mainPc, callVars, txnVars, modemVars, event, fdOpen,
                   waitQuit, signalled, toReader>>

ReadStop ==
    /\ readerPc = "poll"
    /\ "stop" \in toReader
    /\ toReader' = toReader \ {"stop"}
    /\ waitQuit' = TRUE
    /\ UNCHANGED <<mutex, mainPc, callVars, txnVars, modemVars, readerPc, event,
                   fdOpen, signalled, toMain>>

\* RIL_REQUEST_QUIT.
ReadQuit ==
    /\ readerPc = "poll"
    /\ "quit" \in toReader
    /\ toReader' = toReader \ {"quit"}
    /\ readerPc' = "closing"
    /\ UNCHANGED <<mutex, mainPc, callVars, txnVars, modemVars, event, fdOpen,
                   waitQuit, signalled, toMain>>

\* POLLHUP or POLLNVAL on the device.
Hangup ==
    /\ readerPc = "poll"
    /\ readerPc' = "closing"
    /\ UNCHANGED <<mutex, mainPc, callVars, txnVars, modemVars, event, fdOpen,
                   waitQuit, signalled, toMain, toReader>>

Wake == mainPc' = IF mainPc = "wait" THEN "woken" ELSE mainPc

\* Faulty: the pending request is freed, and stays pending.
CancelDangling ==
    IF sRequest # None
    THEN /\ live' = live \ {sRequest}
         /\ UNCHANGED <<sRequest, sResponse>>
         /\ Wake
    ELSE UNCHANGED <<txnVars, mainPc>>

\* Faulty: nothing is given up.
CancelNothing == UNCHANGED <<txnVars, mainPc>>

\* QmiThreadRecvQMI(NULL): give up the pending transaction.
Cancel ==
    IF sRequest # None
    THEN /\ live' = live \ {sRequest}
         /\ sRequest' = None /\ sResponse' = None
         /\ Wake
    ELSE UNCHANGED <<txnVars, mainPc>>

\* After a stop, a poll() that times out gives up the pending transaction.
PollTimeout ==
    /\ readerPc = "poll"
    /\ waitQuit
    /\ mutex = "none"
    /\ Cancel
    /\ UNCHANGED <<mutex, callVars, modemVars, readerVars, signalled, toMain,
                   toReader>>

\* Faulty: the transaction id is not compared.
IsResponseAnyTid(rq, rs) ==
    /\ QmiType[rq.svc] = QmiType[rs.svc]
    /\ ClientId[rq.svc] = ClientId[rs.svc]

IsResponse(rq, rs) ==
    /\ QmiType[rq.svc] = QmiType[rs.svc]
    /\ ClientId[rq.svc] = ClientId[rs.svc]
    /\ rq.tid = rs.tid

Matches(r) == sRequest # None /\ IsResponse(sRequest, r)

\* QmiThreadRecvQMI on the answer to the pending request.
RecvAnswer(r) ==
    /\ readerPc = "poll"
    /\ mutex = "none"
    /\ Matches(r)
    /\ modem' = modem \ {r}
    /\ live' = live \ {sRequest}
    /\ sRequest' = None
    /\ sResponse' = r
    /\ Wake
    /\ UNCHANGED <<mutex, callVars, tid, sent, inds, readerVars, signalled,
                   toMain, toReader>>

\* ... on an answer nobody waits for any more. The branches for indications
\* look at the message id and not at the control flags, and the answer to
\* GET_PKT_SRVC_STATUS, GET_SERVING_SYSTEM, GET_SYS_INFO and
\* SET_LOOPBACK_CONFIG has the id of the indication: it becomes its event.
RecvStray(r) ==
    /\ readerPc = "poll"
    /\ mutex = "none"
    /\ ~Matches(r)
    /\ modem' = modem \ {r}
    /\ IF LateEvent[r.svc] # NoEvent
       THEN /\ event' = LateEvent[r.svc]
            /\ mutex' = "reader" /\ readerPc' = "notify"
       ELSE UNCHANGED <<event, mutex, readerPc>>
    /\ UNCHANGED <<mainPc, callVars, txnVars, tid, sent, inds, fdOpen, waitQuit,
                   signalled, toMain, toReader>>

\* A message whose length is not the one its header gives is dropped.
Discard(r) ==
    /\ readerPc = "poll"
    /\ modem' = modem \ {r}
    /\ UNCHANGED <<mutex, mainPc, callVars, txnVars, tid, sent, inds, readerVars,
                   signalled, toMain, toReader>>

\* ... on an indication.
RecvIndication(i) ==
    /\ readerPc = "poll"
    /\ mutex = "none"
    /\ inds < MaxIndications
    /\ inds' = inds + 1
    /\ event' = i
    /\ mutex' = "reader" /\ readerPc' = "notify"
    /\ UNCHANGED <<mainPc, callVars, txnVars, tid, sent, modem, fdOpen, waitQuit,
                   signalled, toMain, toReader>>

\* qmidevice_send_event_to_main, under the mutex; write() blocks when full.
Notify ==
    /\ readerPc = "notify"
    /\ Len(toMain) < EventCap
    /\ toMain' = Append(toMain, event)
    /\ event' = NoEvent
    /\ mutex' = "none" /\ readerPc' = "poll"
    /\ UNCHANGED <<mainPc, callVars, txnVars, modemVars, fdOpen, waitQuit,
                   signalled, toReader>>

\* __QmiWwanThread_quit: close, tell the main thread, release it.
Close ==
    /\ readerPc = "closing"
    /\ fdOpen' = FALSE
    /\ readerPc' = "bye"
    /\ UNCHANGED <<mutex, mainPc, callVars, txnVars, modemVars, event, waitQuit,
                   signalled, toMain, toReader>>

Bye ==
    /\ readerPc = "bye"
    /\ Len(toMain) < EventCap
    /\ toMain' = Append(toMain, "disconnected")
    /\ readerPc' = "cancel"
    /\ UNCHANGED <<mutex, mainPc, callVars, txnVars, modemVars, event, fdOpen,
                   waitQuit, signalled, toReader>>

Exit ==
    /\ readerPc = "cancel"
    /\ mutex = "none"
    /\ Cancel
    /\ readerPc' = "exited"
    /\ UNCHANGED <<mutex, callVars, modemVars, event, fdOpen, waitQuit,
                   signalled, toMain, toReader>>
-----------------------------------------------------------------------------
MainStep ==
    \/ MainStart \/ SendLock \/ SendCheck \/ WriteOk \/ WriteStalled
    \/ WriteFails \/ SliceExpires \/ NextSlice \/ Woken \/ MainEvent
    \/ MainStop \/ MainJoin

\* What the reader does of itself, whatever the modem does.
ReaderStep ==
    OpenOk \/ OpenFails \/ ReadStop \/ ReadQuit \/ Notify \/ Close \/ Bye \/ Exit

ReceiveStep ==
    \/ \E r \in modem : RecvAnswer(r) \/ RecvStray(r) \/ Discard(r)
    \/ \E i \in Indications : RecvIndication(i)

Terminated == mainPc \in {"done", "failed"} /\ UNCHANGED vars

Next ==
    \/ MainStep \/ SpuriousWake
    \/ \E s \in Services : Call(s)
    \/ Signal
    \/ ReaderStep \/ Hangup \/ PollTimeout \/ ReceiveStep
    \/ Terminated

Spec == Init /\ [][Next]_vars

\* The two threads run; waits end, by a signal or by the clock; after a stop
\* the reader serves its control descriptor and its poll() times out in the
\* end. Nothing is assumed of the modem.
Fairness ==
    /\ WF_vars(MainStep)
    /\ WF_vars(MainStop)
    /\ WF_vars(ReadQuit)
    /\ WF_vars(ReaderStep)

FairSpec == Spec /\ Fairness
-----------------------------------------------------------------------------
(* What must hold. *)

MainTypeOK ==
    /\ mutex \in {"none", "main", "reader"}
    /\ mainPc \in {"start", "idle", "join", "done", "failed"} \cup InCall
    /\ req \in Requests \cup {None}
    /\ slice \in 1 .. NSlices
    /\ ret \in {"ok", "error", "timeout"}
    /\ ppResponse \in Requests \cup {None}

TxnTypeOK ==
    /\ sRequest \in Requests \cup {None}
    /\ sResponse \in Requests \cup {None}
    /\ live \subseteq Requests

ModemTypeOK ==
    /\ tid \in [Counters -> Nat] /\ sent \in [Counters -> Nat]
    /\ modem \subseteq Requests
    /\ inds \in Nat

ReaderTypeOK ==
    /\ readerPc \in {"open", "poll", "notify", "closing", "bye", "cancel", "exited"}
    /\ event \in Indications \cup {NoEvent}
    /\ fdOpen \in BOOLEAN /\ waitQuit \in BOOLEAN /\ signalled \in BOOLEAN

SocketTypeOK == toMain \in Seq(Events) /\ toReader \subseteq {"stop", "quit"}

TypeOK == MainTypeOK /\ TxnTypeOK /\ ModemTypeOK /\ ReaderTypeOK /\ SocketTypeOK

\* A caller is never handed the answer to an earlier request, however late
\* that answer comes and whatever it finds pending (is_response, and the two
\* resets in QmiThreadSendQMITimeout).
AnswerIsOwn == ppResponse # None => ppResponse = req

\* The reader never frees a request twice, and a caller that got its answer
\* does not leave its request allocated (the frees in QmiThreadRecvQMI).
HeapDiscipline ==
    /\ sRequest # None => sRequest \in live
    /\ ppResponse # None => ppResponse \notin live

\* No call outlives the reader with its transaction still pending: the
\* descriptor is checked under the mutex but closed outside it, and the final
\* QmiThreadRecvQMI(NULL) catches the call that slipped in between.
NoOrphanedCall ==
    readerPc = "exited" /\ mainPc \in Waiting => sRequest = None

\* A thread that sleeps until the other does something: the main thread in
\* pthread_mutex_lock, with its wait over or not begun, or in pthread_join; the
\* reader in pthread_mutex_lock, in write(), or in poll() with nothing to read
\* from the main thread.
MainBlocked ==
    \/ mainPc \in {"lock", "timedout", "woken"} /\ mutex # "none"
    \/ mainPc = "join" /\ readerPc # "exited"
ReaderBlocked ==
    \/ readerPc = "cancel" /\ mutex # "none"
    \/ readerPc \in {"notify", "bye"} /\ Len(toMain) >= EventCap
    \/ readerPc = "poll" /\ toReader = {}
    \/ readerPc = "exited"

\* The threads block each other for good only if the socketpair to the main
\* thread is full, so that the reader sleeps in write(), perhaps with
\* cm_command_mutex, which the main thread needs before it can read again. No
\* lock is left taken, and nobody joins a reader that was not told to quit.
StuckOnlyWhenFull == MainBlocked /\ ReaderBlocked => Len(toMain) >= EventCap

\* After SIGINT or SIGTERM the process comes to its end, whatever the modem
\* answers or withholds (ql_sigaction, wait_for_request_quit, RIL_REQUEST_QUIT).
StopEndsProcess == signalled ~> mainPc \in {"done", "failed"}

\* The call as its caller sees it.
Rpc == INSTANCE QmiRpc WITH busy <- mainPc \in InCall, asked <- req,
                            answer <- ppResponse
RpcSafety == Rpc!RpcSafety
RpcSpec == Rpc!RpcSpec

\* QmiWwanThread ends with QmiThreadRecvQMI(NULL) because the "main thread may
\* pending on QmiThreadSendQMI()": once the reader is gone no call sleeps on.
ExitReleasesCaller == readerPc = "exited" => mainPc # "wait"
=============================================================================
