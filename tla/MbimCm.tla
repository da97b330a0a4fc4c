-------------------------------- MODULE MbimCm --------------------------------
(***************************************************************************)
(* mbim-cm.c of quectel-CM 1.6.1: the requests of main() to a modem that   *)
(* speaks MBIM. The main thread sends one request at a time and waits; the *)
(* reader thread hands it the message with the id of that request, and     *)
(* turns indications into events, unless they say what the program has     *)
(* last been told. `step' is the request that main() waits for, or what it *)
(* does between two; main() itself is simplified as in Atc.                *)
(*                                                                         *)
(* Ids of 24 bits do not come round while an answer is late: a message is  *)
(* "mine" when it has the id of the pending request. Time is left out: a   *)
(* modem that is not busy answers within the shortest time-out. A state is *)
(* a BOOLEAN: registered, attached, activated, or any of the others.       *)
(***************************************************************************)
EXTENDS Naturals, Sequences

CONSTANTS
    OpenTries,  \* attempts of mbim_init to open the device: 10
    Setups,     \* requests of mbim_init after that: 3
    MaxNews,    \* bound: what happens to the modem by itself
    MaxLate,    \* bound: requests without an answer
    None

ASSUME MbimCmAssumption ==
    /\ {OpenTries, Setups} \subseteq Nat \ {0} /\ {MaxNews, MaxLate} \subseteq Nat
    /\ None \notin {"closed", "timeout", "not opened", "refused"} /\ None \notin BOOLEAN

Events == {"registration", "calls", "disconnected"}
Topics == {"reg", "ps", "call"}        \* the states the modem reports
Requests == {"open", "setup", "sim", "register", "packet", "attach", "query", "connect",
             "address", "disconnect", "close"}
Steps == Requests \cup {"start", "idle", "left"}

VARIABLES
    device,    \* "up" or "hung"
    reader,    \* the reader thread runs: mbim_fd and s_tid_reader are set
    quit,      \* "no"; "stop": it ends when nothing comes; "now": RIL_REQUEST_QUIT
    pending,   \* mbim_pRequest with mbim_pResponse, or None
    sent,      \* requests the modem has not answered yet
    inbox,     \* messages the reader has not read yet
    busy,      \* the modem is held up
    events,    \* qmidevice_control_fd
    known,     \* old*State: what the program was told last, per topic
    step,
    count,     \* attempts to open, requests of mbim_init
    stopping,  \* SIG_EVENT_STOP: "no", "behind" another signal or event, or "next"
    attached,  \* PSAttachedState
    status,    \* IPv4ConnectionStatus: "unknown", "up" or "down"
    modem,     \* [Topics -> BOOLEAN]: registered, attached, connected
    opened,    \* the modem takes commands
    news,      \* bounded count
    spoiled,   \* an answer was late, or the reader has stopped waiting for more
    missed     \* no news came of what was true after main() had asked for the registration

linkVars == <<device, reader, quit, pending, sent, inbox, busy, events>>
mainVars == <<known, step, count, stopping, attached, status>>
modemVars == <<modem, opened, news>>
ghosts == <<spoiled, missed>>
vars == <<linkVars, mainVars, modemVars, ghosts>>

Init ==
    /\ device = "up" /\ reader = TRUE /\ quit = "no" /\ pending = None
    /\ sent = <<>> /\ inbox = <<>> /\ busy = FALSE /\ events = {}
    /\ known = [t \in Topics |-> None]
    /\ step = "start" /\ count = OpenTries /\ stopping = "no"
    /\ attached = FALSE /\ status = "unknown"
    /\ modem \in {m \in [Topics -> BOOLEAN] : (m.ps => m.reg) /\ (m.call => m.ps)}
    /\ opened = FALSE /\ news = 0 /\ spoiled = FALSE /\ missed = FALSE
-----------------------------------------------------------------------------
(* mbim_send_command *)

NotMine(q) == [i \in DOMAIN q |-> [q[i] EXCEPT !.mine = FALSE]]

\* mbim_pRequest = mbim_pResponse = NULL: what still comes for it is nobody's.
Drop == pending' = None /\ sent' = NotMine(sent) /\ inbox' = NotMine(inbox)

Ask(s) ==
    /\ step' = s
    /\ pending' = [late |-> busy, written |-> reader /\ device = "up", answer |-> None]
    /\ sent' = NotMine(sent) \o IF pending'.written THEN <<[cmd |-> s, mine |-> TRUE]>> ELSE <<>>
    /\ inbox' = NotMine(inbox)

\* The modem has answered, or will within the time-out.
Expected ==
    /\ reader /\ device = "up" /\ ~busy /\ ~pending.late
    /\ \/ \E i \in DOMAIN sent : sent[i].mine
       \/ \E i \in DOMAIN inbox : inbox[i].mine

\* How the request may end: with the answer, or without one when the reader
\* has ended (mbim_recv_command(NULL)) or the time is up.
Lost(err) == [err |-> err, val |-> None]

Outcomes ==
    IF pending = None THEN {}
    ELSE IF pending.answer # None THEN {pending.answer}
    ELSE {Lost("closed") : x \in IF reader /\ pending.written THEN {} ELSE {0}}
         \cup {Lost("timeout") : x \in IF ~pending.written \/ Expected \/ Len(sent) > MaxLate THEN {} ELSE {0}}

At(s, r) == step = s /\ r \in Outcomes
Ok(r) == r.err = None
Idles(s) == step' = s /\ Drop
Rest(s) == Idles(s) /\ count' = 0

\* mbim_update_state
Learns(t, r) == known' = IF Ok(r) THEN [known EXCEPT ![t] = r.val] ELSE known
-----------------------------------------------------------------------------
(* The reader thread. *)

\* The TransactionId is that of the request.
ForPending(m) == pending # None /\ m.kind = "done" /\ m.mine

EventOf(t) == IF t = "call" THEN "calls" ELSE "registration"

\* Faulty: only a state that is gained is news.
IsNewsUp(m) == m.kind = "ind" /\ known[m.topic] # m.val /\ m.val

IsNews(m) == m.kind = "ind" /\ known[m.topic] # m.val

\* The answer that main() is about to take says otherwise.
Misses(m) ==
    /\ m.kind = "ind" /\ ~IsNews(m)
    /\ step \in {"register", "packet", "attach"} /\ pending.answer # None
    /\ pending.answer.val # m.val

\* mbim_recv_command: an indication of a state that the program has been told
\* is no news, also while an answer that says otherwise is on its way to main().
Receive ==
    /\ reader /\ device = "up" /\ inbox # <<>> /\ inbox' = Tail(inbox)
    /\ LET m == Head(inbox)
       IN /\ pending' = IF ForPending(m)
                        THEN [pending EXCEPT !.answer = [err |-> m.err, val |-> m.val]]
                        ELSE pending
          /\ events' = IF IsNews(m) THEN events \cup {EventOf(m.topic)} ELSE events
          /\ missed' = (missed \/ Misses(m))
    /\ UNCHANGED <<device, reader, quit, sent, busy, mainVars, modemVars, spoiled>>

\* The device is gone, main() says so, or a stop is followed by silence.
ReaderEnds ==
    /\ reader
    /\ \/ device = "hung" \/ quit = "now"
       \/ quit = "stop" /\ inbox = <<>> /\ (pending # None => ~Expected)
    /\ reader' = FALSE /\ events' = events \cup {"disconnected"}
    /\ spoiled' = (spoiled \/ quit = "stop")
    /\ UNCHANGED <<device, quit, pending, sent, inbox, busy, mainVars, modemVars, missed>>
-----------------------------------------------------------------------------
(* The modem. *)

Done(s, err, val) == [kind |-> "done", mine |-> s.mine, topic |-> "call", err |-> err, val |-> val]
Ind(t, val) == [kind |-> "ind", mine |-> FALSE, topic |-> t, err |-> None, val |-> val]

\* What it makes of a request: its state and what it says.
Answers(c) ==
    IF c = "open" THEN {<<modem, None, None>>}
    ELSE IF ~opened THEN {<<modem, "not opened", None>>}
    ELSE CASE c \in {"setup", "sim", "close"} -> {<<modem, None, None>>}
           [] c = "register" -> {<<modem, None, modem.reg>>}
           [] c = "packet" -> {<<modem, None, modem.ps>>}
           [] c = "query" -> {<<modem, None, modem.call>>}
           [] c = "attach" ->
                 IF modem.reg THEN {<<[modem EXCEPT !.ps = TRUE], None, TRUE>>, <<modem, None, FALSE>>}
                 ELSE {<<modem, "refused", None>>}
           [] c = "connect" ->
                 (IF modem.ps THEN {<<[modem EXCEPT !.call = TRUE], None, TRUE>>} ELSE {})
                     \cup {<<modem, "refused", None>>}
           [] c = "disconnect" -> {<<[modem EXCEPT !.call = FALSE], None, FALSE>>}
           [] c = "address" -> {<<modem, IF modem.call THEN None ELSE "refused", None>>}

\* It reports what changes, before or after the answer.
Report(t, new) == IF new[t] # modem[t] THEN <<Ind(t, new[t])>> ELSE <<>>
Reports(new) == Report("reg", new) \o Report("ps", new) \o Report("call", new)

ModemAnswers ==
    /\ sent # <<>> /\ ~busy /\ device = "up"
    /\ LET s == Head(sent)
       IN \E a \in Answers(s.cmd) :
            /\ modem' = a[1]
            /\ inbox' \in {inbox \o <<Done(s, a[2], a[3])>> \o Reports(a[1]),
                          inbox \o Reports(a[1]) \o <<Done(s, a[2], a[3])>>}
            /\ opened' = (s.cmd = "open" \/ (opened /\ s.cmd # "close"))
    /\ sent' = Tail(sent)
    /\ UNCHANGED <<device, reader, quit, pending, busy, events, mainVars, news, ghosts>>

\* The network comes and goes, and with it the attachment and the call.
Happens ==
    /\ device = "up" /\ ~busy /\ news < MaxNews /\ news' = news + 1
    /\ \E t \in Topics :
        /\ modem[t] \/ (t = "ps" /\ modem.reg) \/ t = "reg"
        /\ modem' = [u \in Topics |->
                        IF u = t THEN ~modem[t]
                        ELSE modem[u] /\ ~(modem[t] /\ (t = "reg" \/ (t = "ps" /\ u = "call")))]
        /\ inbox' = inbox \o IF opened THEN Reports(modem') ELSE <<>>
    /\ UNCHANGED <<device, reader, quit, pending, sent, busy, events, mainVars, opened, ghosts>>

\* After a suspend and resume the modem wants to be opened again.
Resumes ==
    /\ device = "up" /\ opened /\ news < MaxNews /\ news' = news + 1
    /\ opened' = FALSE /\ modem' = [modem EXCEPT !.call = FALSE]
    /\ UNCHANGED <<linkVars, mainVars, ghosts>>

Busy ==
    /\ ~busy /\ device = "up" /\ news < MaxNews /\ news' = news + 1
    /\ busy' = TRUE
    /\ pending' = IF pending = None THEN None ELSE [pending EXCEPT !.late = TRUE]
    /\ UNCHANGED <<device, reader, quit, sent, inbox, events, mainVars, modem, opened, ghosts>>

Ready ==
    /\ busy /\ busy' = FALSE
    /\ UNCHANGED <<device, reader, quit, pending, sent, inbox, events, mainVars, modemVars, ghosts>>

HangsUp ==
    /\ device = "up" /\ news < MaxNews /\ news' = news + 1
    /\ device' = "hung"
    /\ UNCHANGED <<reader, quit, pending, sent, inbox, busy, events, mainVars, modem, opened, ghosts>>
-----------------------------------------------------------------------------
(* The requests of the main thread. *)

Late(r) == spoiled' = (spoiled \/ r.err = "timeout")

\* mbim_init: only a time-out is tried again.
Start ==
    /\ step = "start" /\ Ask("open") /\ count' = OpenTries
    /\ UNCHANGED <<known, attached, status, events, quit, ghosts>>

\* Faulty: every failure is tried again, without an end.
OpenForever(r) ==
    /\ At("open", r) /\ UNCHANGED <<known, attached, status, events, quit, ghosts>>
    /\ \/ Ok(r) /\ count' = Setups /\ Ask("setup")
       \/ ~Ok(r) /\ UNCHANGED count /\ Ask("open")

Open(r) ==
    /\ At("open", r) /\ UNCHANGED <<known, attached, status, events, quit, ghosts>>
    /\ \/ Ok(r) /\ count' = Setups /\ Ask("setup")
       \/ r.err = "timeout" /\ count > 1 /\ count' = count - 1 /\ Ask("open")
       \/ r.err = "timeout" /\ count = 1 /\ Rest("left")
       \/ r.err \notin {None, "timeout"} /\ Rest("left")

SetUp(r) ==
    /\ At("setup", r) /\ Late(r) /\ UNCHANGED <<known, attached, status, events, quit, missed>>
    /\ \/ Ok(r) /\ count > 1 /\ count' = count - 1 /\ Ask("setup")
       \/ Ok(r) /\ count = 1 /\ count' = 0 /\ Ask("sim")
       \/ ~Ok(r) /\ Rest("left")

\* requestGetSIMStatus; main() goes on whatever it says.
Sim(r) ==
    /\ At("sim", r) /\ Late(r) /\ Ask("register")
    /\ UNCHANGED <<known, count, attached, status, events, quit, missed>>

\* requestRegistrationState: when the modem is registered, and not attached,
\* it is told to attach; the answer to that is not looked at.
Register(r) ==
    /\ At("register", r) /\ Late(r) /\ Learns("reg", r)
    /\ attached' = (Ok(r) /\ r.val)
    /\ IF attached' THEN Ask("packet") /\ UNCHANGED count ELSE Rest("idle")
    /\ UNCHANGED <<status, events, quit, missed>>

Packet(r) ==
    /\ At("packet", r) /\ Late(r) /\ Learns("ps", r)
    /\ attached' = (Ok(r) => r.val)
    /\ IF attached' THEN Rest("idle") ELSE Ask("attach") /\ UNCHANGED count
    /\ UNCHANGED <<status, events, quit, missed>>

Attach(r) ==
    /\ At("attach", r) /\ Late(r) /\ Learns("ps", r) /\ Rest("idle")
    /\ missed' = (missed \/ r.val = TRUE)
    /\ UNCHANGED <<attached, status, events, quit>>

\* requestSetupDataCall, and requestGetIPAddress when it succeeds.
Connect(r) ==
    /\ At("connect", r) /\ Late(r) /\ Learns("call", r)
    /\ IF Ok(r) THEN Ask("address") /\ UNCHANGED count ELSE Rest("idle")
    /\ UNCHANGED <<attached, status, events, quit, missed>>

Address(r) ==
    /\ At("address", r) /\ Late(r) /\ Rest("idle")
    /\ status' = IF Ok(r) THEN "up" ELSE "down"
    /\ UNCHANGED <<known, attached, events, quit, missed>>

\* requestQueryDataCall; main() may have to ask for the address as well.
Query(r) ==
    /\ At("query", r) /\ Late(r) /\ Learns("call", r)
    /\ status' = IF Ok(r) /\ r.val THEN "up" ELSE "down"
    /\ Rest("idle") \/ (status' = "up" /\ Ask("address") /\ UNCHANGED count)
    /\ UNCHANGED <<attached, events, quit, missed>>

\* The end: the call first, then mbim_deinit, then the reader.
Disconnect(r) ==
    /\ At("disconnect", r) /\ Late(r) /\ Learns("call", r)
    /\ Ask("close") /\ UNCHANGED <<count, attached, status, events, quit, missed>>

Close(r) ==
    /\ At("close", r) /\ Late(r) /\ Rest("left") /\ quit' = "now"
    /\ UNCHANGED <<known, attached, status, events, missed>>

Gets ==
    /\ \E r \in Outcomes :
        \/ Open(r) \/ SetUp(r) \/ Sim(r) \/ Register(r) \/ Packet(r) \/ Attach(r) \/ Connect(r)
        \/ Address(r) \/ Query(r) \/ Disconnect(r) \/ Close(r)
    /\ UNCHANGED <<device, reader, busy, stopping, modemVars>>

\* SIGINT: STOP for the main thread, and for the reader, which then ends when
\* nothing comes for a second.
Sigint ==
    /\ stopping = "no" /\ step # "left" /\ stopping' \in {"behind", "next"}
    /\ quit' = IF quit = "no" THEN "stop" ELSE quit
    /\ UNCHANGED <<device, reader, pending, sent, inbox, busy, events,
                   known, step, count, attached, status, modemVars, ghosts>>

\* Faulty: the device is closed with the call in it.
StopCloses ==
    /\ step = "idle" /\ stopping = "next" /\ Ask("close")
    /\ UNCHANGED <<device, reader, quit, busy, events, known, count, stopping, attached, status,
                   modemVars, ghosts>>

\* SIG_EVENT_STOP: only a call that is known to be up is ended.
Stop ==
    /\ step = "idle" /\ stopping = "next"
    /\ Ask(IF status = "up" THEN "disconnect" ELSE "close")
    /\ UNCHANGED <<device, reader, quit, busy, events, known, count, stopping, attached, status,
                   modemVars, ghosts>>

\* Faulty: a CHECK that nobody asked for gets in front of the STOP, again and again.
RoundAgain ==
    /\ step = "idle" /\ stopping # "next" /\ UNCHANGED stopping
    /\ missed' = (missed /\ step' # "register")
    /\ UNCHANGED <<device, reader, quit, busy, known, count, attached, status, modemVars, spoiled>>

\* The loop serves what came before the STOP first.
Round ==
    /\ step = "idle" /\ stopping # "next"
    /\ stopping' = IF stopping = "behind" THEN "next" ELSE "no"
    /\ missed' = (missed /\ step' # "register")
    /\ UNCHANGED <<device, reader, quit, busy, known, count, attached, status, modemVars, spoiled>>

\* Faulty: all events are read and the first one served.
ServeFirst(e) ==
    /\ e \in events /\ events' = {}
    /\ \/ e = "registration" /\ Ask("register") /\ Round
       \/ e = "calls" /\ status # "down" /\ Ask("query") /\ Round
       \/ e = "calls" /\ status = "down" /\ Idles("idle") /\ Round
       \/ e = "disconnected" /\ Idles("left") /\ Round

Serve(e) ==
    /\ e \in events /\ events' = events \ {e}
    /\ \/ e = "registration" /\ Ask("register") /\ Round
       \/ e = "calls" /\ status # "down" /\ Ask("query") /\ Round
       \/ e = "calls" /\ status = "down" /\ Idles("idle") /\ Round
       \/ e = "disconnected" /\ Idles("left") /\ Round

\* CHECK, at first and whenever nothing comes for 15 s.
Check ==
    /\ events = {} /\ UNCHANGED events
    /\ status # "down" /\ Ask("query") /\ Round

SetupDataCall ==
    /\ events = {} /\ UNCHANGED events
    /\ status = "down" /\ attached /\ Ask("connect") /\ Round

Main ==
    \/ Start /\ UNCHANGED <<device, reader, busy, stopping, modemVars>>
    \/ Gets \/ Stop \/ (\E e \in Events : Serve(e)) \/ Check \/ SetupDataCall
Next == Receive \/ ReaderEnds \/ ModemAnswers \/ Happens \/ Resumes \/ Busy \/ Ready \/ HangsUp
        \/ Sigint \/ Main
Spec == Init /\ [][Next]_vars
FairSpec ==
    /\ Spec /\ WF_vars(Receive) /\ WF_vars(ReaderEnds) /\ WF_vars(ModemAnswers) /\ WF_vars(Ready)
    /\ WF_vars(Main)
-----------------------------------------------------------------------------
Messages == [kind : {"done", "ind"}, mine : BOOLEAN, topic : Topics,
             err : {None, "not opened", "refused"}, val : BOOLEAN \cup {None}]

TypeOK ==
    /\ device \in {"up", "hung"} /\ quit \in {"no", "stop", "now"}
    /\ {reader, busy, attached, opened, spoiled, missed} \subseteq BOOLEAN
    /\ step \in Steps /\ (step \in Requests <=> pending # None)
    /\ pending = None \/ (pending.answer = None \/ pending.answer.err \in {None, "not opened", "refused"})
    /\ sent \in Seq([cmd : Requests, mine : BOOLEAN]) /\ inbox \in Seq(Messages)
    /\ events \subseteq Events
    /\ known \in [Topics -> BOOLEAN \cup {None}] /\ modem \in [Topics -> BOOLEAN]
    /\ count \in 0 .. OpenTries + Setups /\ status \in {"unknown", "up", "down"}
    /\ news \in 0 .. MaxNews /\ stopping \in {"no", "behind", "next"}

\* News for main() is on its way.
Coming(e) ==
    \/ e \in events
    \/ \E i \in DOMAIN inbox :
        inbox[i].kind = "ind" /\ EventOf(inbox[i].topic) = e /\ known[inbox[i].topic] # inbox[i].val

AttachedRight == attached = (modem.reg /\ modem.ps)

\* Whenever main() rests and the modem is not what main() takes it for, news is
\* on its way: of a call that is gone always, even after late answers, which
\* are told apart by their ids; of the registration unless an answer was late
\* (the request then failed and nothing repeats it) or mbim_recv_command threw
\* the news away because of the answer that main() had yet to record.
NewsComes ==
    (step = "idle" /\ device = "up" /\ reader /\ opened) =>
        /\ AttachedRight \/ spoiled \/ missed \/ Coming("registration")
        /\ status = "up" => modem.call \/ Coming("calls")

\* SIG_EVENT_STOP leaves no call behind in a modem that answers in time, also
\* when it comes in the middle of a request. Excepted: a call from before, that
\* the program has not asked for yet, and a reader that the silence has ended.
NoCallLeft ==
    (step = "left" /\ quit = "now" /\ device = "up") =>
        ~modem.call \/ spoiled \/ status = "unknown"

\* In the end main() is right about the registration, with the exceptions
\* above, and about a call that it takes for up, without any, as long as the
\* modem stays open: mbim_status_code notes that a resumed modem wants to be
\* opened again (mbim_open_state), and nothing does it.
Settles ==
    <>[](step = "idle" =>
           \/ device = "hung" \/ ~opened \/ ~reader
           \/ /\ AttachedRight \/ spoiled \/ missed
              /\ status = "up" => modem.call)

\* Every request of main() comes to an end, whatever the modem answers or
\* keeps to itself: time-outs, the tries of mbim_init, mbim_recv_command(NULL).
Returns == step \in Requests ~> step \in {"idle", "left"}

\* A SIGINT ends the program.
StopEnds == stopping # "no" ~> step = "left"
=============================================================================
