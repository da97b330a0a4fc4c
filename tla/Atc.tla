--------------------------------- MODULE Atc ---------------------------------
(***************************************************************************)
(* atc.c of quectel-CM 1.6.1 over AtChannel: the hand-shake, the set-up of *)
(* the modem, and the requests of main() as sequences of AT commands. Main *)
(* serves an event by the request it calls for and makes any of the others *)
(* in between (ConnMain has its own order). `step' is the command that the *)
(* main thread waits for, or what it does between two.                     *)
(***************************************************************************)
EXTENDS AtChannel, SequencesExt

CONSTANTS
    Tries,     \* HANDSHAKE_RETRY_COUNT = 8
    Ignored,   \* commands of atc_init whose result is dropped: 5
    Polls,     \* questions after the dial: 15
    MaxNews    \* bound: what happens to the modem by itself

ASSUME AtcAssumption ==
    /\ {Tries, Ignored, Polls} \subseteq Nat \ {0} /\ MaxNews \in Nat
    /\ None \notin Finals \cup {"closed", "timeout", "invalid", "+REG", "+STAT"}

VARIABLES
    step,      \* see above; "idle", and "left" when the session is over
    count,     \* tries of the hand-shake, ignored commands, polls
    asr,       \* asr_style_atc; nothing ever clears it
    goOn,      \* g_donot_exit_when_modem_hangup
    attached,  \* PSAttachedState
    status,    \* IPv4ConnectionStatus: "unknown", "up" or "down"
    modem,     \* the modem, see Modems
    news       \* bounded count

atcVars == <<step, count, asr, goOn, attached, status>>
modemVars == <<modem, news>>
vars == <<chVars, atcVars, modemVars>>

\* Modems of both styles; the contexts a modem lists besides the one of the
\* profile come before it, or after it in one state (trailing). profile: it has one to show.
Modems == [asr : BOOLEAN, trailing : {"none", "down", "up"}, reg : BOOLEAN, nat : BOOLEAN, profile : BOOLEAN,
           bound : BOOLEAN, call : {"off", "coming", "on"}]

\* The commands, by the step that waits for each: how it is sent. Commands
\* whose result is ignored, and those that only report, are one of each kind.
Prefix == [style |-> "+STAT", nat |-> "+NAT", getProfile |-> "+QICSGP",
           status |-> "+STAT", query |-> "+STAT", netdev |-> "+STAT", reg |-> "+REG", address |-> "+ADDR",
           contexts |-> "+CGDCONT", cops |-> "+COPS", active |-> "+CGACT",
           bindings |-> "+CTL", states |-> "+CGACT"]
Multi == {"contexts", "cops", "active", "bindings", "states"}
Plain == {"handshake", "ignored", "setNat", "reboot", "emptyProfile", "setProfile",
          "setContext", "activate", "dial", "hangup", "report"}
Commands == DOMAIN Prefix \cup Plain
Steps == Commands \cup {"start", "pause", "idle", "left"}

Ask(s) ==
    /\ step' = s
    /\ IF s \in Plain THEN Send(s, "no result", None)
       ELSE Send(s, IF s \in Multi THEN "multi" ELSE "single", Prefix[s])

Init ==
    /\ ChInit
    /\ step = "start" /\ count = Tries /\ asr = FALSE /\ goOn = FALSE
    /\ attached = FALSE /\ status = "unknown"
    /\ modem \in {m \in Modems : ~m.bound /\ m.call = "off" /\ ~m.nat /\ (m.asr \/ m.trailing = "none")}
    /\ news = 0
-----------------------------------------------------------------------------
(* The modem. *)

Says(vals) == {<<vals, "ok", modem>>}
Does(m) == {<<<<>>, "ok", m>>}
Refuses == {<<<<>>, "error", modem>>}
\* What a list says of the contexts, in its order.
Listed(v) == Says(IF modem.trailing = "none" THEN <<v>> ELSE <<v, modem.trailing = "up">>)
On == modem.call = "on"

Answers(c) ==
    CASE c = "style" -> IF modem.asr THEN Refuses ELSE Says(<<TRUE>>)
      [] c = "nat" -> Says(<<modem.nat>>) \cup Refuses
      [] c = "setNat" -> Does([modem EXCEPT !.nat = ~@]) \cup Refuses
      [] c = "getProfile" -> IF modem.profile THEN Says(<<TRUE>>) ELSE Does(modem) \cup Refuses
      [] c = "emptyProfile" -> Does([modem EXCEPT !.profile = TRUE]) \cup Refuses
      [] c \in {"contexts", "address"} -> Says(<<On>>) \cup Refuses
      [] c \in {"cops", "reg"} -> Says(<<modem.reg>>)
      [] c \in {"active", "states"} -> Listed(On)
      [] c = "bindings" -> Listed(modem.bound)
      [] c = "activate" -> (IF modem.reg THEN Does([modem EXCEPT !.call = "on"]) ELSE {}) \cup Refuses
      [] c = "dial" ->
            Refuses \cup IF ~modem.reg THEN {}
                         ELSE Does([modem EXCEPT !.bound = TRUE,
                                                 !.call = IF @ = "off" /\ ~modem.asr THEN "coming" ELSE @])
      [] c \in {"status", "query", "netdev"} -> IF On THEN Says(<<TRUE>>) ELSE Refuses
      [] c = "hangup" -> Does([modem EXCEPT !.bound = FALSE, !.call = IF modem.asr THEN @ ELSE "off"])
      [] c \in {"reboot", "setProfile", "setContext"} -> Does(modem) \cup Refuses
      [] OTHER -> Does(modem)

ModemAnswers ==
    /\ sent # <<>> /\ ~busy /\ tty = "up"
    /\ LET s == Head(sent)
           p == IF s.cmd \in Plain THEN None ELSE Prefix[s.cmd]
       IN \E a \in Answers(s.cmd) :
            /\ modem' = a[3]
            /\ lines' = lines \o [i \in DOMAIN a[1] |-> Line("info", p, a[1][i], s.mine)]
                              \o <<Line(a[2], None, FALSE, s.mine)>>
            \* at+cfun=1,1: the modem resets itself
            /\ tty' = IF s.cmd = "reboot" /\ a[2] = "ok" THEN "hung" ELSE tty
    /\ sent' = Tail(sent)
    /\ UNCHANGED <<open, reader, readerClosed, pending, busy, events, spoiled, atcVars, news>>

\* The dialled call is there. The modem need not report that.
Connects ==
    /\ modem.call = "coming" /\ tty = "up" /\ ~busy
    /\ modem' = [modem EXCEPT !.call = "on"]
    /\ UNCHANGED <<chVars, atcVars, news>>

\* The modem finds or loses its network or its call, and reports that; the
\* report reads like a result that nobody defined.
Happens ==
    /\ tty = "up" /\ ~busy /\ news < MaxNews /\ news' = news + 1
    /\ \E v \in BOOLEAN :
        \/ /\ modem' = [modem EXCEPT !.reg = ~@]
           /\ lines' = Append(lines, Line("urc", "+REG", v, FALSE))
        \/ /\ modem.call # "off"
           /\ modem' = [modem EXCEPT !.call = "off", !.bound = FALSE]
           /\ lines' = Append(lines, Line("urc", "+STAT", v, FALSE))
    /\ UNCHANGED <<tty, open, reader, readerClosed, pending, sent, busy, events, spoiled,
                   atcVars>>

\* A message in two lines (+CMT), or the notice of one in a single line (+CMTI).
Message ==
    /\ tty = "up" /\ ~busy /\ news < MaxNews /\ news' = news + 1
    /\ \E two \in BOOLEAN :
        lines' = lines \o <<Line("sms", None, FALSE, FALSE)>>
                       \o IF two THEN <<Line("pdu", None, FALSE, FALSE)>> ELSE <<>>
    /\ UNCHANGED <<tty, open, reader, readerClosed, pending, sent, busy, events, spoiled,
                   atcVars, modem>>

Busy ==
    /\ ~busy /\ tty = "up" /\ news < MaxNews /\ news' = news + 1
    /\ busy' = TRUE
    /\ pending' = IF pending = None THEN None ELSE [pending EXCEPT !.late = TRUE]
    /\ spoiled' = (spoiled \/ step = "pause")
    /\ UNCHANGED <<tty, open, reader, readerClosed, sent, lines, events, atcVars, modem>>

Ready ==
    /\ busy /\ busy' = FALSE
    /\ UNCHANGED <<tty, open, reader, readerClosed, pending, sent, lines, events, spoiled,
                   atcVars, modemVars>>

HangsUp ==
    /\ tty = "up" /\ news < MaxNews /\ news' = news + 1
    /\ tty' = "hung"
    /\ UNCHANGED <<open, reader, readerClosed, pending, sent, lines, busy, events, spoiled,
                   atcVars, modem>>
-----------------------------------------------------------------------------
(* The main thread. *)


\* at_response_error
Bad(r) == r.err # None

\* Neither an answer nor an error of the modem.
Failed(r) == r.err \in {"timeout", "closed", "invalid"}

\* What the first line says.
Value(r) == r.infos # <<>> /\ Head(r.infos)

\* What a list says of our context: the loops look for its line, but every
\* line leaves its own state behind.
State(r) == r.infos # <<>> /\ Last(r.infos)

\* The command of this step returns r.
At(s, r) == step = s /\ r \in Outcomes
Late(r) == spoiled' = (spoiled \/ r.err = "timeout")

Calm == UNCHANGED events
Same == UNCHANGED <<asr, goOn, attached, status>>
Rest(s) == step' = s /\ Drop /\ count' = 0

\* at_handshake. Any final answer to any of the tries will do, also a late one.
Start ==
    /\ step = "start" /\ Ask("handshake") /\ count' = Tries
    /\ UNCHANGED <<spoiled, modemVars>> /\ Calm /\ Same

\* Faulty: no pause, the first command follows at once.
HandshakeHasty(r) ==
    /\ At("handshake", r) /\ UNCHANGED spoiled /\ Same
    /\ \/ ~Failed(r) /\ count' = Ignored /\ Ask("ignored")
       \/ Failed(r) /\ count > 1 /\ count' = count - 1 /\ Ask("handshake")
       \/ Failed(r) /\ count = 1 /\ Rest("left")

Handshake(r) ==
    /\ At("handshake", r) /\ UNCHANGED spoiled /\ Same
    /\ \/ ~Failed(r) /\ Rest("pause")
       \/ Failed(r) /\ count > 1 /\ count' = count - 1 /\ Ask("handshake")
       \/ Failed(r) /\ count = 1 /\ Rest("left")

\* The pause of at_handshake, in which the answers to the other tries arrive
\* from a modem that is not held up.
Pause ==
    /\ step = "pause" /\ (busy \/ tty = "hung" \/ (sent = <<>> /\ lines = <<>>))
    /\ Ask("ignored") /\ count' = Ignored
    /\ spoiled' = (spoiled \/ sent # <<>> \/ lines # <<>>)
    /\ UNCHANGED modemVars /\ Calm /\ Same

\* atc_init: the commands whose result it drops, then the style of the modem.
IgnoredDone(r) ==
    /\ At("ignored", r) /\ Late(r) /\ Same
    /\ \/ count > 1 /\ count' = count - 1 /\ Ask("ignored")
       \/ count = 1 /\ count' = 0 /\ Ask("style")

Style(r) ==
    /\ At("style", r) /\ Ask("nat")
    /\ spoiled' = (spoiled \/ r.err \in {"timeout", "closed"})
    /\ asr' = (asr \/ Bad(r))
    /\ UNCHANGED <<count, goOn, attached, status>>

NatMode(r) ==
    /\ At("nat", r) /\ Late(r) /\ Same
    /\ \/ Failed(r) /\ Rest("left")
       \/ ~Failed(r) /\ (Bad(r) \/ Value(r) = asr) /\ Ask("report") /\ UNCHANGED count
       \/ ~Bad(r) /\ Value(r) # asr /\ Ask("setNat") /\ UNCHANGED count

SetNat(r) ==
    /\ At("setNat", r) /\ Late(r) /\ Same
    /\ Ask(IF Bad(r) THEN "report" ELSE "reboot") /\ UNCHANGED count

Reboot(r) ==
    /\ At("reboot", r) /\ Late(r) /\ Ask("report")
    /\ goOn' = (goOn \/ ~Failed(r))
    /\ UNCHANGED <<count, asr, attached, status>>

\* The requests whose result steers nothing here: version, SIM, identities,
\* signal. Before the loop the profile is next.
Report(r) ==
    /\ At("report", r) /\ Late(r) /\ Same
    /\ IF status = "unknown" THEN Ask("getProfile") /\ UNCHANGED count ELSE Rest("idle")

\* requestGetProfile: a modem without a profile is given an empty one, and
\* asked again, for as long as it takes. The registration comes next, with
\* requestSetProfile before when the user has named a network.
GetProfile(r) ==
    /\ At("getProfile", r) /\ Late(r) /\ Same /\ UNCHANGED count
    /\ \/ r.err = "invalid" /\ Ask("emptyProfile")
       \/ r.err # "invalid" /\ Bad(r) /\ Ask("contexts")
       \/ ~Bad(r) /\ \E s \in {"setProfile", "cops"} : Ask(s)

EmptyProfile(r) ==
    /\ At("emptyProfile", r) /\ Late(r) /\ Same /\ UNCHANGED count
    /\ Ask(IF Bad(r) THEN "contexts" ELSE "getProfile")

Contexts(r) ==
    /\ At("contexts", r) /\ Late(r) /\ Same /\ UNCHANGED count
    /\ Ask("cops")

SetProfile(r) ==
    /\ At("setProfile", r) /\ Late(r) /\ Same /\ UNCHANGED count
    /\ Ask(IF Bad(r) THEN "setContext" ELSE "cops")

SetContext(r) ==
    /\ At("setContext", r) /\ Late(r) /\ Same /\ UNCHANGED count
    /\ Ask("cops")

\* requestRegistrationState: not attached, unless both answers say so.
Cops(r) ==
    /\ At("cops", r) /\ Late(r)
    /\ attached' = FALSE
    /\ IF ~Bad(r) /\ Value(r) THEN Ask("reg") /\ UNCHANGED count ELSE Rest("idle")
    /\ UNCHANGED <<asr, goOn, status>>

Reg(r) ==
    /\ At("reg", r) /\ Late(r) /\ Rest("idle")
    /\ attached' = (~Bad(r) /\ Value(r))
    /\ UNCHANGED <<asr, goOn, status>>

\* requestSetupDataCall is over: an answer that says ERROR counts as success,
\* and requestGetIPAddress decides.
GetIPAddress == Ask(IF asr THEN "address" ELSE "netdev")
DialOver(r) ==
    IF Failed(r) THEN Rest("idle") ELSE GetIPAddress /\ UNCHANGED count

Active(r) ==
    /\ At("active", r) /\ Late(r) /\ Same /\ Calm
    /\ IF Bad(r) THEN DialOver(r)
       ELSE Ask(IF State(r) THEN "dial" ELSE "activate") /\ UNCHANGED count

Activate(r) ==
    /\ At("activate", r) /\ Late(r) /\ Same /\ Calm
    /\ IF Bad(r) THEN DialOver(r) ELSE Ask("dial") /\ UNCHANGED count

Dial(r) ==
    /\ At("dial", r) /\ Late(r) /\ Same
    /\ \/ Bad(r) /\ DialOver(r) /\ Calm
       \/ ~Bad(r) /\ asr /\ GetIPAddress /\ UNCHANGED count /\ events' = events \cup {"calls"}
       \/ ~Bad(r) /\ ~asr /\ Ask("status") /\ count' = Polls /\ Calm

\* Faulty: the questions go on until the modem says yes.
PollForever(r) ==
    /\ At("status", r) /\ Late(r) /\ Same
    /\ \/ Failed(r) /\ Rest("idle") /\ Calm
       \/ r.err = "error" /\ Ask("status") /\ UNCHANGED count /\ Calm
       \/ ~Bad(r) /\ GetIPAddress /\ count' = 0 /\ events' = events \cup {"calls"}

Poll(r) ==
    /\ At("status", r) /\ Late(r) /\ Same
    /\ \/ Failed(r) /\ Rest("idle") /\ Calm
       \/ r.err = "error" /\ count > 1 /\ Ask("status") /\ count' = count - 1 /\ Calm
       \/ /\ ~Bad(r) \/ (r.err = "error" /\ count = 1)
          /\ GetIPAddress /\ count' = 0 /\ events' = events \cup {"calls"}

Address(r) ==
    /\ At("address", r) \/ At("netdev", r)
    /\ Late(r) /\ Rest("idle") /\ Calm
    /\ status' = IF ~Bad(r) /\ Value(r) THEN "up" ELSE "down"
    /\ UNCHANGED <<asr, goOn, attached>>

\* requestQueryDataCall. Main may have to ask for the address as well.
Answered(yes) ==
    /\ status' = IF yes THEN "up" ELSE "down"
    /\ \/ Rest("idle")
       \/ yes /\ GetIPAddress /\ UNCHANGED count
    /\ Calm /\ UNCHANGED <<asr, goOn, attached>>

Query(r) == At("query", r) /\ Late(r) /\ Answered(~Bad(r) /\ Value(r))
States(r) == At("states", r) /\ Late(r) /\ Answered(~Bad(r) /\ State(r))

Bindings(r) ==
    /\ At("bindings", r) /\ Late(r)
    /\ IF ~Bad(r) /\ State(r) THEN Ask("states") /\ Same /\ Calm /\ UNCHANGED count
       ELSE Answered(FALSE)

\* requestDeactivateDefaultPDP; the program ends.
Hangup(r) == At("hangup", r) /\ Late(r) /\ Rest("left") /\ Calm /\ Same

Gets ==
    /\ \E r \in Outcomes :
        \/ /\ \/ Handshake(r) \/ IgnoredDone(r) \/ Style(r) \/ NatMode(r) \/ SetNat(r)
              \/ Reboot(r) \/ Report(r) \/ GetProfile(r) \/ EmptyProfile(r) \/ Contexts(r)
              \/ SetProfile(r) \/ SetContext(r) \/ Cops(r) \/ Reg(r)
           /\ Calm
        \/ Active(r) \/ Activate(r) \/ Dial(r) \/ Poll(r) \/ Address(r)
        \/ Query(r) \/ States(r) \/ Bindings(r) \/ Hangup(r)
    /\ UNCHANGED modemVars

\* The loop of main(): events first, then what signals and time-outs bring.
QueryDataCall == Ask(IF asr THEN "bindings" ELSE "query")

\* Faulty: all events are read and the first one served.
ServeFirst(e) ==
    /\ step = "idle" /\ e \in events /\ events' = {}
    /\ CASE e = "registration" -> Ask("cops")
         [] e = "calls" /\ status # "down" -> QueryDataCall
         [] e = "calls" /\ status = "down" -> Rest("idle")
         [] e = "disconnected" -> Rest("left")
    /\ UNCHANGED <<count, spoiled, modemVars>> /\ Same

Serve(e) ==
    /\ step = "idle" /\ e \in events /\ events' = events \ {e}
    /\ CASE e = "registration" -> Ask("cops")
         [] e = "calls" /\ status # "down" -> QueryDataCall
         [] e = "calls" /\ status = "down" -> Rest("idle")
         [] e = "disconnected" -> Rest("left")
    /\ UNCHANGED <<count, spoiled, modemVars>> /\ Same

Check ==
    /\ step = "idle" /\ events = {} /\ status # "down"
    /\ (QueryDataCall \/ (status = "up" /\ Ask("report")))
    /\ UNCHANGED <<count, spoiled, modemVars>> /\ Calm /\ Same

SetupDataCall ==
    /\ step = "idle" /\ events = {} /\ status = "down" /\ attached
    /\ Ask(IF asr THEN "active" ELSE "dial")
    /\ UNCHANGED <<count, spoiled, modemVars>> /\ Calm /\ Same

\* SIGINT, served when main() rests: it ends the call and does not start again.
\* What the reader does from then on is left out (see MbimCm).
Stop ==
    /\ step = "idle" /\ goOn' = FALSE
    /\ IF status = "up" THEN Ask("hangup") /\ UNCHANGED count ELSE Rest("left")
    /\ UNCHANGED <<asr, attached, status, spoiled, modemVars>> /\ Calm

\* main() starts again. When atc_init has failed nothing has ended the old
\* reader, and the device is opened a second time.
Reopen ==
    /\ step = "left" /\ goOn
    /\ tty = "hung" => ~open /\ reader = "gone"
    /\ step' = "start" /\ count' = Tries
    /\ tty' = "up" /\ open' = TRUE /\ reader' = "reads" /\ readerClosed' = FALSE
    /\ pending' = None /\ sent' = <<>> /\ lines' = <<>> /\ events' = {}
    /\ IF tty = "hung"
       THEN busy' \in BOOLEAN /\ modem' = [modem EXCEPT !.call = "off", !.bound = FALSE]
            /\ UNCHANGED spoiled
       ELSE spoiled' = TRUE /\ UNCHANGED <<busy, modem>>
    /\ status' = "unknown" /\ attached' = FALSE
    /\ UNCHANGED <<asr, goOn, news>>

Channel == (ReadLine \/ ReadSecond \/ ReaderEnds \/ ThreadEnds) /\ UNCHANGED <<atcVars, modemVars>>
Modem == ModemAnswers \/ Connects \/ Happens \/ Message \/ Busy \/ Ready \/ HangsUp
Main == Start \/ Pause \/ Gets \/ (\E e \in Events : Serve(e)) \/ Check \/ SetupDataCall \/ Stop \/ Reopen

Next == Channel \/ Modem \/ Main
Spec == Init /\ [][Next]_vars
FairSpec ==
    /\ Spec
    /\ WF_vars(Channel) /\ WF_vars(ModemAnswers) /\ WF_vars(Ready)
    /\ WF_vars(Start \/ Pause \/ Gets)
    /\ \A e \in Events : WF_vars(Serve(e))
-----------------------------------------------------------------------------
TypeOK ==
    /\ tty \in {"up", "hung"} /\ reader \in {"reads", "pdu", "gone"}
    /\ {open, readerClosed, busy, spoiled, asr, goOn, attached} \subseteq BOOLEAN
    /\ pending = None \/ pending \in
          [type : Types, prefix : Marks, infos : Seq(BOOLEAN), final : Finals \cup {None},
           mine : BOOLEAN, late : BOOLEAN, written : BOOLEAN]
    /\ sent \in Seq([cmd : Commands, mine : BOOLEAN]) /\ lines \in Seq(Lines)
    /\ events \subseteq Events
    /\ step \in Steps /\ (step \in Commands <=> pending # None)
    /\ count \in 0 .. Tries + Ignored + Polls
    /\ status \in {"unknown", "up", "down"}
    /\ modem \in Modems
    /\ news \in 0 .. MaxNews

\* The modem is taken for the kind that lacks AT+QNETDEVSTATUS (which also
\* changes its NAT mode and resets it, for the life of the process) only if it
\* is one, as long as no answer was late: the answers that the tries of the
\* hand-shake leave behind are gone when atc_init starts to ask.
StyleRight == asr => modem.asr \/ spoiled

\* News with this prefix is on its way to main().
Coming(p, e) ==
    \/ e \in events
    \/ \E i \in DOMAIN lines : lines[i].prefix = p

\* When main() rests and has the wrong idea of the registration, or takes a
\* call for up that is not, news of it is on its way: also when a report of the
\* modem was taken for the answer to a question, for then the answer itself
\* counts as news. A call is excepted on a modem whose list ends with another
\* context that is up: requestQueryDataCall keeps the state of the last line.
NewsComes ==
    (step = "idle" /\ tty = "up" /\ ~spoiled) =>
        /\ attached # modem.reg => Coming("+REG", "registration")
        /\ status = "up" /\ ~On /\ ~(modem.asr /\ modem.trailing = "up") =>
               Coming("+STAT", "calls")

\* No request lasts forever, whatever the modem answers or keeps to itself:
\* time-outs, the bounded polls and the closing of the device end it. A late
\* answer is excepted: requestGetProfile then repeats its questions for good.
Returns == step \in Commands ~> spoiled \/ step \in {"idle", "left", "pause"}

\* In the end main() is right about the registration and about a call that it
\* takes for up, whenever it rests.
Settles ==
    <>[](step = "idle" =>
           \/ spoiled \/ tty = "hung"
           \/ /\ attached = modem.reg
              /\ status = "up" => On \/ (modem.asr /\ modem.trailing = "up"))
=============================================================================
