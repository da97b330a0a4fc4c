------------------------------- MODULE ConnMain -------------------------------
(***************************************************************************)
(* main() and qmi_main() of quectel-CM 1.6.1 with the QMI request          *)
(* operations: the loop that keeps the data calls up. It reads signals     *)
(* (START, CHECK, STOP) from one pipe and the events of the QMI thread     *)
(* from another, and it starts again when the modem was reset.             *)
(*                                                                         *)
(* A handler is one step; its requests to the modem succeed, are lost      *)
(* (no answer, or an error) or return early with neither an answer nor an  *)
(* error because SIGINT woke the caller. Time passes in Tick, in units     *)
(* that BackOff and Settle are given in.                                   *)
(***************************************************************************)
EXTENDS Integers, Sequences, SequencesExt

CONSTANTS
    Enabled,      \* the families asked for: enable_ipv4, enable_ipv6
    Addrs,        \* addresses the network assigns
    BackOff,      \* allow_time: the waits after failed dials
    Settle,       \* the wait after a change of the call list
    PollTime,     \* how long poll() waits
    MaxNews,      \* bound: changes of the modem by itself
    MaxFaults     \* bound: handlers one of whose requests is lost

Families == {4, 6}
NoAddr == 0
Unset == {-1}
Signals == {"start", "check", "stop"}
Events  == {"registration", "calls", "reset", "disconnected"}
Waits == {BackOff[i] : i \in DOMAIN BackOff} \cup {Settle}

ASSUME ConnAssumption ==
    /\ Enabled \subseteq Families /\ Enabled # {}
    /\ Addrs \subseteq Nat \ {NoAddr}
    /\ BackOff \in Seq(Nat \ {0}) /\ BackOff # <<>> /\ Settle \in Nat \ {0}
    /\ PollTime \in Nat \ {0}
    /\ MaxNews \in Nat /\ MaxFaults \in Nat

VARIABLES
    stage,        \* where main() is: "detect", "init", "poll", "serve",
                  \* "quit" (__main_quit), "again" (the end of its loop), "exited"
    ready,        \* descriptors of this round of poll() still to be served
    goOn,         \* g_donot_exit_when_modem_hangup
    signals,      \* signal_control_fd
    toMain,       \* qmidevice_control_fd, from the QMI thread
    attached,     \* PSAttachedState = 1
    status,       \* [Families -> "unknown", "down" or "up"]: IPv*ConnectionStatus
    fail,         \* SetupCallFail, up to the length of BackOff
    allowIn,      \* SetupCallAllowTime, from now
    alarmIn,      \* time to SIGALRM; 0: none
    idle,         \* time poll() still waits
    handle,       \* [Families -> BOOLEAN]: WdsConnectionIPv*Handle is not 0
    addr,         \* [Families -> address in profile->ipv*]
    link,         \* s_link as a set of families, or Unset
    conf,         \* [Families -> address the interface was given]
    reg,          \* the modem is attached to the network
    call,         \* [Families -> address of the modem's call, or NoAddr]
    news, faults, \* bounded counts
    dialled,      \* families the last step dialled
    asked,        \* SIGINT was sent
    stopped,      \* this process has handled STOP
    trouble       \* a request failed in a way that loses track of a call

loopVars == <<stage, ready, goOn, signals, toMain>>
timeVars == <<allowIn, alarmIn, idle>>
callVars == <<status, handle, addr, call, trouble>>
linkVars == <<link, conf>>
vars == <<loopVars, timeVars, callVars, linkVars, attached, fail, reg, news,
          faults, dialled, asked, stopped>>

Down == {f \in Enabled : status[f] = "down"}
Up(s) == {f \in Families : s[f] = "up"}
NoDial == dialled' = {}
Open == stage \in {"init", "poll", "serve", "quit"}   \* the pipes exist
Unaddressed == [f \in Families |-> NoAddr]
-----------------------------------------------------------------------------
Init ==
    /\ stage = "detect" /\ ready = {} /\ goOn = FALSE
    /\ signals = <<>> /\ toMain = <<>>
    /\ attached = FALSE /\ status = [f \in Families |-> "unknown"]
    /\ fail = 0 /\ allowIn = 0 /\ alarmIn = 0 /\ idle = 0
    /\ handle = [f \in Families |-> FALSE]
    /\ addr = Unaddressed /\ conf = Unaddressed /\ link = Unset
    /\ reg \in BOOLEAN /\ call = Unaddressed
    /\ news = 0 /\ faults = 0
    /\ dialled = {} /\ asked = FALSE /\ stopped = FALSE
    /\ trouble = FALSE
-----------------------------------------------------------------------------
(* The requests to the modem. A call is the record of one family; clean is  *)
(* false once the program may have lost track of it.                        *)

Gone == "reset" \in Range(toMain) \/ "disconnected" \in Range(toMain)

Outcomes ==
    (IF Gone THEN {} ELSE {"ok"})
        \cup (IF Gone \/ faults < MaxFaults THEN {"lost"} ELSE {})
        \cup (IF "stop" \in Range(signals) THEN {"woken"} ELSE {})

Call(f) == [status |-> status[f], handle |-> handle[f], addr |-> addr[f],
            call |-> call[f], clean |-> TRUE]

\* requestGetIPAddress: clears the address; nothing is asked without a handle.
GetIPAddress(s) ==
    IF ~s.handle
    THEN {[ok |-> TRUE, to |-> [s EXCEPT !.addr = NoAddr]]}
    ELSE {CASE o = "ok" /\ s.call # NoAddr ->
                 [ok |-> TRUE, to |-> [s EXCEPT !.addr = s.call]]
            [] o = "woken" ->
                 [ok |-> TRUE, to |-> [s EXCEPT !.addr = NoAddr, !.clean = FALSE]]
            [] OTHER ->
                 [ok |-> FALSE, to |-> [s EXCEPT !.addr = NoAddr, !.clean = FALSE]]
          : o \in Outcomes}

\* The calls a request may set up.
Established(s) ==
    {[s EXCEPT !.call = a] : a \in IF s.call = NoAddr THEN Addrs ELSE {s.call}}

\* The modem may set a call up although its answer is lost.
Unheard(s) ==
    {[t EXCEPT !.clean = FALSE]
        : t \in IF Gone THEN {s} ELSE Established(s) \cup {s}}

\* requestSetupDataCall; the second attempt with the other authentication is
\* one of the same kind.
SetupDataCall(s) ==
    UNION {CASE o = "ok" ->
                  {[ok |-> TRUE, to |-> [t EXCEPT !.handle = TRUE]]
                      : t \in Established(s)}
                  \cup {[ok |-> FALSE, to |-> s]}
             [] o = "lost"  -> {[ok |-> FALSE, to |-> t] : t \in Unheard(s)}
             [] o = "woken" -> {[ok |-> TRUE, to |-> t] : t \in Unheard(s)}
           : o \in Outcomes}

\* requestDeactivateDefaultPDP
Deactivate(s) ==
    IF ~s.handle THEN {s}
    ELSE UNION {CASE o = "ok"   -> {[s EXCEPT !.handle = FALSE, !.call = NoAddr]}
                  [] o = "lost" -> {[s EXCEPT !.clean = FALSE]}
                  [] OTHER      -> {[s EXCEPT !.call = a, !.clean = FALSE]
                                       : a \in {s.call, NoAddr}}
                : o \in Outcomes}

\* requestQueryDataCall: the modem may want the call to be set up anew
\* (ReconfigReqd), which counts as disconnected.
QueryDataCall(s) ==
    UNION {CASE o = "ok" ->
                  IF s.call = NoAddr
                  THEN {[ok |-> TRUE,
                         to |-> [s EXCEPT !.status = "down", !.handle = FALSE]]}
                  ELSE {[ok |-> TRUE, to |-> [s EXCEPT !.status = "up"]],
                        [ok |-> TRUE,
                         to |-> [s EXCEPT !.status = "down", !.handle = FALSE,
                                          !.clean = FALSE]]}
             [] o = "lost" -> {[ok |-> FALSE, to |-> s]}
             [] OTHER      -> {[ok |-> TRUE, to |-> s]}
           : o \in Outcomes}

Lost(s) == [s EXCEPT !.status = "down", !.clean = FALSE]

\* Faulty: the address is not compared.
SameAddressUnchecked(s) == {s}

\* check_ipv4_address, and what SIG_EVENT_CHECK does when it fails: hang up.
SameAddress(s) ==
    UNION {IF g.ok /\ g.to.addr = s.addr THEN {s}
           ELSE {[t EXCEPT !.status = "down"] : t \in Deactivate(g.to)}
           : g \in GetIPAddress(s)}

\* A call already there when the program starts has no address in the profile.
Addressed(s) ==
    IF s.addr # NoAddr THEN SameAddress(s)
    ELSE UNION {IF g.ok THEN SameAddress(g.to) ELSE {Lost(g.to)}
                : g \in GetIPAddress(s)}

\* What SIG_EVENT_CHECK makes of a family.
Checked(f) ==
    IF f \notin Enabled \/ status[f] = "down"
    THEN {[Call(f) EXCEPT !.status = "down"]}
    ELSE IF f = 6 THEN {q.to : q \in QueryDataCall(Call(f))}
    ELSE UNION {IF ~q.ok THEN {Lost(q.to)}
                ELSE IF q.to.status # "up" THEN {q.to} ELSE Addressed(q.to)
                : q \in QueryDataCall(Call(f))}

\* What SIG_EVENT_START makes of it.
Dialled(f) ==
    IF f \notin Enabled \/ status[f] = "up" THEN {Call(f)}
    ELSE UNION {IF ~d.ok THEN {d.to}
                ELSE {IF g.ok THEN [g.to EXCEPT !.status = "up"] ELSE g.to
                      : g \in GetIPAddress(d.to)}
                : d \in SetupDataCall(Call(f))}

\* Faulty: IPv6 is forgotten.
HungUpV4Only(f) ==
    IF f # 4 \/ f \notin Enabled \/ status[f] # "up" THEN {Call(f)}
    ELSE Deactivate(Call(f))

\* What SIG_EVENT_STOP makes of it.
HungUp(f) ==
    IF f \notin Enabled \/ status[f] # "up" THEN {Call(f)} ELSE Deactivate(Call(f))

\* The new state of both calls; a handler with a failed request is one fault.
SetCalls(r) ==
    /\ status' = [f \in Families |-> r[f].status]
    /\ handle' = [f \in Families |-> r[f].handle]
    /\ call'   = [f \in Families |-> r[f].call]
    /\ trouble' = (trouble \/ \E f \in Families : ~r[f].clean)
    /\ faults' = IF ~Gone /\ faults < MaxFaults /\ \E f \in Families : ~r[f].clean
                 THEN faults + 1 ELSE faults

Both(v4, v6) == {[f \in Families |-> IF f = 4 THEN r4 ELSE r6] : r4 \in v4, r6 \in v6}
-----------------------------------------------------------------------------
\* usbnet_link_change; a is the families' addresses before it.
LinkChange(l, a) ==
    IF link = l
    THEN addr' = a /\ UNCHANGED linkVars
    ELSE /\ link' = l
         /\ addr' = [f \in Families |-> IF f \in l THEN a[f] ELSE NoAddr]
         /\ conf' = addr'

-----------------------------------------------------------------------------
(* main(): detection, start-up, and the end of a run. *)

\* socketpair() and the variables of qmi_main.
Detect ==
    /\ stage = "detect" /\ stage' = "init"
    /\ signals' = <<>> /\ toMain' = <<>> /\ ready' = {}
    /\ attached' = FALSE /\ status' = [f \in Families |-> "unknown"]
    /\ fail' = 0 /\ allowIn' = 0
    /\ trouble' = FALSE
    /\ NoDial
    /\ UNCHANGED <<goOn, alarmIn, idle, handle, addr, call, linkVars, reg, news,
                   faults, asked, stopped>>

DetectFails ==
    /\ stage = "detect" /\ stage' = "again"
    /\ NoDial
    /\ UNCHANGED <<ready, goOn, signals, toMain, timeVars, callVars, linkVars,
                   attached, fail, reg, news, faults, asked, stopped>>

\* The QMI thread is up; the registration is asked for; the first CHECK.
StartUp ==
    /\ stage = "init" /\ stage' = "poll"
    /\ attached' \in {reg /\ o = "ok" : o \in Outcomes}
    /\ signals' = Append(signals, "check")
    /\ idle' = PollTime
    /\ NoDial
    /\ UNCHANGED <<ready, goOn, toMain, allowIn, alarmIn, callVars,
                   linkVars, fail, reg, news, faults, asked, stopped>>

\* An early return of qmi_main.
StartUpFails ==
    /\ stage = "init" /\ stage' = "again"
    /\ NoDial
    /\ UNCHANGED <<ready, goOn, signals, toMain, timeVars, callVars, linkVars,
                   attached, fail, reg, news, faults, asked, stopped>>

\* Faulty: the network card is left as it is.
QuitKeepsLink ==
    /\ stage = "quit" /\ stage' = "again"
    /\ NoDial
    /\ UNCHANGED <<ready, goOn, signals, toMain, timeVars, callVars, linkVars,
                   attached, fail, reg, news, faults, asked, stopped>>

\* __main_quit
Quit ==
    /\ stage = "quit" /\ stage' = "again"
    /\ LinkChange({}, addr)
    /\ NoDial
    /\ UNCHANGED <<ready, goOn, signals, toMain, timeVars, status, handle, call,
                   trouble, attached, fail, reg, news, faults, asked, stopped>>

Again ==
    /\ stage = "again" /\ stage' = IF goOn THEN "detect" ELSE "exited"
    /\ NoDial
    /\ UNCHANGED <<ready, goOn, signals, toMain, timeVars, callVars, linkVars,
                   attached, fail, reg, news, faults, asked, stopped>>
-----------------------------------------------------------------------------
(* The loop. *)

Poll ==
    /\ stage = "poll"
    /\ ready' = {d \in {"signal", "device"} :
                   IF d = "signal" THEN signals # <<>> ELSE toMain # <<>>}
    /\ ready' # {}
    /\ stage' = "serve"
    /\ NoDial
    /\ UNCHANGED <<goOn, signals, toMain, timeVars, callVars, linkVars,
                   attached, fail, reg, news, faults, asked, stopped>>

\* poll() times out.
Idle == stage = "poll" /\ signals = <<>> /\ toMain = <<>> /\ idle = 0

IdlePoll ==
    /\ Idle
    /\ signals' = <<"check">>
    /\ idle' = PollTime
    /\ NoDial
    /\ UNCHANGED <<stage, ready, goOn, toMain, allowIn, alarmIn,
                   callVars, linkVars, attached, fail, reg, news, faults, asked,
                   stopped>>

Served(d) ==
    /\ ready' = ready \ {d}
    /\ stage' = IF ready' = {} THEN "poll" ELSE "serve"
    /\ idle' = PollTime

\* Every signal read turns the alarm off.
ReadSignal(s) == stage = "serve" /\ "signal" \in ready /\ Head(signals) = s

\* Faulty: one comparison too many.
TooEarlyOrNow == allowIn >= 0

TooEarly == allowIn > 0

\* SIG_EVENT_START when the network or the backoff does not allow a dial. The
\* clock is read twice, and alarm(0) turns the alarm off.
StartLater ==
    /\ ReadSignal("start") /\ (~attached \/ TooEarly)
    /\ signals' = Tail(signals)
    /\ IF ~attached
       THEN alarmIn' = 0 /\ UNCHANGED allowIn
       ELSE \E passed \in {0, 1} :
               /\ allowIn' = allowIn - passed /\ alarmIn' = allowIn'
    /\ Served("signal")
    /\ NoDial
    /\ UNCHANGED <<goOn, toMain, callVars, linkVars, attached, fail, reg, news,
                   faults, asked, stopped>>

\* The wait after the n-th failure in a row; the last one stays.
Wait(n) == BackOff[IF n < Len(BackOff) THEN n + 1 ELSE n]

\* Faulty: the retry is left to the next START.
RetryAlarmNever == 0

RetryAlarm == Wait(fail)

\* When to dial again.
Schedule ==
    IF \E f \in Enabled : status'[f] = "down"
    THEN /\ fail' = IF fail < Len(BackOff) THEN fail + 1 ELSE fail
         /\ allowIn' = Wait(fail)
         /\ alarmIn' = RetryAlarm
    ELSE /\ alarmIn' = 0
         /\ IF Up(status') # {}
            THEN fail' = 0 /\ allowIn' = 0
            ELSE UNCHANGED <<fail, allowIn>>

\* SIG_EVENT_START
Start ==
    /\ ReadSignal("start") /\ attached /\ ~TooEarly
    /\ signals' = Tail(signals)
    /\ dialled' = {f \in Enabled : status[f] # "up"}
    /\ \E r \in Both(Dialled(4), Dialled(6)) :
          /\ SetCalls(r)
          /\ addr' = [f \in Families |-> r[f].addr]
    /\ Schedule
    /\ Served("signal")
    /\ UNCHANGED <<goOn, toMain, linkVars, attached, reg, news, asked, stopped>>

\* Faulty: only a family that has just gone down is dialled.
AfterCheckOnDrop ==
    IF \E f \in Enabled : status[f] # "down" /\ status'[f] = "down"
    THEN Append(Tail(signals), "start") ELSE Tail(signals)

AfterCheck ==
    IF \E f \in Enabled : status'[f] = "down"
    THEN Append(Tail(signals), "start") ELSE Tail(signals)

\* SIG_EVENT_CHECK
Check ==
    /\ ReadSignal("check")
    /\ \E r \in Both(Checked(4), Checked(6)) :
          LET a == [f \in Families |-> r[f].addr]
          IN  /\ SetCalls(r)
              /\ IF Up(status') # {} \/ \A f \in Families : status'[f] = "down"
                 THEN LinkChange(Up(status'), a)
                 ELSE addr' = a /\ UNCHANGED linkVars
    /\ signals' = AfterCheck
    /\ alarmIn' = 0
    /\ Served("signal")
    /\ NoDial
    /\ UNCHANGED <<goOn, toMain, allowIn, attached, fail, reg, news,
                   asked, stopped>>

\* SIG_EVENT_STOP
Stop ==
    /\ ReadSignal("stop")
    /\ signals' = Tail(signals)
    /\ \E r \in Both(HungUp(4), HungUp(6)) :
          SetCalls(r) /\ LinkChange({}, [f \in Families |-> r[f].addr])
    /\ alarmIn' = 0
    /\ stage' = "quit" /\ ready' = {}
    /\ stopped' = TRUE
    /\ NoDial
    /\ UNCHANGED <<goOn, toMain, allowIn, idle, attached, fail, reg, news,
                   asked>>

ReadEvent(e) == stage = "serve" /\ ready = {"device"} /\ Head(toMain) = e

\* RIL_INDICATE_DEVICE_DISCONNECTED
Disconnected ==
    /\ ReadEvent("disconnected")
    /\ toMain' = Tail(toMain)
    /\ LinkChange({}, addr)
    /\ stage' = "quit" /\ ready' = {}
    /\ NoDial
    /\ UNCHANGED <<goOn, signals, timeVars, status, handle, call, trouble,
                   attached, fail, reg, news, faults, asked, stopped>>

\* RIL_UNSOL_RESPONSE_VOICE_NETWORK_STATE_CHANGED
Registration ==
    /\ ReadEvent("registration")
    /\ toMain' = Tail(toMain)
    /\ attached' \in {IF o = "ok" THEN reg ELSE attached : o \in Outcomes}
    /\ signals' = IF attached' /\ Down # {} THEN Append(signals, "start") ELSE signals
    /\ IF attached' THEN UNCHANGED allowIn
                    ELSE allowIn' = 0
    /\ Served("device")
    /\ NoDial
    /\ UNCHANGED <<goOn, alarmIn, callVars, linkVars, fail, reg, news, faults,
                   asked, stopped>>

\* RIL_UNSOL_DATA_CALL_LIST_CHANGED
CallsChanged ==
    /\ ReadEvent("calls")
    /\ toMain' = Tail(toMain)
    /\ allowIn' = IF Up(status) # {} THEN Settle ELSE allowIn
    /\ signals' = Append(signals, "check")
    /\ Served("device")
    /\ NoDial
    /\ UNCHANGED <<goOn, alarmIn, callVars, linkVars, attached, fail,
                   reg, news, faults, asked, stopped>>

\* MODEM_REPORT_RESET_EVENT: what is left in the pipes is lost.
ModemReset ==
    /\ ReadEvent("reset")
    /\ toMain' = Tail(toMain)
    /\ goOn' = TRUE
    /\ stage' = "quit" /\ ready' = {}
    /\ NoDial
    /\ UNCHANGED <<signals, timeVars, callVars, linkVars, attached, fail, reg,
                   news, faults, asked, stopped>>
-----------------------------------------------------------------------------
(* Time, the user and the modem. *)

\* ql_sigaction writes the signal to the pipe, if there is one.
Write(s) == IF Open THEN Append(signals, s) ELSE signals

Less(n) == IF n > 0 THEN n - 1 ELSE 0

Tick ==
    /\ stage # "exited" /\ ~Idle
    /\ \/ allowIn + alarmIn > 0
       \/ stage = "poll" /\ idle > 0
    /\ allowIn' = Less(allowIn) /\ alarmIn' = Less(alarmIn)
    /\ idle' = IF stage = "poll" THEN Less(idle) ELSE idle
    /\ signals' = IF alarmIn = 1 THEN Write("start") ELSE signals
    /\ NoDial
    /\ UNCHANGED <<stage, ready, goOn, toMain, callVars, linkVars, attached,
                   fail, reg, news, faults, asked, stopped>>

Interrupt ==
    /\ stage # "exited" /\ ~asked /\ asked' = TRUE
    /\ goOn' = FALSE
    /\ signals' = Write("stop")
    /\ NoDial
    /\ UNCHANGED <<stage, ready, toMain, timeVars, callVars, linkVars, attached,
                   fail, reg, news, faults, stopped>>

\* The network or the modem changes, and the QMI thread is told of it.
News(e) ==
    /\ stage \in {"init", "poll", "serve"} /\ ~Gone /\ news < MaxNews
    /\ news' = news + 1
    /\ toMain' = Append(toMain, e)
    /\ NoDial
    /\ UNCHANGED <<stage, ready, goOn, signals, timeVars, status, handle, addr,
                   trouble, linkVars, attached, fail, faults, asked, stopped>>

RegistrationChanges == News("registration") /\ reg' = ~reg /\ UNCHANGED call

\* A call ends, or gets another address, or nothing has changed.
CallChanges ==
    /\ News("calls")
    /\ \/ UNCHANGED call
       \/ \E f \in Families, a \in Addrs \cup {NoAddr} :
             call[f] # NoAddr /\ call' = [call EXCEPT ![f] = a]
    /\ UNCHANGED reg

ModemGone == \E e \in {"reset", "disconnected"} :
                News(e) /\ call' = Unaddressed /\ reg' \in BOOLEAN
-----------------------------------------------------------------------------
MainStep ==
    \/ Detect \/ DetectFails \/ StartUp \/ StartUpFails \/ Quit \/ Again
    \/ Poll \/ IdlePoll \/ StartLater \/ Start \/ Check \/ Stop
    \/ Disconnected \/ Registration \/ CallsChanged \/ ModemReset

Terminated == stage = "exited" /\ UNCHANGED vars

Environment == Interrupt \/ RegistrationChanges \/ CallChanges \/ ModemGone

Next == MainStep \/ Tick \/ Environment \/ Terminated

Spec == Init /\ [][Next]_vars

\* The process is scheduled and time goes on, but the loop reads what is in its
\* pipes within one unit of time.
Waiting == stage \in {"poll", "serve"} => signals = <<>> /\ toMain = <<>>
TimelyTick == Waiting /\ Tick

FairSpec ==
    /\ Init /\ [][MainStep \/ TimelyTick \/ Environment \/ Terminated]_vars
    /\ WF_vars(MainStep) /\ WF_vars(TimelyTick)
-----------------------------------------------------------------------------
TypeOK ==
    /\ stage \in {"detect", "init", "poll", "serve", "quit", "again", "exited"}
    /\ ready \subseteq {"signal", "device"}
    /\ signals \in Seq(Signals) /\ toMain \in Seq(Events)
    /\ status \in [Families -> {"unknown", "down", "up"}]
    /\ handle \in [Families -> BOOLEAN]
    /\ addr \in [Families -> Addrs \cup {NoAddr}]
    /\ conf \in [Families -> Addrs \cup {NoAddr}]
    /\ call \in [Families -> Addrs \cup {NoAddr}]
    /\ link \in (SUBSET Families) \cup {Unset} /\ dialled \subseteq Enabled
    /\ fail \in 0 .. Len(BackOff) /\ news \in 0 .. MaxNews /\ faults \in 0 .. MaxFaults
    /\ {allowIn, alarmIn, idle} \subseteq Nat
    /\ {goOn, attached, reg, asked, stopped, trouble} \subseteq BOOLEAN

\* While the wait after a failed dial lasts, a family that is down and could be
\* dialled has its retry on the way: an alarm, or a signal in the pipe. Every
\* signal that is read turns the alarm off, so every handler must see to it.
RetryPlanned ==
    stage \in {"poll", "serve"} /\ attached /\ Down # {} /\ allowIn > 0 =>
        alarmIn > 0 \/ signals # <<>>

\* A call in the modem is one the program knows to be up and can hang up,
\* unless a request failed while it was set up, checked or hung up; once
\* STOP has been handled there is none.
CallsHeld ==
    ~trouble =>
        /\ stage \in {"poll", "serve"} =>
              \A f \in Families : call[f] # NoAddr => handle[f] /\ status[f] = "up"
        /\ stopped => call = Unaddressed

\* No address is left on the network card between two runs or after the last.
NoLinkLeft ==
    stage \in {"again", "detect", "init", "exited"} =>
        link \in {Unset, {}} /\ conf = Unaddressed

\* A family that is down is dialled again.
Redials ==
    \A f \in Enabled :
        (stage = "poll" /\ attached /\ status[f] = "down")
            ~> (f \in dialled \/ ~attached \/ stage \notin {"poll", "serve"}
                  \/ status[f] # "down")

\* An IPv4 call that is up gives the network card its address, if the program
\* has the call's handle. (Without one, after a lost answer, and for an IPv6
\* call whose address was not read at first, it does not ask for the address.)
AddressFollows ==
    \A a \in Addrs :
        (stage = "poll" /\ status[4] = "up" /\ handle[4] /\ call[4] = a)
            ~> (conf[4] = a \/ call[4] # a \/ status[4] # "up"
                  \/ stage \notin {"poll", "serve"})
=============================================================================
