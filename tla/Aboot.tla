-------------------------------- MODULE Aboot --------------------------------
(***************************************************************************)
(* aboot_main of QDloader 1.0.1 (EC200S): the main thread works through    *)
(* the commands in firmware.bin, a reader thread takes the answers. They   *)
(* share cmd_response, a mutex and a condition. The module erases and      *)
(* programs in the background, and reports as it goes along.               *)
(*                                                                         *)
(* A module speaks smux or ethos. With ethos each packet is answered by    *)
(* one, which may be empty, so that the answer must be asked for; there is *)
(* one packet under way at a time, so that its sequence numbers agree.     *)
(* Left out: how the modem is greeted, and the sparse images of ethos.     *)
(***************************************************************************)
EXTENDS Usbfs

CONSTANTS
    Script,    \* firmware.bin: commands [op, img, chunks]
    Slices,    \* 4: the parts pthread_cond_timeout_np cuts its time into
    MaxInfos   \* bound: reports of the module

\* The file flashes what it has images for.
ASSUME AbootAssumption ==
    /\ Slices \in Nat \ {0} /\ MaxInfos \in Nat
    /\ Script \in Seq([op : {"getvar", "call", "nop", "download", "flash"},
                       img : Images \cup {"none"}, chunks : Nat])
    /\ \A i \in DOMAIN Script : Script[i].op = "flash" => Script[i].img \in Images
    /\ \A p \in Images : \E i \in DOMAIN Script : Script[i].op = "flash" /\ Script[i].img = p

VARIABLES
    style,       \* aboot_device_type
    pc,          \* where the main thread is
    line,        \* in the commands
    chunk,       \* of the image that is transferred
    slice,       \* of the wait
    response,    \* cmd_response, or "none"
    toMod,       \* written and not taken by the module
    toHost,      \* sent by the module and not read
    bootrom,     \* is_crane_bootrom
    due,         \* ethos: the answer the module keeps until it is asked for
    background,  \* images the module has yet to program
    bad,         \* ... and whether one of them could not be
    infos,
    missed,      \* ghost: an answer came before the wait for it, which does not look
    unread       \* ghost: an answer nobody looks at said that something is wrong

talkVars == <<toMod, toHost, due, background, bad, infos>>
hostVars == <<style, pc, line, chunk, slice, response, bootrom>>
abootVars == <<hostVars, talkVars, missed, unread>>

\* What follows the commands of the file.
Endings == <<"reboot", "complete", "disconnect">>
InTail == line > Len(Script)
Cmd == IF ~InTail THEN Script[line]
       ELSE [op |-> Endings[line - Len(Script)], img |-> "none", chunks |-> 0]

\* The boot ROM does not take call from smux, and is sent nop.
Op == IF Cmd.op = "call" /\ bootrom /\ style = "smux" THEN "nop" ELSE Cmd.op

AbootInit ==
    /\ style = "none" /\ pc = "send" /\ line = 1 /\ chunk = 0 /\ slice = Slices
    /\ response = "none" /\ bootrom = FALSE
    /\ toMod = <<>> /\ toHost = <<>> /\ due = "none"
    /\ background = <<>> /\ bad = FALSE /\ infos = 0 /\ missed = FALSE /\ unread = FALSE

\* The module tells what it speaks, and the hand-shake succeeds, or it does not.
AbootStart ==
    \/ /\ ctl' = "aboot" /\ style' \in {"smux", "ethos"} /\ UNCHANGED <<ret, faulty>>
       /\ pc' = "send" /\ line' = 1 /\ chunk' = 0 /\ slice' = Slices
       /\ response' = "none" /\ bootrom' = FALSE
       /\ toMod' = <<>> /\ toHost' = <<>> /\ due' = "none"
       /\ background' = <<>> /\ bad' = FALSE
       /\ UNCHANGED <<infos, missed, unread>>
    \/ Return(FALSE) /\ faulty' = TRUE /\ UNCHANGED abootVars

Runs(p) == ctl = "aboot" /\ pc = p
Goto(p) == pc' = p /\ Stay
Put(m) == toMod' = Append(toMod, m)

\* The command disconnect, and whatever becomes of it, is the end.
Fail == Return(Cmd.op = "disconnect") /\ UNCHANGED pc

\* aboot_transport_send_cmd: the response is forgotten, the command written.
Send ==
    /\ Runs("send") /\ response' = "none"
    /\ \/ mode = "download" /\ Put([op |-> Op, img |-> Cmd.img]) /\ Goto("check") /\ UNCHANGED faulty
       \/ Fail /\ faulty' = TRUE /\ UNCHANGED toMod
    /\ UNCHANGED <<chip, mode, flash, style, line, chunk, slice, bootrom>>
    /\ UNCHANGED <<toHost, due, background, bad, infos, missed, unread>>

\* Faulty: the wait begins whether the answer is there or not.
CheckBlindly ==
    /\ Runs("check")
    /\ slice' = Slices /\ Goto("wait")
    /\ UNCHANGED <<chip, mode, flash, faulty, style, line, chunk, response, bootrom, talkVars, missed, unread>>

\* Under the mutex: no response yet, and the thread waits.
Check ==
    /\ Runs("check")
    /\ IF response # "none" THEN Goto("judge") /\ UNCHANGED slice
       ELSE slice' = Slices /\ Goto("wait")
    /\ UNCHANGED <<chip, mode, flash, faulty, style, line, chunk, response, bootrom, talkVars, missed, unread>>

\* Something is on its way, or being done: then it is the module that is late.
UnderWay == toMod # <<>> \/ toHost # <<>> \/ background # <<>>

\* A slice is over, and the thread has yet to get the mutex.
SliceEnds ==
    /\ ctl = "aboot" /\ pc \in {"wait", "dataWait"}
    /\ Goto(IF pc = "wait" THEN "slice" ELSE "dataSlice")
    /\ faulty' = (faulty \/ UnderWay)
    /\ UNCHANGED <<chip, mode, flash, style, line, chunk, slice, response, bootrom, talkVars, missed, unread>>

\* With it, the thread waits for the next, or gives up, without a look at the
\* response, which may have come since.
NextSlice ==
    /\ ctl = "aboot" /\ pc \in {"slice", "dataSlice"}
    /\ IF slice > 1
       THEN slice' = slice - 1 /\ Goto(IF pc = "slice" THEN "wait" ELSE "dataWait")
       ELSE Fail /\ UNCHANGED slice
    /\ UNCHANGED <<chip, mode, flash, faulty, style, line, chunk, response, bootrom, talkVars, missed, unread>>

\* An empty packet, and whether it can be written.
Ask ==
    \/ mode = "download" /\ Put([op |-> "poll", img |-> "none"]) /\ Goto("check") /\ UNCHANGED faulty
    \/ Fail /\ faulty' = TRUE /\ UNCHANGED toMod

\* Signalled: with ethos the answer is asked for if it has not come.
Woken ==
    /\ Runs("woken")
    /\ IF response = "none" /\ style = "ethos" THEN Ask
       ELSE Goto("check") /\ UNCHANGED <<toMod, faulty>>
    /\ UNCHANGED <<chip, mode, flash, style, line, chunk, slice, response, bootrom>>
    /\ UNCHANGED <<toHost, due, background, bad, infos, missed, unread>>

Following ==
    IF line = Len(Script) + Len(Endings) THEN Return(TRUE) /\ UNCHANGED <<pc, line>>
                   ELSE line' = line + 1 /\ Goto("send")

\* Faulty: a FAIL is no reason to stop.
PassesAny == response = "FAIL" \/ response = IF Op = "download" THEN "DATA" ELSE "OKAY"

\* What the file says is to come; old firmware does not know nop.
Passes ==
    \/ Op = "nop" /\ response = "FAIL"
    \/ response = IF Op = "download" THEN "DATA" ELSE "OKAY"

\* The answers to the last three commands are not looked at, and a DATA with
\* the wrong size ("SIZE") leads to them.
Judge ==
    /\ Runs("judge")
    /\ \/ /\ InTail /\ Following /\ UNCHANGED <<chunk, response>>
          /\ unread' = (unread \/ (response # "OKAY" /\ Cmd.op # "disconnect"))
       \/ /\ ~InTail /\ chunk = 0 /\ response = "SIZE" /\ Op = "download"
          /\ line' = Len(Script) + 1 /\ Goto("send")
          /\ unread' = TRUE /\ UNCHANGED <<chunk, response>>
       \/ /\ ~InTail /\ chunk = 0 /\ Op = "download" /\ Passes
          /\ response' = "none" /\ chunk' = 1 /\ Goto("data") /\ UNCHANGED <<line, unread>>
       \/ /\ ~InTail /\ chunk = 0 /\ Op # "download" /\ Passes
          /\ Following /\ UNCHANGED <<chunk, response, unread>>
       \/ /\ ~InTail /\ chunk > 0 /\ response = "OKAY"
          /\ chunk' = 0 /\ Following /\ UNCHANGED <<response, unread>>
       \/ /\ ~InTail /\ response # "SIZE" /\ (IF chunk = 0 THEN ~Passes ELSE response # "OKAY")
          /\ Return(FALSE) /\ UNCHANGED <<pc, line, chunk, response, unread>>
    /\ UNCHANGED <<chip, mode, flash, faulty, style, slice, bootrom, talkVars, missed>>

NextChunk ==
    IF chunk < Cmd.chunks THEN chunk' = chunk + 1 /\ Goto("data")
                          ELSE Goto("collect") /\ UNCHANGED chunk

\* download_do_download_data: with ethos each chunk has its answer.
SendChunk ==
    /\ Runs("data")
    /\ \/ /\ mode = "download" /\ UNCHANGED faulty
          /\ Put([op |-> IF chunk = Cmd.chunks THEN "last" ELSE "data", img |-> Cmd.img])
          /\ IF style = "ethos" THEN Goto("dataLock") /\ UNCHANGED chunk ELSE NextChunk
       \/ Fail /\ faulty' = TRUE /\ UNCHANGED <<toMod, chunk>>
    /\ UNCHANGED <<chip, mode, flash, style, line, slice, response, bootrom>>
    /\ UNCHANGED <<toHost, due, background, bad, infos, missed, unread>>

\* The wait begins, whether the answer is there or not.
WaitForAck ==
    /\ Runs("dataLock") /\ Goto("dataWait") /\ slice' = Slices
    /\ UNCHANGED <<chip, mode, flash, faulty, style, line, chunk, response, bootrom, talkVars, missed, unread>>

Acked ==
    /\ Runs("dataWoken") /\ NextChunk
    /\ UNCHANGED <<chip, mode, flash, faulty, style, line, slice, response, bootrom, talkVars, missed, unread>>

\* The answer to the image; with ethos it is asked for.
Collect ==
    /\ Runs("collect")
    /\ IF style = "ethos" THEN Ask ELSE Goto("check") /\ UNCHANGED <<toMod, faulty>>
    /\ UNCHANGED <<chip, mode, flash, style, line, chunk, slice, response, bootrom>>
    /\ UNCHANGED <<toHost, due, background, bad, infos, missed, unread>>

AbootMain ==
    \/ Send \/ Check \/ SliceEnds \/ NextSlice \/ Woken \/ Judge
    \/ SendChunk \/ WaitForAck \/ Acked \/ Collect
-----------------------------------------------------------------------------
\* aboot_transport_rx_cmd, in the reader: whoever waits is woken. The signal
\* that nobody waits for is lost, and with it, if the response stays empty or
\* is not looked at, the only packet that would come.
Rx ==
    /\ ctl = "aboot" /\ toHost # <<>> /\ toHost' = Tail(toHost)
    /\ LET m == Head(toHost)
           waits == pc \in {"wait", "dataWait"}
       IN  /\ response' = IF m \in {"OKAY", "DATA", "SIZE", "FAIL"} THEN m
                          ELSE IF m = "CRANE" THEN "OKAY" ELSE response
           /\ bootrom' = (bootrom \/ m = "CRANE")
           /\ pc' = IF pc = "wait" THEN "woken" ELSE IF pc = "dataWait" THEN "dataWoken" ELSE pc
           /\ missed' = (missed \/ (style = "ethos" /\ ~waits /\ (response' = "none" \/ pc = "dataLock")))
    /\ UNCHANGED <<chip, mode, flash, ctl, ret, faulty, style, line, chunk, slice>>
    /\ UNCHANGED <<toMod, due, background, bad, infos, unread>>
-----------------------------------------------------------------------------
(* The module (external). *)

\* An answer: at once, or with ethos when it is asked for.
Says(a) ==
    \/ toHost' = Append(toHost, a) /\ UNCHANGED due
    \/ style = "ethos" /\ toHost' = Append(toHost, "empty") /\ due' = a

\* The whole image has come: the answer to it waits for the question of ethos.
Received(a) ==
    IF style = "ethos" THEN toHost' = Append(toHost, "empty") /\ due' = a
                       ELSE toHost' = Append(toHost, a) /\ UNCHANGED due

Takes(ops) == ctl = "aboot" /\ mode = "download" /\ toMod # <<>> /\ Head(toMod).op \in ops
TakesIt == toMod' = Tail(toMod)
External == UNCHANGED <<chip, mode, ctl, ret, hostVars, missed, unread>>

\* A command is carried out, or refused; what it has to flash waits its turn.
ModuleObeys ==
    /\ Takes({"getvar", "call", "nop", "download", "flash", "reboot", "disconnect"}) /\ TakesIt
    /\ LET op == Head(toMod).op IN
       /\ \/ op = "download" /\ Says("DATA")
          \/ op # "download" /\ Says("OKAY")
          \/ op = "getvar" /\ Says("CRANE")
       /\ background' = IF op = "flash" THEN Append(background, Head(toMod).img) ELSE background
    /\ UNCHANGED <<flash, faulty, bad, infos>> /\ External

\* nop is refused by old firmware; the size may be another than the one asked for.
ModuleRefuses ==
    /\ Takes({"getvar", "call", "nop", "download", "flash", "last", "reboot"}) /\ TakesIt
    /\ LET op == Head(toMod).op IN
       /\ faulty' = (faulty \/ op # "nop")
       /\ \/ op # "last" /\ Says("FAIL")
          \/ op = "download" /\ Says("SIZE")
          \/ op = "last" /\ Received("FAIL")
    /\ UNCHANGED <<flash, background, bad, infos>> /\ External

ModuleReceives ==
    /\ Takes({"data", "last"}) /\ TakesIt
    /\ IF Head(toMod).op = "last" THEN Received("OKAY")
       ELSE /\ toHost' = IF style = "ethos" THEN Append(toHost, "empty") ELSE toHost
            /\ UNCHANGED due
    /\ UNCHANGED <<flash, faulty, background, bad, infos>> /\ External

ModuleProgrammes ==
    /\ ctl = "aboot" /\ mode = "download" /\ background # <<>>
    /\ background' = Tail(background)
    /\ \/ flash' = [flash EXCEPT ![Head(background)] = "new"] /\ UNCHANGED <<bad, faulty>>
       \/ flash' = [flash EXCEPT ![Head(background)] = "some"] /\ bad' = TRUE /\ faulty' = TRUE
    /\ UNCHANGED <<toMod, toHost, due, infos>> /\ External

\* complete is answered when nothing is left to be programmed.
ModuleCompletes ==
    /\ Takes({"complete"}) /\ background = <<>> /\ TakesIt
    /\ Says(IF bad THEN "FAIL" ELSE "OKAY")
    /\ UNCHANGED <<flash, faulty, background, bad, infos>> /\ External

\* The answer that was due, or, with either, a report that is no answer.
ModuleIsAsked ==
    /\ Takes({"poll"}) /\ TakesIt /\ due # "none"
    /\ toHost' = Append(toHost, due) /\ due' = "none"
    /\ UNCHANGED <<flash, faulty, background, bad, infos>> /\ External

ModuleReports ==
    /\ infos < MaxInfos /\ infos' = infos + 1
    /\ \/ Takes({"poll"}) /\ TakesIt
       \/ style = "smux" /\ Takes({"flash", "complete"}) /\ UNCHANGED toMod
    /\ toHost' = Append(toHost, "INFO")
    /\ UNCHANGED <<flash, faulty, due, background, bad>> /\ External

AbootModule ==
    \/ ModuleObeys \/ ModuleRefuses \/ ModuleReceives \/ ModuleProgrammes
    \/ ModuleCompletes \/ ModuleIsAsked \/ ModuleReports
=============================================================================
