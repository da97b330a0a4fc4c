--------------------------------- MODULE Fbf ---------------------------------
(***************************************************************************)
(* fbfdownloader_main of QDloader 1.0.1 (EC200T, EC200A): the modem asks   *)
(* for two files, the second with the images in it, and burns them while   *)
(* the host reads its messages until it says that it is done.              *)
(*                                                                         *)
(* A request and its answer are a step; an answer that comes later than    *)
(* 5 s is that of another request (its CMD is wrong), which fails.         *)
(***************************************************************************)
EXTENDS Usbfs

VARIABLES
    step,         \* "greet", "select", "header", "data", "spin", "burn" or "bye"
    round,        \* 1: the file TIMH, 2: FBFD
    burning,      \* the module: "no", "busy", "done" or "error"
    unheard       \* ghost: the module said its last before it had burnt all

fbfVars == <<step, round, burning, unheard>>

Rounds == 2

FbfInit == step = "greet" /\ round = 1 /\ burning = "no" /\ unheard = FALSE

FbfStart ==
    /\ ctl' = "fbf" /\ step' = "greet" /\ round' = 1 /\ burning' = "no"
    /\ UNCHANGED <<ret, unheard>>

At(s) == ctl = "fbf" /\ step = s
On(s) == step' = s /\ Stay

\* SendPreamble, GetWtpMessage and GetVersion: the results are not looked at.
Greet ==
    /\ At("greet") /\ On("select")
    /\ UNCHANGED <<chip, mode, flash, faulty, round, burning, unheard>>

\* SelectImage: no answer, or another, leaves the type 0, which is no file.
Select ==
    /\ At("select")
    /\ \/ Works("fbf") /\ On("header")
       \/ GivesUp("fbf") /\ UNCHANGED step
    /\ UNCHANGED <<chip, mode, flash, round, burning, unheard>>

\* VerifyImage and DataHeader are not looked at either, but without an answer
\* the size of the buffer is 0.
Header ==
    /\ At("header")
    /\ \/ Works("fbf") /\ On("data")
       \/ On("spin") /\ faulty' = TRUE
    /\ UNCHANGED <<chip, mode, flash, round, burning, unheard>>

\* Nothing is written and nothing is left of, for as long as the module is there.
SpinEnds ==
    /\ At("spin") /\ mode # "download" /\ GivesUp("fbf")
    /\ UNCHANGED <<chip, mode, flash, fbfVars>>

\* The file, the last part of which is answered, and DONE.
SendFile ==
    /\ At("data")
    /\ \/ /\ Works("fbf")
          /\ IF round < Rounds THEN round' = round + 1 /\ On("greet") /\ UNCHANGED burning
                               ELSE burning' = "busy" /\ On("burn") /\ UNCHANGED round
       \/ GivesUp("fbf") /\ UNCHANGED <<step, round, burning>>
    /\ UNCHANGED <<chip, mode, flash, unheard>>

\* GetWtpMessage: an error report is written to the log, and reading goes on;
\* PlatformReady and PlatformDisconnect are the end, and it does not matter
\* which, nor whether there was an error: all of them end the download well.
Message ==
    /\ At("burn")
    /\ \/ mode = "download" /\ On("bye")
          /\ IF burning = "done" THEN UNCHANGED <<unheard, faulty>>
             ELSE unheard' = TRUE /\ faulty' = TRUE
       \/ GivesUp("fbf") /\ UNCHANGED <<step, unheard>>
    /\ UNCHANGED <<chip, mode, flash, round, burning>>

\* Disconnect: its result is not looked at.
Bye ==
    /\ At("bye") /\ Return(TRUE)
    /\ UNCHANGED <<chip, mode, flash, faulty, fbfVars>>

FbfMain == Greet \/ Select \/ Header \/ SpinEnds \/ SendFile \/ Message \/ Bye

\* The module (external) burns what it was given.
ModuleBurns ==
    /\ ctl = "fbf" /\ mode = "download" /\ burning = "busy"
    /\ \/ burning' = "done" /\ flash' = [p \in Parts |-> IF p \in Images THEN "new" ELSE flash[p]]
          /\ UNCHANGED faulty
       \/ burning' = "error" /\ flash' = [p \in Parts |-> IF p \in Images THEN "some" ELSE flash[p]]
          /\ faulty' = TRUE
    /\ UNCHANGED <<chip, mode, ctl, ret, step, round, unheard>>
=============================================================================
