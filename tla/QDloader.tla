------------------------------ MODULE QDloader ------------------------------
(***************************************************************************)
(* QDloader 1.0.1 as a whole: main() looks for the module on the USB,      *)
(* tells it to go to its download mode, and hands it to one of three       *)
(* downloaders: dloader (Bsl), aboot (Aboot) or the FBF one (Fbf). After a *)
(* failure the tool may be run again.                                      *)
(*                                                                         *)
(* Left out: the option -s, the device nodes of Android, and the build for *)
(* SHINCO.                                                                 *)
(***************************************************************************)
EXTENDS Bsl, Aboot, Fbf

CONSTANTS
    Chips,     \* modem_names to look at
    Tries,     \* 50: looks for the module
    MaxRuns    \* bound: runs after the first

ASSUME QDloaderAssumption ==
    /\ Chips \subseteq {"RG500U", "RM500U", "EC200U", "EC200S", "EC200T"}
    /\ Tries \in Nat \ {0} /\ MaxRuns \in Nat

VARIABLES
    tries,
    runs

mainVars == <<tries, runs>>
vars == <<usbVars, bslVars, abootVars, fbfVars, mainVars>>

Init ==
    /\ chip \in Chips /\ mode \in {"normal", "download"}
    /\ flash = [p \in Parts |-> IF p \in Kept THEN "cal" ELSE "old"]
    /\ ctl = "scan" /\ ret = "none" /\ faulty = FALSE
    /\ BslInit /\ AbootInit /\ FbfInit
    /\ tries = Tries /\ runs = 0

\* The switch over modem_name.
Dispatch ==
    \/ chip \in {"RG500U", "RM500U", "EC200U"} /\ DloaderStart
       /\ UNCHANGED <<faulty, abootVars, fbfVars>>
    \/ chip = "EC200T" /\ FbfStart /\ UNCHANGED <<faulty, bslVars, abootVars>>
    \/ chip = "EC200S" /\ AbootStart /\ UNCHANGED <<bslVars, fbfVars>>

\* A module was found and opened: either it takes AT commands, or a file.
Found ==
    /\ ctl = "scan" /\ tries > 0
    /\ \/ mode = "normal" /\ ctl' = "atc" /\ UNCHANGED <<ret, faulty, bslVars, abootVars, fbfVars>>
       \/ mode = "download" /\ Dispatch
    /\ UNCHANGED <<chip, mode, flash, mainVars>>

\* It cannot be opened, and main() starts to look again, without end.
OpenFails ==
    /\ ctl = "scan" /\ mode \in {"normal", "download"}
    /\ tries' = Tries /\ faulty' = TRUE
    /\ UNCHANGED <<chip, mode, flash, ctl, ret, bslVars, abootVars, fbfVars, runs>>

NotFound ==
    /\ ctl = "scan" /\ mode \in {"reboot", "absent"} /\ tries > 0
    /\ tries' = tries - 1
    /\ UNCHANGED <<usbVars, bslVars, abootVars, fbfVars, runs>>

NoModem ==
    /\ ctl = "scan" /\ tries = 0
    /\ Return(FALSE) /\ faulty' = TRUE
    /\ UNCHANGED <<chip, mode, flash, bslVars, abootVars, fbfVars, mainVars>>

\* switch_to_download: told once more while the device is there, and the module
\* may not listen.
Told ==
    /\ ctl = "atc" /\ mode = "normal"
    /\ \/ mode' = "reboot" /\ UNCHANGED faulty
       \/ faulty' = TRUE /\ UNCHANGED mode
    /\ UNCHANGED <<chip, flash, ctl, ret, bslVars, abootVars, fbfVars, mainVars>>

\* The device has gone, or a transfer fails.
Switched ==
    /\ ctl = "atc"
    /\ \/ mode # "normal" /\ UNCHANGED faulty
       \/ mode = "normal" /\ faulty' = TRUE
    /\ ctl' = "scan" /\ tries' = Tries
    /\ UNCHANGED <<chip, mode, flash, ret, bslVars, abootVars, fbfVars, runs>>

\* The user runs the tool again, with the module in whichever mode.
Rerun ==
    /\ ctl = "end" /\ ret = "failed" /\ runs < MaxRuns
    /\ runs' = runs + 1 /\ tries' = Tries
    /\ ctl' = "scan" /\ ret' = "none" /\ mode' \in {"normal", "download"}
    /\ UNCHANGED <<chip, flash, faulty, bslVars, abootVars, fbfVars>>

\* The module (external) comes back from its reboot, or leaves for good.
Appears ==
    /\ mode = "reboot" /\ mode' = "download"
    /\ UNCHANGED <<chip, flash, ctl, ret, faulty, bslVars, abootVars, fbfVars, mainVars>>

Unplugged ==
    /\ ctl # "end" /\ mode # "absent" /\ mode' = "absent" /\ faulty' = TRUE
    /\ toMod' = <<>> /\ toHost' = <<>>
    /\ UNCHANGED <<chip, flash, ctl, ret, bslVars, hostVars, due, background, bad, infos>>
    /\ UNCHANGED <<missed, unread, fbfVars, mainVars>>

Terminated == ctl = "end" /\ UNCHANGED vars

Main ==
    \/ Found \/ NotFound \/ NoModem \/ Told \/ Switched
    \/ BslNext /\ UNCHANGED <<abootVars, fbfVars, mainVars>>
    \/ AbootMain /\ UNCHANGED <<bslVars, fbfVars, mainVars>>
    \/ FbfMain /\ UNCHANGED <<bslVars, abootVars, mainVars>>

Reader == Rx /\ UNCHANGED <<bslVars, fbfVars, mainVars>>

Module ==
    \/ AbootModule /\ UNCHANGED <<bslVars, fbfVars, mainVars>>
    \/ ModuleBurns /\ UNCHANGED <<bslVars, abootVars, mainVars>>
    \/ Appears

Next == Main \/ Reader \/ Module \/ OpenFails \/ Unplugged \/ Rerun \/ Terminated

Spec == Init /\ [][Next]_vars

\* The main thread runs on; the modem that was told to finishes what it burns.
FairSpec == Spec /\ WF_vars(Main) /\ WF_vars(ModuleBurns /\ UNCHANGED <<bslVars, abootVars, mainVars>>)
-----------------------------------------------------------------------------
\* What main() reports as "Upgrade module successfully" is one: all images are
\* in the module, and the partitions to keep are as they were. Excepted is all
\* that the code lets pass: a failure told to a part of the tool that does not
\* listen (unread, unheard), a partition that bsl_flash_id wrote short or whose
\* values had no place in the new NV (cut), and a file without a whole copy, be it
\* for this run or because a later one has opened it (unsaved).
SuccessComplete ==
    ret = "ok" /\ ~unread /\ ~unheard =>
        /\ \A p \in Images : flash[p] = "new" \/ p \in cut
        /\ \A p \in Kept : flash[p] = "cal" \/ p \in unsaved \cup cut

\* As long as the module does what it is asked for, in time, and stays, and the
\* host can read and write its files, the tool ends with a success - but for the
\* RM500U, and for a wake-up that is lost.
Upgrades == <>(faulty \/ missed \/ chip = "RM500U" \/ (ctl = "end" /\ ret = "ok"))
=============================================================================
