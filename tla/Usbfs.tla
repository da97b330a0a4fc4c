-------------------------------- MODULE Usbfs --------------------------------
(***************************************************************************)
(* What the parts of QDloader 1.0.1 share: the USB device (usbfs.c), the   *)
(* module behind it and what its flash holds, and which function runs. The *)
(* module is external.                                                     *)
(***************************************************************************)
EXTENDS Integers, Sequences

CONSTANTS
    Kept,    \* partitions to keep: calibration, IMEI, serial number
    Images   \* partitions the package has an image for

ASSUME PartsAssumption == Kept \cap Images = {}

VARIABLES
    chip,    \* modem_name of main(), by the USB ids of the module
    mode,    \* the module: "normal" (it takes AT commands), "reboot", "download", "absent"
    flash,   \* [Kept \cup Images -> what the partition holds]
    ctl,     \* the function that runs: "scan", "atc", "dloader", "aboot", "fbf" or "end"
    ret,     \* what main() returns: "none", "ok" or "failed"
    faulty   \* ghost: the module has refused something, gone away, or been late,
             \* or a function of the host has failed and ended the download

usbVars == <<chip, mode, flash, ctl, ret, faulty>>

Parts == Kept \cup Images

Return(ok) == ctl' = "end" /\ ret' = IF ok THEN "ok" ELSE "failed"
Stay == UNCHANGED <<ctl, ret>>

\* A request of the function f has failed, for whatever reason, and f gives up.
GivesUp(f) == ctl = f /\ Return(FALSE) /\ faulty' = TRUE
Works(f) == ctl = f /\ mode = "download" /\ UNCHANGED faulty

\* What may be in a partition that was to get c, when its writing has failed.
Halfway(p, c) == {flash[p], "some", c}
=============================================================================
