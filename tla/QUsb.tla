-------------------------------- MODULE QUsb --------------------------------
(***************************************************************************)
(* The USB handle of QFirehose 1.4 (usb_linux.c) and the module behind it: *)
(* what is on its way in either direction, and which of the protocols of   *)
(* the tool has the handle. The module is external. It answers what it is  *)
(* sent in order, each request once, but takes its time; it may reboot or  *)
(* disappear whenever it likes.                                            *)
(***************************************************************************)
EXTENDS Integers, Sequences

VARIABLES
    toMod,   \* written and not taken by the module
    toHost,  \* sent by the module and not read
    mod,     \* [usb |-> "absent" | "normal" | "dump" | "dload" | "edl",
             \*  runs |-> "app" | "boot" | "loader"]: dload and edl show one
             \*  interface, as 2c7c and as 05c6:9008
    ctl,     \* the function that runs
    ret      \* what the last one returned: [by, ok]

wire == <<toMod, toHost>>
usbVars == <<toMod, toHost, mod, ctl, ret>>

UsbModes == {"absent", "normal", "dump", "dload", "edl"}

Running(f) == ctl = f

Return(f, ok) == ctl' = "main" /\ ret' = [by |-> f, ok |-> ok]
Stay == UNCHANGED <<ctl, ret>>

\* qusb_noblock_write: the whole message, or the handle is of no use. Its
\* time-out is not looked at (usbfs_bulk_write): a module that does not take the
\* message holds the tool up for as long as it is there.
Write(m, ok) == toMod' = IF ok /\ mod.usb # "absent" THEN Append(toMod, m) ELSE toMod

\* qusb_noblock_read: the next message, or nothing until the time-out.
Incoming == toHost # <<>>
Msg == Head(toHost)
Consume == toHost' = Tail(toHost)
NothingRead == toHost = <<>> /\ UNCHANGED toHost

\* The module, running r, takes the next message and answers with the sequence a.
Takes(r) == mod.usb # "absent" /\ mod.runs = r /\ toMod # <<>>
Order == Head(toMod)
Answers(a) == toMod' = Tail(toMod) /\ toHost' = toHost \o a

\* The module reboots into one of the states of what, or is unplugged.
Boots(what) ==
    /\ mod' \in what
    /\ toMod' = <<>> /\ toHost' = <<>>

Gone == [usb |-> "absent", runs |-> "boot"]
=============================================================================
