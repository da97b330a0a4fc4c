------------------------------ MODULE QFirehose ------------------------------
(***************************************************************************)
(* QFirehose 1.4 as a whole: main() looks for the module and sends it to   *)
(* the emergency download mode, starts its loader (Sahara), gives it an SBL*)
(* that knows this mode if it has none (StreamDownload), and upgrades it   *)
(* (Firehose).                                                             *)
(***************************************************************************)
EXTENDS Sahara, StreamDownload, Firehose

CONSTANTS
    EdlRetry,  \* edl_retry = 30: attempts to find the module, for all its boots
    MaxBoots   \* bound: reboots and unpluggings of the module

ASSUME QFirehoseAssumption == EdlRetry \in Nat /\ MaxBoots \in Nat

VARIABLES
    tries,  \* edl_retry
    boots

mainVars == <<tries, boots>>
vars == <<usbVars, sahVars, strVars, fhVars, mainVars>>

Init ==
    /\ toMod = <<>> /\ toHost = <<>>
    /\ mod \in [usb : UsbModes \ {"absent"}, runs : {"boot"}]
    /\ ctl = "main" /\ ret = [by |-> "none", ok |-> TRUE]
    /\ SaharaInit /\ StreamInit /\ FirehoseInit
    /\ tries = EdlRetry /\ boots = 0

\* main() looks for the module again: at first, and when it has an SBL.
Searching == ctl = "main" /\ ret.by \in {"none", "stream"}

\* The module comes and goes; a handle that was open stays useless, so the
\* module is back only when main() can open it.
ModuleBoots ==
    /\ boots < MaxBoots /\ boots' = boots + 1
    /\ \/ mod.usb # "absent" /\ Boots({Gone})
       \/ mod.usb = "absent" /\ Searching /\ Boots([usb : UsbModes \ {"absent"}, runs : {"boot"}])
    /\ rom' = 0 /\ raw' = None
    /\ UNCHANGED <<ctl, ret, sah, image, strVars, tries>>
    /\ UNCHANGED <<job, pass, row, on, resized, sent, moved, percent, ignored, flash>>

\* One interface and not the 5G dump mode: the module is ready for Sahara.
FoundReady ==
    /\ Searching /\ tries > 0 /\ tries' = tries - 1
    /\ mod.usb \in {"dload", "edl"}
    /\ \E found \in BOOLEAN : SaharaStart(found)
    /\ UNCHANGED <<strVars, fhVars, boots>>

\* switch_to_edl_mode: what the module sends is read away, before it is told and
\* after, however much that is. It may do as it is told, and reboots.
SentToEdl ==
    /\ Searching /\ tries > 0 /\ tries' = tries - 1
    /\ mod.usb \in {"normal", "dump"}
    /\ \/ UNCHANGED <<wire, mod>>
       \/ Boots([usb : {"dload", "edl"}, runs : {"boot"}])
    /\ UNCHANGED <<ctl, ret, sahVars, strVars, fhVars, boots>>

\* Faulty: a failed attempt does not count.
NotFoundForever ==
    /\ Searching /\ tries > 0
    /\ UNCHANGED vars

\* qusb_noblock_open fails, if only because a driver has the interface.
NotFound ==
    /\ Searching /\ tries > 0 /\ tries' = tries - 1
    /\ UNCHANGED <<usbVars, sahVars, strVars, fhVars, boots>>

\* No attempt left. After stream_download usb_handle still points to what was
\* closed, and Sahara gives up.
GivesUp ==
    /\ Searching /\ tries = 0
    /\ Return("search", FALSE)
    /\ UNCHANGED <<wire, mod, sahVars, strVars, fhVars, mainVars>>

\* Sahara has started a loader: Firehose in emergency download mode (05c6),
\* else the one stream_download talks to.
AfterSahara ==
    /\ ctl = "main" /\ ret = [by |-> "sahara", ok |-> TRUE]
    /\ \/ mod.usb \in {"edl", "absent"} /\ FirehoseStart /\ UNCHANGED strVars
       \/ mod.usb \in {"dload", "absent"} /\ StreamStart /\ UNCHANGED fhVars
    /\ UNCHANGED <<sahVars, mainVars>>

\* main() ends, and tells -1 if it has failed.
Finish ==
    /\ ctl = "main"
    /\ \/ ret.by \in {"search", "firehose"}
       \/ ret = [by |-> "sahara", ok |-> FALSE]
    /\ ctl' = "end"
    /\ IF ret.ok THEN UNCHANGED percent ELSE Show(-1)
    /\ UNCHANGED <<wire, mod, ret, job, pass, row, on, resized, sent, moved, ignored, flash, raw>>
    /\ UNCHANGED <<sahVars, strVars, mainVars>>

Terminated == ctl \in {"end", "crashed"} /\ UNCHANGED vars

MainNext ==
    \/ FoundReady \/ SentToEdl \/ NotFound \/ GivesUp \/ AfterSahara \/ Finish

Next ==
    \/ MainNext
    \/ SaharaNext /\ UNCHANGED <<strVars, fhVars, mainVars>>
    \/ StreamNext /\ UNCHANGED <<sahVars, fhVars, mainVars>>
    \/ FirehoseNext /\ UNCHANGED <<sahVars, strVars, mainVars>>
    \/ ModuleBoots
    \/ Terminated

Spec == Init /\ [][Next]_vars

\* The next call of the tool need not return while the module is there: it writes,
\* or it reads for as long as something comes, be it logs, bytes that end no
\* packet, or what is to be read away (switch_to_edl_mode, firehose_main,
\* fh_wait_response_cmd, receive_packet).
SaharaWrites ==
    \/ sah = "hello"
    \/ sah = "again" /\ Incoming
    \/ sah = "command" /\ Incoming /\ Msg.op # "hello" /\ ~(Msg.op = "end" /\ ~Msg.ok)

Held ==
    /\ mod.usb # "absent"
    /\ \/ Searching /\ tries > 0 /\ mod.usb \in {"normal", "dump"}
       \/ Running("sahara") /\ SaharaWrites
       \/ Running("stream")
       \/ Running("firehose") /\ (on = "send" => Wanted)

HostStep ==
    \/ MainNext
    \/ /\ HelloLate \/ Hello \/ Command \/ Done \/ CommandLate
       /\ UNCHANGED <<strVars, fhVars, mainVars>>
    \/ /\ NoFile \/ SendRequest \/ ReadAnswer \/ AnswerLate
       /\ UNCHANGED <<sahVars, fhVars, mainVars>>
    \/ /\ Fixup \/ NextRound \/ SendCommand \/ ReadResponse \/ NoResponse \/ SendChunk
       /\ UNCHANGED <<sahVars, strVars, mainVars>>

\* Where the tool is.
hostVars == <<ctl, sah, str, pass, row, on, sent, tries>>

\* Elsewhere the tool runs on: every read has a time-out, and a call on a handle
\* whose module is gone fails.
FairSpec == Spec /\ WF_vars(HostStep /\ ~Held)
-----------------------------------------------------------------------------
TypeOK ==
    /\ mod \in [usb : UsbModes, runs : {"app", "boot", "loader"}]
    /\ ctl \in {"main", "sahara", "stream", "firehose", "end", "crashed"}
    /\ ret \in [by : {"none", "search", "sahara", "stream", "firehose"}, ok : BOOLEAN]
    /\ sah \in {"hello", "again", "command", "done"}
    /\ image \in Images /\ rom \in 0 .. Ranges
    /\ part \in [1 .. Blocks -> 0 .. Blocks]
    /\ job \in Jobs \cup {[table |-> <<>>, only |-> None, eraseAll |-> FALSE, missing |-> {}]}
    /\ resized \in BOOLEAN
    /\ pass \in DOMAIN NextPass /\ row \in 1 .. Len(job.table) + 1
    /\ on \in {"read", "send", "wait", "data", "end"}
    /\ sent \in Nat /\ moved \in Nat /\ percent \in Int
    /\ flash \in [Parts -> {"old", "erased", "some", "junk", "new"}]
    /\ raw \in Parts \cup {None}
    /\ tries \in 0 .. EdlRetry /\ boots \in 0 .. MaxBoots

\* README.md: when the upgrade fails the last number is -1.
FailureReported ==
    ctl = "end" /\ (\E p \in Chosen : flash[p] # "new") => percent = -1

\* The tool ends, or a module that is there holds it up for ever in one place: it
\* does not go round between the modes of the module, wait for an answer where
\* reads time out, or outlive a module that is unplugged.
Ends ==
    \/ <>(ctl \in {"end", "crashed"})
    \/ <>[]Held /\ <>[][FALSE]_hostVars
=============================================================================
