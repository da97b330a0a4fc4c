------------------------------ MODULE Firehose ------------------------------
(***************************************************************************)
(* firehose_main of QFirehose 1.4: erases and programs the partitions of   *)
(* the module as rawprogram.xml says, one command after the other, each    *)
(* with its answer, and tells its progress.                                *)
(*                                                                         *)
(* An image is a number of chunks of the payload the module accepts. The   *)
(* logs of the module, which are read and skipped, are left out.           *)
(***************************************************************************)
EXTENDS QUsb, SequencesExt, FiniteSetsExt

CONSTANTS
    Parts, Sbl,   \* partitions; the one that starts at sector 0
    Size,         \* [Parts -> chunks of its image]
    Jobs,         \* what may be asked for: [table, only, eraseAll, missing],
                  \*  a sequence of [op, part], -f .../update/<image>, -e, and
                  \*  the images that cannot be read
    None, Other   \* the whole package; an image that is not in the table

ASSUME FirehoseAssumption ==
    /\ Sbl \in Parts /\ None \notin Parts /\ Other \notin Parts
    /\ Size \in [Parts -> Nat \ {0}]
    /\ Jobs \subseteq [table : Seq([op : {"erase", "program"}, part : Parts]
                                  \cup [op : {"vendor"}, part : {None}]),
                     only : Parts \cup {None, Other}, eraseAll : BOOLEAN, missing : SUBSET Parts]

VARIABLES
    job,
    pass,      \* the part of firehose_main that runs, x of its loop, and the
    row,       \*  place in the round: "read", "send", "wait", "data" or "end"
    on,
    resized,   \* configure has been sent again
    sent,      \* chunks of this image that were written, and of all
    moved,
    percent,   \* last_percent
    ignored,   \* steps whose failure was ignored
    flash,     \* [Parts -> "old", "erased", "some", "junk", "new"]
    raw        \* the partition that takes what is written next, or None

fhVars == <<job, pass, row, on, resized, sent, moved, percent, ignored, flash, raw>>

Has(op, p) == \E k \in DOMAIN job.table : job.table[k] = [op |-> op, part |-> p]

\* g_part_upgrade: the image that was named, and the erase that goes with it.
Selected(p) == job.only = None \/ (job.only = p /\ Has("program", p))

Chosen == {p \in Parts : Has("program", p) /\ Selected(p)}
Total == MapThenSumSet(LAMBDA p : Size[p], Chosen)

InLoop == pass \in {"vendor", "erase", "program"}

\* Faulty: the SBL is programmed first.
NextPassSblFirst ==
    [configure |-> "sblErase", sblErase |-> "vendor", vendor |-> "erase", erase |-> "sblProgram",
     sblProgram |-> "program", program |-> "reset", reset |-> "reset"]

\* Erase the SBL first, program it last.
NextPass ==
    [configure |-> "sblErase", sblErase |-> "vendor", vendor |-> "erase", erase |-> "program",
     program |-> "sblProgram", sblProgram |-> "reset", reset |-> "reset"]

\* The command of this round.
Cmd == job.table[row]
Now ==
    [op   |-> CASE pass = "sblErase" -> "erase"
                [] pass = "sblProgram" -> "program"
                [] pass = "erase" /\ job.eraseAll -> "eraseAll"
                [] OTHER -> pass,
     part |-> CASE pass \in {"sblErase", "sblProgram"} -> Sbl
                [] InLoop -> Cmd.part
                [] OTHER -> None]

\* A line of this loop that is selected.
Mine == Cmd.op = pass /\ (pass = "vendor" \/ Selected(Cmd.part))

\* There is a command to send. fh_process_sbl takes the first one for sector
\* 0, whatever was selected; the loops leave it out, but for the erase of
\* everything.
Wanted ==
    CASE pass = "sblErase" -> Has("erase", Sbl)
      [] pass = "sblProgram" -> Has("program", Sbl)
      [] pass = "erase" /\ job.eraseAll -> Mine
      [] InLoop -> Mine /\ Cmd.part # Sbl
      [] OTHER -> TRUE

\* The erase of everything is the last.
LastRound == ~InLoop \/ row = Len(job.table) \/ (pass = "erase" /\ job.eraseAll /\ Wanted)

Onward ==
    /\ on' = "send"
    /\ IF LastRound THEN pass' = NextPass[pass] /\ row' = 1
                    ELSE row' = row + 1 /\ UNCHANGED pass
-----------------------------------------------------------------------------
(* Progress. *)

\* update_transfer_bytes: every change is sent as a message (built with
\* USE_IPC_MSG), so that this is the last number that was told.
Show(pc) == percent' = pc

Quiet == UNCHANGED <<moved, percent>>

Moves(n) == moved' = moved + n /\ Show(((moved + n) * 100) \div Total)
-----------------------------------------------------------------------------
FirehoseInit ==
    /\ job = [table |-> <<>>, only |-> None, eraseAll |-> FALSE, missing |-> {}]
    /\ pass = "configure" /\ row = 1 /\ on = "read" /\ resized = FALSE
    /\ sent = 0 /\ moved = 0 /\ percent = 0
    /\ ignored = {}
    /\ flash = [p \in Parts |-> "old"] /\ raw = None

\* fh_parse_xml_file.
FirehoseStart ==
    /\ ctl' = "firehose" /\ job' \in Jobs
    /\ pass' = "configure" /\ row' = 1 /\ on' = "read"
    /\ UNCHANGED <<wire, mod, ret, resized, sent, moved, percent, ignored, flash, raw>>

\* fh_fixup_program_cmd: the images that will be programmed are there. The
\* greetings of the loader are read away.
Fixup ==
    /\ Running("firehose") /\ on = "read"
    /\ on' = "send"
    /\ IF job.table # <<>> /\ Chosen \cap job.missing = {} THEN Stay ELSE Return("firehose", FALSE)
    /\ toHost' = <<>>
    /\ UNCHANGED <<toMod, mod, job, pass, row, resized, sent, moved, percent, ignored, flash, raw>>

\* Faulty: no failure ends the upgrade.
StepFailsQuietly ==
    IF Now.op # "reset"
    THEN Onward /\ Stay /\ ignored' = ignored \cup {Now.op}
    ELSE Return("firehose", FALSE) /\ UNCHANGED <<pass, row, on, ignored>>

Goto(place) == on' = place /\ UNCHANGED <<pass, row>>
StepDone == Onward /\ Stay /\ UNCHANGED ignored

\* What fh_process_sbl returns is not looked at.
StepFails ==
    IF pass \in {"sblErase", "sblProgram"}
    THEN Onward /\ Stay /\ ignored' = ignored \cup {Now.op}
    ELSE Return("firehose", FALSE) /\ UNCHANGED <<pass, row, on, ignored>>

\* The SBL is left out of the loop, though its bytes are counted.
NextRound ==
    /\ Running("firehose") /\ on = "send" /\ ~Wanted
    /\ StepDone
    /\ IF pass = "program" /\ Mine THEN Moves(Size[Sbl]) ELSE Quiet
    /\ UNCHANGED <<wire, mod, job, resized, sent, flash, raw>>

\* fh_send_cmd: that it failed shows only when no answer comes.
SendCommand ==
    /\ Running("firehose") /\ on = "send" /\ Wanted
    /\ Goto("wait")
    /\ \E ok \in BOOLEAN : Write(Now, ok)
    /\ UNCHANGED <<toHost, mod, ctl, ret, job, resized, sent, moved, percent, ignored, flash, raw>>

\* Faulty: the mode the module is in is not looked at.
AcceptsAnyMode == Msg.ack

\* The answer that lets the step go on; only that to program has a mode.
Accepts == Msg.ack /\ (Now.op = "program" => Msg.raw = (on = "wait"))

\* fh_wait_response_cmd and the checks after it.
ReadResponse ==
    /\ Running("firehose") /\ on \in {"wait", "end"}
    /\ Incoming /\ Consume
    /\ IF Now.op = "reset"
       THEN Return("firehose", TRUE) /\ UNCHANGED <<pass, row, on, ignored, resized, sent>>
       ELSE IF Now.op = "configure" /\ ~Msg.ack /\ Msg.size /\ ~resized
       THEN Goto("send") /\ resized' = TRUE /\ Stay /\ UNCHANGED <<ignored, sent>>
       ELSE /\ UNCHANGED resized
            /\ IF ~Accepts THEN StepFails /\ UNCHANGED sent
               ELSE IF Now.op # "program" \/ on = "end" THEN StepDone /\ UNCHANGED sent
               ELSE IF Now.part \in job.missing THEN StepFails /\ UNCHANGED sent
               ELSE Goto("data") /\ sent' = 0 /\ Stay /\ UNCHANGED ignored
    /\ Quiet
    /\ UNCHANGED <<toMod, mod, job, flash, raw>>

NoResponse ==
    /\ Running("firehose") /\ on \in {"wait", "end"} /\ NothingRead
    /\ StepFails /\ Quiet
    /\ UNCHANGED <<toMod, mod, job, resized, sent, flash, raw>>

\* fh_send_rawmode_image, one chunk: the bytes are counted before they are
\* written, against a total of zero if no image was selected. The module takes
\* them if it has nothing else to do; else the write does not end, or fails.
SendChunk ==
    /\ Running("firehose") /\ on = "data" /\ sent < Size[Now.part]
    /\ IF Total = 0
       THEN ctl' = "crashed" /\ UNCHANGED <<ret, pass, row, on, ignored, sent, flash>> /\ Quiet
       ELSE /\ Moves(1)
            /\ \/ /\ mod.usb # "absent" /\ toMod = <<>> /\ raw # None
                  /\ sent' = sent + 1
                  /\ IF sent + 1 = Size[Now.part] THEN Goto("end") ELSE UNCHANGED <<pass, row, on>>
                  /\ flash' = [flash EXCEPT ![raw] = IF raw # Now.part THEN "junk" ELSE @]
                  /\ Stay /\ UNCHANGED ignored
               \/ StepFails /\ UNCHANGED <<sent, flash>>
    /\ UNCHANGED <<wire, mod, job, resized, raw>>

-----------------------------------------------------------------------------
(* The loader (external). Where it waits for an image it takes whatever is *)
(* written for a part of it.                                               *)

Ack(isRaw) == [op |-> "response", ack |-> TRUE, raw |-> isRaw, size |-> FALSE]
Nak == [op |-> "response", ack |-> FALSE, raw |-> FALSE, size |-> FALSE]

LoaderTakes ==
    /\ Takes("loader") /\ ctl \in {"firehose", "end"}
    /\ \/ /\ raw # None /\ sent < Size[raw]
          /\ flash' = [flash EXCEPT ![raw] = "junk"]
          /\ Answers(<<>>) /\ UNCHANGED <<sent, raw>>
       \/ /\ raw = None /\ Answers(<<Nak>>) /\ UNCHANGED <<sent, flash, raw>>
       \/ /\ raw = None /\ Order.op = "configure"
          /\ Answers(<<[Nak EXCEPT !.size = TRUE]>>) /\ UNCHANGED <<sent, flash, raw>>
       \/ /\ raw = None /\ Answers(<<Ack(Order.op = "program")>>)
          /\ IF Order.op = "program"
             THEN raw' = Order.part /\ sent' = 0
             ELSE UNCHANGED <<sent, raw>>
          /\ flash' = CASE Order.op = "erase" -> [flash EXCEPT ![Order.part] = "erased"]
                        [] Order.op = "eraseAll" -> [p \in Parts |-> "erased"]
                        [] Order.op = "program" -> [flash EXCEPT ![Order.part] = "some"]
                        [] OTHER -> flash
    /\ UNCHANGED <<mod, ctl, ret, job, pass, row, on, resized, moved, percent, ignored>>

\* It has the whole image.
LoaderHasImage ==
    /\ mod.usb # "absent" /\ raw # None /\ sent = Size[raw]
    /\ raw' = None
    /\ \E ok \in BOOLEAN :
          /\ toHost' = Append(toHost, IF ok THEN Ack(FALSE) ELSE Nak)
          /\ flash' = [flash EXCEPT ![raw] = IF ok /\ @ = "some" THEN "new" ELSE @]
    /\ UNCHANGED <<toMod, mod, ctl, ret, job, pass, row, on, resized, sent, moved>>
    /\ UNCHANGED <<percent, ignored>>

FirehoseNext ==
    \/ Fixup \/ NextRound \/ SendCommand \/ ReadResponse \/ NoResponse \/ SendChunk
    \/ LoaderTakes \/ LoaderHasImage
-----------------------------------------------------------------------------
\* An image is sent only to a module that waits for this image: a late answer
\* to an earlier command must not be taken for the word to begin.
DataInStep ==
    Running("firehose") /\ on = "data" /\ mod.usb # "absent" => raw = Now.part

\* An upgrade that is reported as a success has programmed everything that
\* was asked for, but perhaps not the SBL.
SuccessProgrammed ==
    ret = [by |-> "firehose", ok |-> TRUE] =>
        \A p \in Chosen \ {Sbl} : flash[p] = "new"

\* "erase sbl first last program sbl": from the first erase to the end the
\* module has no SBL to start the rest with, unless its erase was refused,
\* wherever the upgrade breaks off.
BootsWhole ==
    /\ flash[Sbl] = "new" => \A p \in Chosen \ {Sbl} : flash[p] = "new"
    /\ flash[Sbl] = "old" /\ Has("erase", Sbl) /\ "erase" \notin ignored
          => \A p \in Parts \ {Sbl} : flash[p] = "old"
=============================================================================
