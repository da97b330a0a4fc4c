------------------------------- MODULE Sahara -------------------------------
(***************************************************************************)
(* sahara_main of QFirehose 1.4: the boot ROM of the module asks for its   *)
(* loader, range by range, and runs it.                                    *)
(***************************************************************************)
EXTENDS QUsb

CONSTANT Ranges   \* the number of ranges the module asks for

ASSUME SaharaAssumption == Ranges \in Nat \ {0}

VARIABLES
    sah,      \* the host: "hello", "again", "command" or "done"
    image,    \* image_id of END_IMAGE_TX
    rom       \* the module: ranges it has, and whether it runs the loader

sahVars == <<sah, image, rom>>

\* image_id 7 and 13 are loaders that come alone, another is one of several.
Images == {"loader", "other"}

SaharaInit == sah = "hello" /\ image = "loader" /\ rom = 0

\* qfile_find_xmlfile and fopen of the loader.
SaharaStart(found) ==
    /\ sah' = "hello" /\ image' = "loader"
    /\ IF found THEN ctl' = "sahara" /\ UNCHANGED ret ELSE Return("sahara", FALSE)
    /\ UNCHANGED <<wire, mod, rom>>

\* No hello: one byte is written, and a hello waited for once more.
HelloLate ==
    /\ Running("sahara") /\ sah \in {"hello", "again"} /\ NothingRead
    /\ IF sah = "hello"
       THEN sah' = "again" /\ Stay /\ \E ok \in BOOLEAN : Write([op |-> "nudge"], ok)
       ELSE Return("sahara", FALSE) /\ UNCHANGED <<sah, toMod>>
    /\ UNCHANGED <<mod, image, rom>>

Hello ==
    /\ Running("sahara") /\ sah \in {"hello", "again"}
    /\ Incoming /\ Consume
    /\ \E ok \in BOOLEAN :
          /\ IF Msg.op # "hello"
             THEN Write([op |-> "reset"], ok) /\ Return("sahara", FALSE) /\ UNCHANGED sah
             ELSE /\ Write([op |-> "helloResp"], ok)
                  /\ IF ok THEN sah' = "command" /\ Stay
                           ELSE Return("sahara", FALSE) /\ UNCHANGED sah
    /\ UNCHANGED <<mod, image, rom>>

\* The loop: a failed start_image_transfer (ok is FALSE) goes unnoticed, a
\* second hello is not answered, and DONE may not get out.
Command ==
    /\ Running("sahara") /\ sah = "command"
    /\ Incoming /\ Consume
    /\ \E ok \in BOOLEAN :
          CASE Msg.op = "read" ->
                 Write([op |-> "data", range |-> Msg.range], ok) /\ Stay /\ UNCHANGED <<sah, image>>
            [] Msg.op = "end" /\ Msg.ok ->
                 /\ Write([op |-> "done"], ok) /\ Stay
                 /\ sah' = "done" /\ image' = Msg.image
            [] Msg.op = "end" /\ ~Msg.ok ->
                 Return("sahara", FALSE) /\ UNCHANGED <<toMod, sah, image>>
            [] Msg.op = "hello" -> UNCHANGED <<toMod, ctl, ret, sah, image>>
            [] OTHER ->
                 Write([op |-> "reset"], ok) /\ Return("sahara", FALSE) /\ UNCHANGED <<sah, image>>
    /\ UNCHANGED <<mod, rom>>

\* Any message counts as DONE_RESP; only that one has a status which passes.
Done ==
    /\ Running("sahara") /\ sah = "done"
    /\ Incoming /\ Consume
    /\ Return("sahara", Msg.op = "doneResp" /\ (Msg.status = "complete" \/ image = "loader"))
    /\ UNCHANGED <<toMod, mod, sahVars>>

CommandLate ==
    /\ Running("sahara") /\ sah \in {"command", "done"} /\ NothingRead
    /\ Return("sahara", FALSE)
    /\ UNCHANGED <<toMod, mod, sahVars>>
-----------------------------------------------------------------------------
(* The boot ROM (external). *)

\* A hello, when it starts or is nudged.
RomHello ==
    /\ mod.runs = "boot" /\ mod.usb \in {"dload", "edl"}
    /\ rom = 0 /\ toHost = <<>> /\ Running("sahara")
    /\ sah \in {"hello", "again"}
    /\ toHost' = <<[op |-> "hello"]>>
    /\ UNCHANGED <<toMod, mod, ctl, ret, sahVars>>

Ended(ok, i) == [op |-> "end", ok |-> ok, image |-> i]

\* Where it was interrupted before it takes the byte for data that is wrong.
RomTakes ==
    /\ Takes("boot")
    /\ CASE Order.op = "nudge" ->
              /\ \E a \in {[op |-> "hello"], Ended(FALSE, "other")} : Answers(<<a>>)
              /\ UNCHANGED <<mod, rom>>
         [] Order.op = "helloResp" ->
              /\ \E a \in {[op |-> "read", range |-> 1], [op |-> "memoryDebug"]} : Answers(<<a>>)
              /\ UNCHANGED <<mod, rom>>
         [] Order.op = "data" ->
              /\ rom' = Order.range
              /\ IF Order.range < Ranges
                 THEN Answers(<<[op |-> "read", range |-> Order.range + 1]>>)
                 ELSE \E ok \in BOOLEAN, i \in Images :
                         Answers(<<Ended(ok, i)>>)
              /\ UNCHANGED mod
         [] Order.op = "done" ->
              /\ \E s \in {"complete", "pending"} : Answers(<<[op |-> "doneResp", status |-> s]>>)
              /\ mod' = [mod EXCEPT !.runs = "loader"]
              /\ UNCHANGED rom
         [] OTHER -> Boots({Gone}) /\ rom' = 0
    /\ UNCHANGED <<ctl, ret, sah, image>>

SaharaNext ==
    \/ HelloLate \/ Hello \/ Command \/ Done \/ CommandLate
    \/ RomHello \/ RomTakes
=============================================================================
