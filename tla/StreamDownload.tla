--------------------------- MODULE StreamDownload ---------------------------
(***************************************************************************)
(* stream_download of QFirehose 1.4: a module that has no 05c6:9008 mode   *)
(* yet is given the SBL which has it, by the loader Sahara has started.    *)
(*                                                                         *)
(* A request is sent and its answer waited for, five times 3 s; an answer  *)
(* has the code that belongs to its request. What has gone wrong once is   *)
(* not sent again, except the blocks of the image.                         *)
(***************************************************************************)
EXTENDS QUsb

CONSTANTS
    Blocks,    \* blocks of 1024 bytes in sbl1.mbn
    Patience,  \* timeout = 5: read time-outs before a request is given up
    Resends,   \* retry_cnt = 3, for the image as a whole
    MaxLogs    \* bound: messages with which the module tells something (0x0d)

ASSUME StreamAssumption ==
    /\ Blocks \in Nat \ {0} /\ Patience \in Nat \ {0}
    /\ Resends \in Nat \ {0} /\ MaxLogs \in Nat

VARIABLES
    str,      \* the request: [op, blk, waits, sends, sent]
    part,     \* the module: [1 .. Blocks -> the block of the image it has, or 0]
    logs

strVars == <<str, part, logs>>

Unwritten == [b \in 1 .. Blocks |-> 0]
Request(op, blk, sends) == [op |-> op, blk |-> blk, waits |-> Patience, sends |-> sends, sent |-> FALSE]

StreamInit == str = Request("hello", 0, Resends) /\ part = Unwritten /\ logs = 0

StreamStart ==
    /\ ctl' = "stream" /\ str' = Request("hello", 0, Resends)
    /\ UNCHANGED <<wire, mod, ret, part, logs>>

\* stread_fread of the partition table or of the SBL.
NoFile ==
    /\ Running("stream") /\ ~str.sent /\ str.op \in {"table", "override", "open"}
    /\ Return("stream", FALSE)
    /\ UNCHANGED <<wire, mod, strVars>>

\* pkt_write_multi_image is given the address of a block, and the first bytes
\* of the image whichever block it is.
Packet == IF str.op = "write" THEN [op |-> "write", blk |-> str.blk, from |-> 1]
                              ELSE [op |-> str.op]

\* compose_packet, send_packet: only a block that cannot be written is noticed.
SendRequest ==
    /\ Running("stream") /\ ~str.sent
    /\ \E ok \in BOOLEAN :
          /\ Write(Packet, ok)
          /\ CASE str.op = "reset" -> Return("stream", TRUE) /\ UNCHANGED str
               [] str.op = "write" /\ ~ok -> Return("stream", FALSE) /\ UNCHANGED str
               [] OTHER -> str' = [str EXCEPT !.sent = TRUE] /\ Stay
    /\ UNCHANGED <<toHost, mod, part, logs>>

Following ==
    CASE str.op = "hello" -> Request("trust", 0, Resends)
      [] str.op = "trust" -> Request("table", 0, Resends)
      [] str.op = "table" -> Request("open", 0, Resends)
      [] str.op = "override" -> Request("flag", 0, Resends)
      [] str.op = "flag" -> Request("open", 0, Resends)
      [] str.op = "open" -> Request("write", 1, Resends)
      [] str.op = "write" /\ str.blk < Blocks -> Request("write", str.blk + 1, str.sends)
      [] str.op = "write" /\ str.blk = Blocks -> Request("close", 0, Resends)
      [] str.op = "close" -> Request("reset", 0, Resends)

\* The request has failed: the partition table is sent again to override the
\* old one, the download flag does not matter, a block is sent again.
Failed ==
    CASE str.op = "table" -> str' = Request("override", 0, Resends) /\ Stay
      [] str.op = "flag" -> str' = Following /\ Stay
      [] str.op = "write" /\ str.sends > 1 ->
           str' = Request("write", str.blk, str.sends - 1) /\ Stay
      [] OTHER -> Return("stream", FALSE) /\ UNCHANGED str

\* Faulty: any answer will do.
AnyAnswer == Msg.ok

\* The code of the answer; both partition tables have the same.
Code(op) == IF op = "override" THEN "table" ELSE op

Expected == Msg.op = Code(str.op) /\ Msg.ok

\* A log is skipped where it is expected.
ReadAnswer ==
    /\ Running("stream") /\ str.sent
    /\ Incoming /\ Consume
    /\ IF Expected THEN str' = Following /\ Stay
       ELSE IF Msg.op = "log" /\ str.op \in {"hello", "open"} THEN UNCHANGED <<str, ctl, ret>>
       ELSE Failed
    /\ UNCHANGED <<toMod, mod, part, logs>>

AnswerLate ==
    /\ Running("stream") /\ str.sent /\ NothingRead
    /\ IF str.op # "write" /\ str.waits > 1
       THEN str' = [str EXCEPT !.waits = @ - 1] /\ Stay
       ELSE Failed
    /\ UNCHANGED <<toMod, mod, part, logs>>
-----------------------------------------------------------------------------
(* The loader NPRG (external): an answer to each request. *)

StreamTakes ==
    /\ Running("stream") /\ Takes("loader")
    /\ \E ok \in BOOLEAN :
          /\ Answers(<<[op |-> Code(Order.op), ok |-> ok]>>)
          /\ part' = CASE ok /\ Order.op = "open" -> Unwritten
                       [] ok /\ Order.op = "write" -> [part EXCEPT ![Order.blk] = Order.from]
                       [] OTHER -> part
    /\ UNCHANGED <<mod, ctl, ret, str, logs>>

StreamLog ==
    /\ Running("stream") /\ mod.usb # "absent" /\ mod.runs = "loader"
    /\ logs < MaxLogs /\ logs' = logs + 1
    /\ toHost' = Append(toHost, [op |-> "log", ok |-> TRUE])
    /\ UNCHANGED <<toMod, mod, ctl, ret, str, part>>

StreamNext ==
    \/ NoFile \/ SendRequest \/ ReadAnswer \/ AnswerLate
    \/ StreamTakes \/ StreamLog

\* When stream_download reports success the module has taken every block: an
\* answer that came late, to a block that was sent twice, must not stand for
\* the answer to another block for good (handle_write does not look at the
\* address in the answer).
StreamWhole ==
    ret = [by |-> "stream", ok |-> TRUE] => \A b \in 1 .. Blocks : part[b] # 0
=============================================================================
