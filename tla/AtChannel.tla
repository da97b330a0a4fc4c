------------------------------ MODULE AtChannel ------------------------------
(***************************************************************************)
(* atchannel.c of quectel-CM 1.6.1: one thread sends AT commands and waits *)
(* for each answer, another reads the lines of the modem and sorts them    *)
(* into the answer of the pending command and unsolicited ones. Nothing in *)
(* a line says which command it answers.                                   *)
(*                                                                         *)
(* A step holds the command mutex, which the wait for the answer releases. *)
(* Time is left out: a modem that is not busy answers within the shortest  *)
(* time-out, one that is busy may miss any of them. What a line answers    *)
(* ("mine": the pending command) is known to the model, not to the code.   *)
(***************************************************************************)
EXTENDS Naturals, Sequences

CONSTANTS
    MaxLate,   \* bound: commands without an answer
    None

Marks == {"+REG", "+STAT", "+CTL", "+CGACT", "+COPS", "+NAT", "+ADDR", "+QICSGP", "+CGDCONT", None}
Types == {"no result", "single", "multi"}
Finals == {"ok", "error"}
Lines == [kind : Finals \cup {"info", "urc", "sms", "pdu"}, prefix : Marks,
          val : BOOLEAN, mine : BOOLEAN]
Events == {"registration", "calls", "disconnected"}

VARIABLES
    tty,          \* the device: "up" or "hung"
    open,         \* s_fd >= 0: from at_open to at_close
    reader,       \* the reader thread: "reads", "pdu" (in the middle of a message), "gone"
    readerClosed, \* s_readerClosed
    pending,      \* sp_response, s_type and s_responsePrefix, or None
    sent,         \* commands the modem has not answered yet
    lines,        \* lines the reader has not read yet
    busy,         \* the modem boots or is held up, and answers nothing
    events,       \* qmidevice_control_fd; an event twice is as good as once
    spoiled       \* answers were late after the hand-shake, or swallowed

chVars == <<tty, open, reader, readerClosed, pending, sent, lines, busy, events, spoiled>>

ChInit ==
    /\ tty = "up" /\ open = TRUE /\ reader = "reads" /\ readerClosed = FALSE
    /\ pending = None /\ sent = <<>> /\ lines = <<>>
    /\ busy \in BOOLEAN /\ events = {} /\ spoiled = FALSE

Line(k, p, v, m) == [kind |-> k, prefix |-> p, val |-> v, mine |-> m]

\* clearPendingCommand, or the response handed to the caller: whatever still
\* comes for this command is nobody's.
NotMine(q) == [i \in DOMAIN q |-> [q[i] EXCEPT !.mine = FALSE]]

Drop ==
    /\ pending' = None
    /\ sent' = NotMine(sent) /\ lines' = NotMine(lines)
    /\ UNCHANGED <<tty, open, reader, readerClosed, busy>>

\* at_send_command_full_nolock up to the wait. A command that cannot be
\* written fails at once.
Writable == open /\ ~readerClosed /\ tty = "up"

Send(c, t, p) ==
    /\ pending' = [type |-> t, prefix |-> p, infos |-> <<>>, final |-> None,
                   mine |-> TRUE, late |-> busy, written |-> Writable]
    /\ sent' = NotMine(sent) \o IF Writable THEN <<[cmd |-> c, mine |-> TRUE]>> ELSE <<>>
    /\ lines' = NotMine(lines)
    /\ UNCHANGED <<tty, open, reader, readerClosed, busy>>

\* The modem has answered the pending command, or will within the time-out.
Expected ==
    /\ ~busy /\ ~pending.late
    /\ \/ \E i \in DOMAIN sent : sent[i].mine
       \/ \E i \in DOMAIN lines : lines[i].mine
       \/ pending.final # None /\ pending.mine

Reply(err, infos) == [err |-> err, infos |-> infos, mine |-> pending.mine]

\* How the wait may end now: what at_send_command_* returns and stores. A
\* command with a single line as its result must have it when it succeeds.
Outcomes ==
    IF pending = None THEN {}
    ELSE IF readerClosed \/ ~pending.written THEN {Reply("closed", <<>>)}
    ELSE {Reply("timeout", <<>>) : x \in IF Expected \/ Len(sent) > MaxLate THEN {} ELSE {0}}
         \cup {Reply(IF f = "error" THEN "error"
                     ELSE IF pending.type = "single" /\ pending.infos = <<>> THEN "invalid"
                     ELSE None, pending.infos)
                 : f \in {pending.final} \ {None}}

-----------------------------------------------------------------------------
\* onUnsolicited: an answer that nobody waits for counts as news too.
Raised(l) ==
    CASE l.prefix = "+REG" -> {"registration"}
      [] l.prefix = "+STAT" -> {"calls"}
      [] OTHER -> {}

\* Faulty: a command with one line of result claims every line.
ClaimsAny(l) ==
    /\ pending # None /\ l.kind \in {"info", "urc"}
    /\ \/ pending.type = "single" /\ pending.infos = <<>>
       \/ pending.type = "multi"

\* A line that becomes part of the pending answer.
Claims(l) ==
    /\ pending # None /\ l.kind \in {"info", "urc"} /\ l.prefix = pending.prefix
    /\ \/ pending.type = "single" /\ pending.infos = <<>>
       \/ pending.type = "multi"

ProcessLine(l) ==
    /\ pending' = CASE pending # None /\ l.kind \in Finals ->
                         [pending EXCEPT !.final = l.kind, !.mine = @ /\ l.mine]
                    [] Claims(l) -> [pending EXCEPT !.infos = Append(@, l.val),
                                                    !.mine = @ /\ (l.mine \/ l.kind = "urc")]
                    [] OTHER -> pending
    /\ events' = IF (pending # None /\ l.kind \in Finals) \/ Claims(l)
                 THEN events ELSE events \cup Raised(l)

\* readerLoop: the first line of a message brings the next one along,
\* whatever it is.
ReadLine ==
    /\ reader = "reads" /\ open /\ lines # <<>>
    /\ lines' = Tail(lines)
    /\ IF Head(lines).kind = "sms"
       THEN reader' = "pdu" /\ UNCHANGED <<pending, events>>
       ELSE reader' = reader /\ ProcessLine(Head(lines))
    /\ UNCHANGED <<tty, open, readerClosed, sent, busy, spoiled>>

ReadSecond ==
    /\ reader = "pdu" /\ open /\ lines # <<>>
    /\ lines' = Tail(lines) /\ reader' = "reads"
    /\ spoiled' = (spoiled \/ Head(lines).kind # "pdu")
    /\ UNCHANGED <<tty, open, readerClosed, pending, sent, busy, events>>

\* readline returns NULL and onReaderClosed releases the caller. A reader that
\* at_close finds in poll() stays there until the device hangs up.
ReaderEnds ==
    /\ reader # "gone" /\ tty = "hung"
    /\ reader' = "gone" /\ readerClosed' = TRUE
    /\ UNCHANGED <<tty, open, pending, sent, lines, busy, events, spoiled>>

\* atc_read_thread notices that the device is gone: at_close.
ThreadEnds ==
    /\ open /\ tty = "hung"
    /\ open' = FALSE /\ readerClosed' = TRUE
    /\ events' = events \cup {"disconnected"}
    /\ UNCHANGED <<tty, reader, pending, sent, lines, busy, spoiled>>
=============================================================================
