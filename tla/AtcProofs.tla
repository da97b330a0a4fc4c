------------------------------ MODULE AtcProofs ------------------------------
(***************************************************************************)
(* Proofs about Atc, for any number of tries, polls, ignored commands and  *)
(* events: the dialect the program uses is that of the modem (StyleRight), *)
(* and main() learns of a lost network or call (NewsComes). An answer has  *)
(* no id: that one is the answer to the pending command follows from there *)
(* being no other on its way, and what it says must still be so, or else   *)
(* the report of the change is behind it.                                  *)
(***************************************************************************)
EXTENDS Atc, SequenceTheorems, TLAPS

USE DEF chVars, atcVars, modemVars, vars

Asking == Commands \ {"handshake"}
Orders == [cmd : Commands, mine : BOOLEAN]
TypeOf(s) == IF s \in Plain THEN "no result" ELSE IF s \in Multi THEN "multi" ELSE "single"
PrefixOf(s) == IF s \in Plain THEN None ELSE Prefix[s]

\* No answer was late, and the reader is there; also, the device is.
Calmly == ~spoiled /\ ~readerClosed
Live == ~spoiled /\ tty = "up"

ChTypes ==
    /\ tty \in {"up", "hung"} /\ reader \in {"reads", "pdu", "gone"}
    /\ open \in BOOLEAN /\ readerClosed \in BOOLEAN /\ busy \in BOOLEAN /\ spoiled \in BOOLEAN
    /\ pending # None => pending \in
          [type : Types, prefix : Marks, infos : Seq(BOOLEAN), final : Finals \cup {None},
           mine : BOOLEAN, late : BOOLEAN, written : BOOLEAN]
    /\ sent \in Seq(Orders) /\ lines \in Seq(Lines)
    /\ step \in Steps

MainTypes ==
    /\ asr \in BOOLEAN /\ attached \in BOOLEAN /\ status \in {"unknown", "up", "down"}
    /\ modem \in Modems /\ (modem.asr \/ modem.trailing = "none")

\* A command reaches a modem that is there, and is pending as it was sent.
AskedFor ==
    /\ tty = "up" => open /\ ~readerClosed /\ (pending # None => pending.written)
    /\ step \notin Commands => pending = None
    /\ pending # None => pending.type = TypeOf(step) /\ pending.prefix = PrefixOf(step)

\* Only answers and reports have a prefix.
Shapes ==
    \A i \in 1 .. Len(lines) :
        /\ lines[i].kind = "urc" => lines[i].prefix \in {"+REG", "+STAT"}
        /\ lines[i].kind \notin {"info", "urc"} => lines[i].prefix = None

NoFinal == \A i \in 1 .. Len(lines) : lines[i].kind \notin Finals

\* The lines of an answer have its end behind them.
Ends ==
    \A i \in 1 .. Len(lines) :
        lines[i].kind = "info" => \E j \in 1 .. Len(lines) : j > i /\ lines[j].kind \in Finals

OneEnd ==
    \A i, j \in 1 .. Len(lines) : lines[i].kind \in Finals /\ lines[j].kind \in Finals => i = j

\* Nothing of an answer is on its way.
Nothing == sent = <<>> /\ NoFinal /\ Ends

\* Past the hand-shake: the command is with the modem, or the end of its
\* answer is on its way, or it has come.
OneOrder ==
    Calmly /\ step \in Asking =>
        /\ Ends
        /\ OneEnd
        /\ sent # <<>> => Len(sent) = 1 /\ sent[1].cmd = step /\ NoFinal
        /\ pending # None =>
             /\ pending.final # None \/ ~pending.written => sent = <<>> /\ NoFinal
             /\ pending.written /\ pending.final = None /\ sent = <<>> => ~NoFinal

ChInv ==
    /\ AskedFor /\ Shapes /\ OneOrder
    /\ Calmly /\ step = "idle" => Nothing

\* The commands whose answer, if it is not an error, has a line, and those
\* that are never refused.
Lined == {"style", "cops", "reg", "query", "netdev"}
Granted == {"cops", "reg"} \cup IF modem.asr THEN {} ELSE {"style"}

LineThere ==
    Calmly /\ step \in Lined /\ pending # None =>
        /\ \A i \in 1 .. Len(lines) : lines[i].kind = "ok" =>
              \/ pending.infos # <<>>
              \/ \E j \in 1 .. Len(lines) :
                    j < i /\ lines[j].kind = "info" /\ lines[j].prefix = Prefix[step]
        /\ pending.final = "ok" => pending.infos # <<>>

NotRefused ==
    Calmly /\ step \in Granted /\ pending # None =>
        /\ \A i \in 1 .. Len(lines) : lines[i].kind # "error"
        /\ pending.final # "error"

\* The last line of the list is that of another context, which is up.
Shadowed == modem.asr /\ modem.trailing = "up"

\* What the answer says is so.
Regs == {"cops", "reg"}
Telling == Regs \cup {"query", "netdev", "address", "states"}
Truth(v) == IF step \in Regs THEN v = modem.reg ELSE v => On \/ Shadowed
Mark == IF step \in Regs THEN "+REG" ELSE "+STAT"

\* Coming, apart for lines and events.
OnTheWay(p) == \E i \in 1 .. Len(lines) : lines[i].prefix = p
Event == IF step \in Regs THEN "registration" ELSE "calls"
News == Event \in events \/ OnTheWay(Mark)

\* A report that was taken for the answer: the answer will be the news.
Refused == pending.final = "error" \/ \E i \in 1 .. Len(lines) : lines[i].kind = "error"
Taken == step \in {"reg", "query", "netdev"} /\ (sent # <<>> \/ Refused)

\* What an answer says is so, or there is news behind it.
Told ==
    Live /\ step \in Telling /\ pending # None =>
        /\ \A i \in 1 .. Len(lines) : lines[i].kind = "info" /\ lines[i].prefix = Prefix[step] =>
              Truth(lines[i].val) \/ \E j \in 1 .. Len(lines) : j > i /\ lines[j].prefix = Mark
        /\ \A k \in 1 .. Len(pending.infos) : Truth(pending.infos[k]) \/ News \/ Taken

\* The requests before the loop of main().
Early == {"start", "handshake", "pause", "ignored", "style", "nat", "setNat", "reboot", "getProfile",
          "emptyProfile", "contexts", "setProfile", "setContext"}
StatusInv ==
    /\ step \in Early => status = "unknown"
    /\ step \in {"active", "activate", "dial", "status"} => status # "up"

InLoop ==
    \/ step \in {"idle", "query", "states", "bindings", "active", "activate", "dial", "status",
                 "netdev", "address"}
    \/ step = "report" /\ status # "unknown"

\* Where main() is not about to learn it anyway, it is right about the
\* registration and the call, or news is on its way.
RegKnown ==
    Live /\ InLoop /\ attached # modem.reg => "registration" \in events \/ OnTheWay("+REG")
CallKnown ==
    Live /\ step \notin {"query", "bindings", "states", "netdev", "hangup", "left"}
         /\ status = "up" /\ ~On /\ ~Shadowed => "calls" \in events \/ OnTheWay("+STAT")

AnswerInv == LineThere /\ NotRefused /\ Told
NewsInv == StatusInv /\ RegKnown /\ CallKnown

IInv == ChTypes /\ MainTypes /\ ChInv /\ AnswerInv /\ NewsInv /\ StyleRight
-----------------------------------------------------------------------------
\* The messages of a sequence that are nobody's any more.
LEMMA NobodysSeq ==
    ASSUME NEW S, NEW q \in Seq(S), NEW T,
           \A i \in 1 .. Len(q) : [q[i] EXCEPT !.mine = FALSE] \in T
    PROVE  /\ NotMine(q) \in Seq(T) /\ Len(NotMine(q)) = Len(q)
           /\ \A i \in 1 .. Len(q) : NotMine(q)[i] = [q[i] EXCEPT !.mine = FALSE]
<1>1. DOMAIN q = 1 .. Len(q) /\ Len(q) \in Nat
  BY LenProperties
<1>2. NotMine(q) \in [1 .. Len(q) -> T]
  BY <1>1 DEF NotMine
<1> QED
  BY <1>1, <1>2, IsASeq, LenProperties DEF NotMine

\* What still comes for an earlier command is what it was.
LEMMA Nobodys ==
    ASSUME ChTypes
    PROVE  /\ NotMine(sent) \in Seq(Orders) /\ Len(NotMine(sent)) = Len(sent)
           /\ NotMine(lines) \in Seq(Lines) /\ Len(NotMine(lines)) = Len(lines)
           /\ \A i \in 1 .. Len(lines) :
                 /\ NotMine(lines)[i].kind = lines[i].kind
                 /\ NotMine(lines)[i].prefix = lines[i].prefix
                 /\ NotMine(lines)[i].val = lines[i].val
<1>1. /\ sent \in Seq(Orders) /\ lines \in Seq(Lines)
      /\ \A i \in 1 .. Len(sent) : sent[i] \in Orders
      /\ \A i \in 1 .. Len(lines) : lines[i] \in Lines
  BY ElementOfSeq DEF ChTypes
<1>2. \A x \in Orders : [x EXCEPT !.mine = FALSE] \in Orders
  BY DEF Orders
<1>3. \A x \in Lines : LET y == [x EXCEPT !.mine = FALSE]
                       IN  y \in Lines /\ y.kind = x.kind /\ y.prefix = x.prefix /\ y.val = x.val
  BY DEF Lines
<1>4. NotMine(sent) \in Seq(Orders) /\ Len(NotMine(sent)) = Len(sent)
  BY <1>1, <1>2, NobodysSeq
<1>5. /\ NotMine(lines) \in Seq(Lines) /\ Len(NotMine(lines)) = Len(lines)
      /\ \A i \in 1 .. Len(lines) : NotMine(lines)[i] = [lines[i] EXCEPT !.mine = FALSE]
  BY <1>1, <1>3, NobodysSeq
<1> QED
  BY <1>1, <1>3, <1>4, <1>5

\* The lines are those there were, but for whose they are.
SameLines ==
    /\ lines' \in Seq(Lines) /\ Len(lines') = Len(lines)
    /\ \A i \in 1 .. Len(lines) :
          lines'[i].kind = lines[i].kind /\ lines'[i].prefix = lines[i].prefix /\ lines'[i].val = lines[i].val

LEMMA SameLinesFacts ==
    ASSUME ChTypes, SameLines
    PROVE  /\ NoFinal' <=> NoFinal
           /\ Ends' <=> Ends
           /\ Shapes' <=> Shapes
           /\ \A p : OnTheWay(p)' <=> OnTheWay(p)
  BY DEF SameLines, ChTypes, NoFinal, Ends, Shapes, OnTheWay

\* A command that goes out, when nothing of another answer is on its way.
LEMMA AskKept ==
    ASSUME ChTypes, ChInv, NEW s \in Commands, Ask(s), spoiled' \in BOOLEAN, spoiled => spoiled',
           s # "handshake" /\ Calmly' => Nothing
    PROVE  ChTypes' /\ ChInv' /\ AnswerInv' /\ SameLines /\ step' = s /\ UNCHANGED <<tty, readerClosed>>
<1> DEFINE new == [type |-> TypeOf(s), prefix |-> PrefixOf(s), infos |-> <<>>, final |-> None,
                   mine |-> TRUE, late |-> busy, written |-> Writable]
<1>1. /\ step' = s /\ pending' = new
      /\ lines' = NotMine(lines)
      /\ sent' = NotMine(sent) \o IF Writable THEN <<[cmd |-> s, mine |-> TRUE]>> ELSE <<>>
      /\ UNCHANGED <<tty, open, reader, readerClosed, busy>>
  BY DEF Ask, Send, TypeOf, PrefixOf, Plain, Multi
<1>2. Writable \in BOOLEAN
  BY DEF Writable
<1>3. new \in [type : Types, prefix : Marks, infos : Seq(BOOLEAN), final : Finals \cup {None},
               mine : BOOLEAN, late : BOOLEAN, written : BOOLEAN]
  <2>1. TypeOf(s) \in Types
    BY DEF TypeOf, Types
  <2>2. PrefixOf(s) \in Marks
    BY DEF PrefixOf, Marks, Commands, Prefix
  <2>3. busy \in BOOLEAN /\ <<>> \in Seq(BOOLEAN)
    BY EmptySeq DEF ChTypes
  <2>. QED  BY <2>1, <2>2, <2>3, <1>2
<1>4. SameLines
  BY <1>1, Nobodys DEF SameLines
<1>5. sent' \in Seq(Orders)
  <2>1. [cmd |-> s, mine |-> TRUE] \in Orders
    BY DEF Orders
  <2>. QED  BY <2>1, <1>1, Nobodys
<1>6. sent = <<>> => sent' = IF Writable THEN <<[cmd |-> s, mine |-> TRUE]>> ELSE <<>>
  <2>1. SUFFICES ASSUME sent = <<>> PROVE NotMine(sent) = <<>>
    BY <1>1
  <2>. QED  BY <2>1, Nobodys, EmptySeq
<1>7. pending'.infos = <<>> /\ pending'.final = None /\ pending'.type = TypeOf(s) /\ pending'.prefix = PrefixOf(s)
      /\ pending'.written = Writable
  BY <1>1
<1>8. ChTypes'
  BY <1>1, <1>3, <1>4, <1>5 DEF ChTypes, SameLines, Steps
<1> HIDE DEF new
<1>9. s \in Asking /\ Calmly' => Nothing
  BY DEF Asking
<1>10. ChInv'
  <2>1. AskedFor'
    BY <1>1, <1>7 DEF ChInv, AskedFor, Writable
  <2>2. Shapes'
    BY <1>4, SameLinesFacts DEF ChInv
  <2>3. OneOrder'
    <3> SUFFICES ASSUME Calmly', s \in Asking PROVE OneOrder'
      BY <1>1 DEF OneOrder
    <3>1. Ends' /\ NoFinal'
      BY <1>9, <1>4, SameLinesFacts DEF Nothing
    <3>2. sent' = IF Writable THEN <<[cmd |-> s, mine |-> TRUE]>> ELSE <<>>
      BY <1>6, <1>9 DEF Nothing
    <3>3. sent' # <<>> => Len(sent') = 1 /\ sent'[1].cmd = step'
      BY <3>2, <1>1
    <3>4. Writable => sent' # <<>>
      BY <3>2
    <3>. QED  BY <3>1, <3>2, <3>3, <3>4, <1>7 DEF OneOrder, OneEnd, NoFinal
  <2>4. step' # "idle"
    BY <1>1 DEF Commands, Prefix, Plain
  <2>. QED  BY <2>1, <2>2, <2>3, <2>4 DEF ChInv
<1>11. AnswerInv'
  <2>1. s = "handshake" => step' \notin Lined /\ step' \notin Telling /\ step' \notin Granted'
    BY <1>1 DEF Lined, Telling, Regs, Granted
  <2>2. s \in Asking /\ Calmly' => NoFinal' /\ Ends'
    BY <1>9, <1>4, SameLinesFacts DEF Nothing
  <2>3. s \in Asking /\ Calmly' => \A i \in 1 .. Len(lines') : lines'[i].kind \notin {"ok", "error", "info"}
    BY <2>2 DEF NoFinal, Ends, Finals
  <2>4. pending'.infos = <<>> /\ pending'.final \notin Finals
    BY <1>7, AtcAssumption
  <2>5. AskedFor'
    BY <1>10 DEF ChInv
  <2>6. s \in Commands /\ step' = s /\ (s # "handshake" => s \in Asking)
    BY <1>1 DEF Asking
  <2>7. LineThere'
    BY <2>1, <2>3, <2>4, <2>6 DEF LineThere, Finals
  <2>8. NotRefused'
    BY <2>1, <2>3, <2>4, <2>6 DEF NotRefused, Finals
  <2>9. Told'
    BY <2>1, <2>3, <2>4, <2>5, <2>6 DEF Told, Live, Calmly, AskedFor
  <2>. QED  BY <2>7, <2>8, <2>9 DEF AnswerInv
<1> QED  BY <1>1, <1>4, <1>8, <1>10, <1>11

\* The end of a command, after which main() rests, waits or leaves.
LEMMA RestKept ==
    ASSUME ChTypes, ChInv, NEW s \in {"idle", "pause", "left"}, Rest(s), spoiled' \in BOOLEAN,
           s = "idle" /\ Calmly' => Nothing
    PROVE  ChTypes' /\ ChInv' /\ AnswerInv' /\ SameLines /\ step' = s /\ UNCHANGED <<tty, readerClosed>>
<1>1. /\ step' = s /\ pending' = None
      /\ lines' = NotMine(lines) /\ sent' = NotMine(sent)
      /\ UNCHANGED <<tty, open, reader, readerClosed, busy>>
  BY DEF Rest, Drop
<1>2. SameLines
  BY <1>1, Nobodys DEF SameLines
<1>3. sent' \in Seq(Orders) /\ (sent = <<>> => sent' = <<>>)
  BY <1>1, Nobodys, EmptySeq
<1>4. ChTypes'
  BY <1>1, <1>2, <1>3 DEF ChTypes, SameLines, Steps
<1>5. step' \notin Commands
  BY <1>1 DEF Commands, Prefix, Plain
<1>6. ChInv'
  BY <1>1, <1>2, <1>3, <1>5, SameLinesFacts DEF ChInv, AskedFor, OneOrder, Asking, Nothing
<1>7. AnswerInv'
  BY <1>1 DEF AnswerInv, LineThere, NotRefused, Told
<1> QED  BY <1>1, <1>2, <1>4, <1>6, <1>7

\* A sequence without its first element.
LEMMA TailFacts ==
    ASSUME NEW S, NEW q \in Seq(S), q # <<>>
    PROVE  /\ Tail(q) \in Seq(S) /\ Len(q) \in Nat \ {0} /\ Len(Tail(q)) = Len(q) - 1
           /\ Head(q) = q[1] /\ q[1] \in S
           /\ \A i \in 1 .. Len(Tail(q)) : i + 1 \in 1 .. Len(q) /\ Tail(q)[i] = q[i + 1]
           /\ \A i \in 1 .. Len(q) : i = 1 \/ (i - 1 \in 1 .. Len(Tail(q)) /\ Tail(q)[i - 1] = q[i])
<1>1. Len(q) \in Nat \ {0} /\ Tail(q) \in Seq(S) /\ Len(Tail(q)) = Len(q) - 1 /\ Head(q) = q[1]
  OBVIOUS
<1>2. q[1] \in S
  BY <1>1
<1>3. \A i \in 1 .. Len(q) - 1 : Tail(q)[i] = q[i + 1]
  BY <1>1
<1> QED  BY <1>1, <1>2, <1>3

\* The line that is read is taken off.
OneRead ==
    /\ lines # <<>> /\ lines[1] \in Lines
    /\ lines' \in Seq(Lines) /\ Len(lines) \in Nat \ {0} /\ Len(lines') = Len(lines) - 1
    /\ \A i \in 1 .. Len(lines') : i + 1 \in 1 .. Len(lines) /\ lines'[i] = lines[i + 1]
    /\ \A i \in 1 .. Len(lines) : i = 1 \/ (i - 1 \in 1 .. Len(lines') /\ lines'[i - 1] = lines[i])

\* What a line that is read leaves as it was, and what it needs.
LEMMA OneReadFacts ==
    ASSUME OneRead
    PROVE  /\ Shapes => Shapes'
           /\ NoFinal => NoFinal'
           /\ Ends => Ends'
           /\ OneEnd => OneEnd'
           /\ lines[1].kind \notin Finals => (NoFinal' => NoFinal)
           /\ \A p : OnTheWay(p) => lines[1].prefix = p \/ OnTheWay(p)'
<1>1. Shapes => Shapes'
  BY DEF OneRead, Shapes
<1>2. NoFinal => NoFinal'
  BY DEF OneRead, NoFinal
<1>3. ASSUME Ends PROVE Ends'
  <2> SUFFICES ASSUME NEW i \in 1 .. Len(lines'), lines'[i].kind = "info"
               PROVE  \E j \in 1 .. Len(lines') : j > i /\ lines'[j].kind \in Finals
    BY DEF Ends
  <2>1. PICK j \in 1 .. Len(lines) : j > i + 1 /\ lines[j].kind \in Finals
    BY <1>3 DEF OneRead, Ends
  <2>2. j - 1 \in 1 .. Len(lines') /\ lines'[j - 1] = lines[j] /\ j - 1 > i
    BY <2>1 DEF OneRead
  <2>. QED  BY <2>1, <2>2
<1>4. ASSUME lines[1].kind \notin Finals, NoFinal' PROVE NoFinal
  BY <1>4 DEF OneRead, NoFinal
<1>5. ASSUME NEW p, OnTheWay(p) PROVE lines[1].prefix = p \/ OnTheWay(p)'
  <2>1. PICK i \in 1 .. Len(lines) : lines[i].prefix = p
    BY <1>5 DEF OnTheWay
  <2>. QED  BY <2>1 DEF OneRead, OnTheWay
<1>6. ASSUME OneEnd, NEW i \in 1 .. Len(lines'), NEW j \in 1 .. Len(lines'),
             lines'[i].kind \in Finals, lines'[j].kind \in Finals
      PROVE  i = j
  <2>1. i + 1 = j + 1
    BY <1>6 DEF OneRead, OneEnd
  <2>. QED  BY <2>1
<1> QED  BY <1>1, <1>2, <1>3, <1>4, <1>5, <1>6 DEF OneEnd

\* A line is read that belongs to no answer and is no news.
LEMMA SkipKept ==
    ASSUME IInv, OneRead, lines[1].kind \in {"sms", "pdu"} \/ spoiled',
           reader' \in {"reads", "pdu", "gone"}, spoiled' \in BOOLEAN, spoiled => spoiled',
           UNCHANGED <<tty, open, readerClosed, pending, sent, busy, events, atcVars, modemVars>>
    PROVE  IInv'
<1> DEFINE m == lines[1]
<1>1. lines[1].kind \in {"sms", "pdu"} => lines[1].prefix \notin {"+REG", "+STAT"} /\ lines[1].kind \notin Finals
  BY AtcAssumption DEF IInv, ChInv, Shapes, OneRead, Finals
<1>2. ChTypes' /\ MainTypes' /\ StyleRight'
  BY DEF IInv, ChTypes, MainTypes, StyleRight, OneRead
<1>3. ~spoiled' => ~spoiled /\ lines[1].kind \in {"sms", "pdu"}
  OBVIOUS
<1>4. \A p \in {"+REG", "+STAT"} : ~spoiled' => (OnTheWay(p) => OnTheWay(p)')
  BY <1>1, <1>3, OneReadFacts
<1>5. ChInv'
  <2>1. AskedFor' /\ Shapes'
    BY OneReadFacts DEF IInv, ChInv, AskedFor
  <2>2. Calmly' /\ step' = "idle" => Nothing'
    BY OneReadFacts, <1>3 DEF IInv, ChInv, Calmly, Nothing
  <2>3. OneOrder'
    <3> SUFFICES ASSUME Calmly', step' \in Asking PROVE OneOrder'
      BY DEF OneOrder
    <3>1. Calmly /\ step \in Asking /\ OneOrder /\ lines[1].kind \notin Finals
      BY <1>1, <1>3 DEF IInv, ChInv, Calmly
    <3>2. OneEnd'
      BY <3>1, OneReadFacts DEF OneOrder
    <3>. QED  BY <3>1, <3>2, OneReadFacts DEF OneOrder
  <2>. QED  BY <2>1, <2>2, <2>3 DEF ChInv
<1>6. AnswerInv'
  <2>1. LineThere'
    <3> SUFFICES ASSUME Calmly', step' \in Lined, pending' # None,
                        NEW i \in 1 .. Len(lines'), lines'[i].kind = "ok", pending'.infos = <<>>
                 PROVE  \E j \in 1 .. Len(lines') : j < i /\ lines'[j].kind = "info" /\ lines'[j].prefix = Prefix[step]
      BY <1>3 DEF IInv, AnswerInv, LineThere, Calmly
    <3>1. i + 1 \in 1 .. Len(lines) /\ lines[i + 1].kind = "ok"
      BY DEF OneRead
    <3>2. PICK j \in 1 .. Len(lines) : j < i + 1 /\ lines[j].kind = "info" /\ lines[j].prefix = Prefix[step]
      BY <3>1, <1>3 DEF IInv, AnswerInv, LineThere, Calmly
    <3>3. j # 1
      BY <3>2, <1>3 DEF Calmly
    <3>. QED  BY <3>2, <3>3 DEF OneRead
  <2>2. NotRefused'
    BY <1>3 DEF IInv, AnswerInv, NotRefused, OneRead, Calmly, Granted
  <2>3. Told'
    <3> SUFFICES ASSUME Live', step \in Telling, pending # None PROVE Told'
      BY DEF Told
    <3>1. Live /\ Told /\ Mark \in {"+REG", "+STAT"}
      BY <1>3 DEF IInv, AnswerInv, Live, Mark
    <3>2. ASSUME NEW i \in 1 .. Len(lines'), lines'[i].kind = "info", lines'[i].prefix = Prefix[step],
                 NEW v, v = lines'[i].val
          PROVE  Truth(v)' \/ \E j \in 1 .. Len(lines') : j > i /\ lines'[j].prefix = Mark'
      <4>1. i + 1 \in 1 .. Len(lines) /\ lines'[i] = lines[i + 1]
        BY DEF OneRead
      <4>2. Truth(v) \/ \E j \in 1 .. Len(lines) : j > i + 1 /\ lines[j].prefix = Mark
        BY <4>1, <3>1, <3>2 DEF Told
      <4>3. CASE Truth(v)
        BY <4>3 DEF Truth, On, Shadowed
      <4>4. CASE \E j \in 1 .. Len(lines) : j > i + 1 /\ lines[j].prefix = Mark
        <5>1. PICK j \in 1 .. Len(lines) : j > i + 1 /\ lines[j].prefix = Mark
          BY <4>4
        <5>2. j - 1 \in 1 .. Len(lines') /\ lines'[j - 1].prefix = Mark' /\ j - 1 > i
          BY <5>1 DEF OneRead, Mark
        <5>. QED  BY <5>2
      <4>. QED  BY <4>2, <4>3, <4>4
    <3>3. ASSUME NEW k \in 1 .. Len(pending.infos), NEW v, v = pending.infos[k]
          PROVE  Truth(v)' \/ News' \/ Taken'
      <4>1. Truth(v) \/ News \/ Taken
        BY <3>1, <3>3 DEF Told
      <4>2. Truth(v) => Truth(v)'
        BY DEF Truth, On, Shadowed
      <4>3. News => News'
        BY <1>3, <1>4, <3>1 DEF News, Live, Mark, Event
      <4>4. Taken => Taken'
        <5>1. (\E i \in 1 .. Len(lines) : lines[i].kind = "error")
                 => \E i \in 1 .. Len(lines') : lines'[i].kind = "error"
          BY <1>3 DEF OneRead, Live
        <5>. QED  BY <5>1 DEF Taken, Refused
      <4>. QED  BY <4>1, <4>2, <4>3, <4>4
    <3>. QED  BY <3>2, <3>3 DEF Told, Truth
  <2>. QED  BY <2>1, <2>2, <2>3 DEF AnswerInv
<1>7. NewsInv'
  BY <1>4 DEF IInv, NewsInv, StatusInv, RegKnown, CallKnown, Live, InLoop, On, Shadowed
<1> QED  BY <1>2, <1>5, <1>6, <1>7 DEF IInv

LEMMA TailRead ==
    ASSUME ChTypes, lines # <<>>, lines' = Tail(lines)
    PROVE  OneRead /\ Head(lines) = lines[1]
  BY TailFacts DEF ChTypes, OneRead

\* What processLine makes of the pending response, and the news it raises.
LEMMA Processed ==
    ASSUME ChTypes, Shapes, AskedFor, OneRead, ProcessLine(lines[1])
    PROVE  LET m == lines[1]
           IN  /\ pending = None => pending' = None
               /\ pending # None =>
                    /\ pending'.type = pending.type /\ pending'.prefix = pending.prefix
                    /\ pending'.written = pending.written
                    /\ pending'.final = IF m.kind \in Finals THEN m.kind ELSE pending.final
                    /\ pending'.infos = IF Claims(m) THEN Append(pending.infos, m.val) ELSE pending.infos
                    /\ pending' \in [type : Types, prefix : Marks, infos : Seq(BOOLEAN), final : Finals \cup {None},
                                     mine : BOOLEAN, late : BOOLEAN, written : BOOLEAN]
               /\ Claims(m) => m.kind \in {"info", "urc"} /\ m.prefix = pending.prefix /\ pending # None
               /\ events \subseteq events'
               /\ m.prefix = "+REG" /\ ~Claims(m) => "registration" \in events'
               /\ m.prefix = "+STAT" /\ ~Claims(m) => "calls" \in events'
<1> DEFINE m == lines[1]
           P == [type : Types, prefix : Marks, infos : Seq(BOOLEAN), final : Finals \cup {None},
                 mine : BOOLEAN, late : BOOLEAN, written : BOOLEAN]
<1>1. m \in Lines /\ m.val \in BOOLEAN /\ m.mine \in BOOLEAN
  BY DEF OneRead, Lines
<1>2. m.prefix \in {"+REG", "+STAT"} => m.kind \in {"info", "urc"}
  BY AtcAssumption DEF Shapes, OneRead
<1>3. Claims(m) => m.kind \in {"info", "urc"} /\ m.kind \notin Finals /\ m.prefix = pending.prefix /\ pending # None
  BY DEF Claims, Finals
<1>4. /\ events' = IF (pending # None /\ m.kind \in Finals) \/ Claims(m) THEN events ELSE events \cup Raised(m)
      /\ pending' = CASE pending # None /\ m.kind \in Finals ->
                           [pending EXCEPT !.final = m.kind, !.mine = pending.mine /\ m.mine]
                      [] Claims(m) -> [pending EXCEPT !.infos = Append(pending.infos, m.val),
                                           !.mine = pending.mine /\ (m.mine \/ m.kind = "urc")]
                      [] OTHER -> pending
  BY DEF ProcessLine
<1>5. m.prefix = "+REG" => m.kind \notin Finals /\ Raised(m) = {"registration"}
  BY <1>2 DEF Finals, Raised
<1>6. m.prefix = "+STAT" => m.kind \notin Finals /\ Raised(m) = {"calls"}
  BY <1>2 DEF Finals, Raised
<1>7. pending = None => pending' = None
  BY <1>3, <1>4
<1>8. ASSUME pending # None
      PROVE  /\ pending'.type = pending.type /\ pending'.prefix = pending.prefix
             /\ pending'.written = pending.written
             /\ pending'.final = IF m.kind \in Finals THEN m.kind ELSE pending.final
             /\ pending'.infos = IF Claims(m) THEN Append(pending.infos, m.val) ELSE pending.infos
             /\ pending' \in P
  <2>0. pending \in P
    BY <1>8 DEF ChTypes
  <2>1. CASE m.kind \in Finals
    <3>1. pending' = [pending EXCEPT !.final = m.kind, !.mine = pending.mine /\ m.mine]
      BY <1>3, <1>4, <1>8, <2>1
    <3>2. (pending.mine /\ m.mine) \in BOOLEAN
      OBVIOUS
    <3>. QED  BY <3>1, <3>2, <2>0, <2>1, <1>3
  <2>2. CASE m.kind \notin Finals /\ Claims(m)
    <3>1. pending' = [pending EXCEPT !.infos = Append(pending.infos, m.val),
                                     !.mine = pending.mine /\ (m.mine \/ m.kind = "urc")]
      BY <1>4, <1>8, <2>2
    <3>2. (pending.mine /\ (m.mine \/ m.kind = "urc")) \in BOOLEAN /\ Append(pending.infos, m.val) \in Seq(BOOLEAN)
      BY <2>0, <1>1
    <3>. QED  BY <3>1, <3>2, <2>0, <2>2
  <2>3. CASE m.kind \notin Finals /\ ~Claims(m)
    BY <1>4, <2>0, <2>3
  <2>. QED  BY <2>1, <2>2, <2>3
<1> QED  BY <1>3, <1>4, <1>5, <1>6, <1>7, <1>8

\* A line goes into the pending response, or becomes news.
LEMMA LineKept ==
    ASSUME IInv, OneRead, lines[1].kind # "sms", ProcessLine(lines[1]),
           UNCHANGED <<tty, open, reader, readerClosed, sent, busy, spoiled, atcVars, modemVars>>
    PROVE  IInv'
<1> DEFINE m == lines[1]
<1>w. /\ pending = None => pending' = None
      /\ pending # None =>
            /\ pending'.type = pending.type /\ pending'.prefix = pending.prefix
            /\ pending'.written = pending.written
            /\ pending'.final = IF m.kind \in Finals THEN m.kind ELSE pending.final
            /\ pending'.infos = IF Claims(m) THEN Append(pending.infos, m.val) ELSE pending.infos
            /\ pending' \in [type : Types, prefix : Marks, infos : Seq(BOOLEAN), final : Finals \cup {None},
                             mine : BOOLEAN, late : BOOLEAN, written : BOOLEAN]
            /\ pending.infos \in Seq(BOOLEAN) /\ m.val \in BOOLEAN
      /\ Claims(m) => m.kind \in {"info", "urc"} /\ m.prefix = pending.prefix /\ pending # None
      /\ events \subseteq events'
      /\ m.prefix = "+REG" /\ ~Claims(m) => "registration" \in events'
      /\ m.prefix = "+STAT" /\ ~Claims(m) => "calls" \in events'
  BY Processed DEF IInv, ChInv, ChTypes, OneRead, Lines
<1>0. Claims(m) => pending.type \in {"single", "multi"} /\ (pending.type = "single" => pending.infos = <<>>)
  BY DEF Claims
<1> HIDE DEF m
<1>m. m = lines[1]
  BY DEF m
<1>1. ChTypes' /\ MainTypes' /\ StyleRight'
  BY <1>w DEF IInv, ChTypes, MainTypes, StyleRight, OneRead
<1>2. ChInv'
  <2>1. AskedFor' /\ Shapes'
    BY OneReadFacts, <1>w DEF IInv, ChInv, AskedFor
  <2>2. Calmly' /\ step' = "idle" => Nothing'
    BY OneReadFacts DEF IInv, ChInv, Calmly, Nothing
  <2>3. OneOrder'
    <3> SUFFICES ASSUME Calmly', step' \in Asking PROVE OneOrder'
      BY DEF OneOrder
    <3>1. Calmly /\ step \in Asking /\ OneOrder
      BY DEF IInv, ChInv, Calmly
    <3>2. OneEnd'
      BY <3>1, OneReadFacts DEF OneOrder
    <3>3. Ends' /\ (sent' # <<>> => Len(sent') = 1 /\ sent'[1].cmd = step' /\ NoFinal')
      BY <3>1, OneReadFacts DEF OneOrder
    <3>4. ASSUME m.kind \in Finals PROVE sent = <<>> /\ NoFinal'
      <4>1. 1 \in 1 .. Len(lines) /\ lines[1].kind \in Finals
        BY <3>4, <1>m DEF OneRead
      <4>2. sent = <<>>
        BY <4>1, <3>1 DEF OneOrder, NoFinal
      <4>3. NoFinal'
        <5> SUFFICES ASSUME NEW i \in 1 .. Len(lines') PROVE lines'[i].kind \notin Finals
          BY DEF NoFinal
        <5>1. i + 1 \in 1 .. Len(lines) /\ lines'[i] = lines[i + 1] /\ i + 1 # 1
          BY DEF OneRead
        <5>. QED  BY <5>1, <4>1, <3>1 DEF OneOrder, OneEnd
      <4>. QED  BY <4>2, <4>3
    <3>5. ASSUME pending' # None PROVE pending'.final # None \/ ~pending'.written => sent' = <<>> /\ NoFinal'
      BY <3>1, <3>4, <3>5, <1>w, OneReadFacts DEF OneOrder
    <3>6. ASSUME pending' # None, pending'.written, pending'.final = None, sent' = <<>> PROVE ~NoFinal'
      <4>1. m.kind \notin Finals
        BY <3>6, <1>w, AtcAssumption
      <4>2. ~NoFinal
        BY <4>1, <3>6, <3>1, <1>w DEF OneOrder
      <4>. QED  BY <4>1, <4>2, <1>m, OneReadFacts
    <3>. QED  BY <3>2, <3>3, <3>5, <3>6 DEF OneOrder
  <2>. QED  BY <2>1, <2>2, <2>3 DEF ChInv
<1>3. LineThere'
  <2> SUFFICES ASSUME Calmly', step' \in Lined, pending' # None PROVE LineThere'
    BY DEF LineThere
  <2>0. /\ Calmly /\ step \in Lined /\ pending # None /\ LineThere
        /\ pending'.infos = <<>> => pending.infos = <<>> /\ ~Claims(m)
        /\ pending.prefix = Prefix[step]
    <3>1. Calmly /\ step \in Lined /\ pending # None /\ LineThere
      BY <1>w DEF IInv, AnswerInv, Calmly
    <3>2. pending'.infos = <<>> => pending.infos = <<>> /\ ~Claims(m)
      BY <1>w, <3>1
    <3>3. pending.prefix = Prefix[step]
      BY <3>1 DEF IInv, ChInv, AskedFor, PrefixOf, Lined, Plain
    <3>. QED  BY <3>1, <3>2, <3>3
  <2>1. ASSUME NEW i \in 1 .. Len(lines'), lines'[i].kind = "ok", pending'.infos = <<>>
        PROVE  \E j \in 1 .. Len(lines') : j < i /\ lines'[j].kind = "info" /\ lines'[j].prefix = Prefix[step']
    <3>1. i + 1 \in 1 .. Len(lines) /\ lines[i + 1].kind = "ok"
      BY <2>1 DEF OneRead
    <3>2. PICK j \in 1 .. Len(lines) : j < i + 1 /\ lines[j].kind = "info" /\ lines[j].prefix = Prefix[step]
      BY <3>1, <2>0, <2>1 DEF LineThere
    <3>3. j # 1
      <4> SUFFICES ASSUME j = 1 PROVE Claims(m)
        BY <2>0, <2>1
      <4>1. m.kind = "info" /\ m.prefix = pending.prefix
        BY <3>2, <2>0, <1>m
      <4>2. pending.type \in {"single", "multi"} /\ pending.infos = <<>>
        BY <2>0, <2>1 DEF IInv, ChInv, AskedFor, TypeOf, Lined, Plain
      <4>. QED  BY <4>1, <4>2, <2>0 DEF Claims
    <3>4. j - 1 \in 1 .. Len(lines') /\ lines'[j - 1] = lines[j] /\ j - 1 < i
      BY <3>2, <3>3 DEF OneRead
    <3>. QED  BY <3>2, <3>4
  <2>2. ASSUME pending'.final = "ok", pending'.infos = <<>> PROVE FALSE
    <3>1. CASE m.kind \notin Finals
      BY <3>1, <2>0, <2>2, <1>w DEF LineThere
    <3>2. CASE m.kind \in Finals
      <4>1. 1 \in 1 .. Len(lines) /\ lines[1].kind = "ok"
        BY <3>2, <2>0, <2>2, <1>w, <1>m DEF OneRead
      <4>. QED  BY <4>1, <2>0, <2>2 DEF LineThere
    <3>. QED  BY <3>1, <3>2
  <2>. QED  BY <2>1, <2>2 DEF LineThere
<1>4. NotRefused'
  <2> SUFFICES ASSUME Calmly', step' \in Granted', pending' # None PROVE NotRefused'
    BY DEF NotRefused
  <2>1. Calmly /\ step \in Granted /\ pending # None /\ NotRefused
    BY <1>w DEF IInv, AnswerInv, Calmly, Granted
  <2>2. \A i \in 1 .. Len(lines') : lines'[i].kind # "error"
    BY <2>1 DEF NotRefused, OneRead
  <2>3. m.kind # "error"
    BY <2>1, <1>m DEF NotRefused, OneRead
  <2>. QED  BY <2>1, <2>2, <2>3, <1>w DEF NotRefused
<1>5. Told'
  <2> SUFFICES ASSUME Live', step \in Telling, pending' # None PROVE Told'
    BY DEF Told
  <2>0. /\ Live /\ Told /\ pending # None /\ Calmly /\ pending.written /\ pending.prefix = Prefix[step]
        /\ Mark \in {"+REG", "+STAT"} /\ Mark' = Mark /\ Event' = Event
        /\ m.prefix = Mark /\ ~Claims(m) => Event \in events'
    <3>1. Live /\ pending # None
      BY <1>w DEF Live
    <3>2. Calmly /\ pending.written
      BY <3>1 DEF IInv, ChInv, AskedFor, Live, Calmly
    <3>3. pending.prefix = Prefix[step]
      BY <3>1 DEF IInv, ChInv, AskedFor, PrefixOf, Telling, Regs, Plain
    <3>. QED  BY <3>1, <3>2, <3>3, <1>w DEF IInv, AnswerInv, Mark, Event
  <2>1. ASSUME NEW v PROVE Truth(v)' <=> Truth(v)
    BY DEF Truth, On, Shadowed
  <2>2. News => News' \/ (Claims(m) /\ m.prefix = Mark)
    BY <2>0, <1>w, <1>m, OneReadFacts DEF News
  <2>3. ASSUME NEW i \in 1 .. Len(lines'), lines'[i].kind = "info", lines'[i].prefix = Prefix[step],
               NEW v, v = lines'[i].val
        PROVE  Truth(v)' \/ \E j \in 1 .. Len(lines') : j > i /\ lines'[j].prefix = Mark'
    <3>1. i + 1 \in 1 .. Len(lines) /\ lines'[i] = lines[i + 1]
      BY DEF OneRead
    <3>2. Truth(v) \/ \E j \in 1 .. Len(lines) : j > i + 1 /\ lines[j].prefix = Mark
      BY <3>1, <2>0, <2>3 DEF Told
    <3>3. CASE \E j \in 1 .. Len(lines) : j > i + 1 /\ lines[j].prefix = Mark
      <4>1. PICK j \in 1 .. Len(lines) : j > i + 1 /\ lines[j].prefix = Mark
        BY <3>3
      <4>2. j - 1 \in 1 .. Len(lines') /\ lines'[j - 1].prefix = Mark' /\ j - 1 > i
        BY <4>1 DEF OneRead, Mark
      <4>. QED  BY <4>2
    <3>. QED  BY <3>2, <3>3, <2>1
  <2>4. Taken => Taken'
    <3>1. (\E i \in 1 .. Len(lines) : lines[i].kind = "error")
             => m.kind = "error" \/ \E i \in 1 .. Len(lines') : lines'[i].kind = "error"
      BY <1>m DEF OneRead
    <3>2. m.kind = "error" => pending'.final = "error"
      BY <1>w, <2>0 DEF Finals
    <3>3. pending.final = "error" => pending'.final = "error" \/ m.kind = "ok"
      BY <1>w, <2>0 DEF Finals
    <3>4. pending.final = "error" => m.kind # "ok"
      <4> SUFFICES ASSUME pending.final = "error", m.kind = "ok" PROVE FALSE
        OBVIOUS
      <4>1. NoFinal
        BY <2>0, AtcAssumption DEF IInv, ChInv, OneOrder, Asking, Telling, Regs, Commands, Prefix, Plain, Finals
      <4>. QED  BY <4>1, <1>m DEF NoFinal, OneRead, Finals
    <3>. QED  BY <3>1, <3>2, <3>3, <3>4 DEF Taken, Refused
  \* The line itself, when it becomes part of the answer.
  <2>5. ASSUME Claims(m) PROVE Truth(m.val) \/ News' \/ Taken'
    <3>1. m.kind \in {"info", "urc"} /\ m.prefix = Prefix[step] /\ 1 \in 1 .. Len(lines)
      BY <2>5, <2>0, <1>w DEF OneRead
    <3>2. CASE m.kind = "info"
      <4>1. Truth(m.val) \/ \E j \in 1 .. Len(lines) : j > 1 /\ lines[j].prefix = Mark
        BY <3>1, <3>2, <2>0, <1>m DEF Told
      <4>2. (\E j \in 1 .. Len(lines) : j > 1 /\ lines[j].prefix = Mark) => OnTheWay(Mark)'
        BY <2>0 DEF OneRead, OnTheWay
      <4>. QED  BY <4>1, <4>2, <2>0 DEF News
    <3>3. CASE m.kind = "urc"
      <4>1. Prefix[step] \in {"+REG", "+STAT"}
        BY <3>1, <3>3, <1>m DEF IInv, ChInv, Shapes, OneRead
      <4>2. step \in {"reg", "query", "netdev"}
        BY <4>1 DEF Telling, Regs, Prefix
      <4>3. step \in Lined /\ step \in Asking /\ pending.type = "single" /\ Prefix[step] = Mark
        <5>1. step \in Lined /\ step \in Commands /\ step # "handshake" /\ step \notin Plain /\ step \notin Multi
          BY <4>2 DEF Lined, Commands, Prefix, Plain, Multi
        <5>2. Prefix[step] = Mark
          BY <4>2 DEF Prefix, Mark, Regs
        <5>. QED  BY <5>1, <5>2, <2>0 DEF IInv, ChInv, AskedFor, TypeOf, Asking
      <4>4. pending.infos = <<>>
        BY <4>3, <2>5, <1>0, <1>m DEF m
      <4>5. pending.final # "ok"
        BY <4>3, <4>4, <2>0 DEF IInv, AnswerInv, LineThere
      <4>6. CASE sent # <<>> \/ pending.final = "error"
        <5>1. m.kind \notin Finals
          BY <3>3 DEF Finals
        <5>. QED  BY <5>1, <4>6, <4>2, <1>w, <2>0 DEF Taken, Refused
      <4>7. CASE sent = <<>> /\ pending.final = None
        <5>1. PICK i \in 1 .. Len(lines) : lines[i].kind \in Finals
          BY <4>7, <4>3, <2>0 DEF IInv, ChInv, OneOrder, NoFinal
        <5>2. i # 1 /\ i - 1 \in 1 .. Len(lines') /\ lines'[i - 1] = lines[i]
          BY <5>1, <3>3, <1>m DEF OneRead, Finals
        <5>3. CASE lines[i].kind = "error"
          BY <5>2, <5>3, <4>2 DEF Taken, Refused
        <5>4. CASE lines[i].kind = "ok"
          <6>1. PICK j \in 1 .. Len(lines) : j < i /\ lines[j].kind = "info" /\ lines[j].prefix = Prefix[step]
            BY <5>4, <4>3, <4>4, <2>0 DEF IInv, AnswerInv, LineThere
          <6>2. j # 1
            BY <6>1, <3>3, <1>m
          <6>. QED  BY <6>1, <6>2, <4>3, <2>0 DEF OneRead, News, OnTheWay
        <5>. QED  BY <5>1, <5>3, <5>4 DEF Finals
      <4>8. pending.final \in Finals \cup {None}
        BY <2>0 DEF IInv, ChTypes
      <4>. QED  BY <4>5, <4>6, <4>7, <4>8 DEF Finals
    <3>. QED  BY <3>1, <3>2, <3>3
  <2>6. ASSUME NEW k \in 1 .. Len(pending'.infos), NEW v, v = pending'.infos[k]
        PROVE  Truth(v)' \/ News' \/ Taken'
    <3>1. CASE k \in 1 .. Len(pending.infos) /\ v = pending.infos[k]
      <4>1. Truth(v) \/ News \/ Taken
        BY <3>1, <2>0 DEF Told
      <4>2. ASSUME Claims(m), m.prefix = Mark PROVE FALSE
        <5>1. Prefix[step] \in {"+REG", "+STAT"}
          BY <4>2, <2>0, <1>w
        <5>2. step \in {"reg", "query", "netdev"}
          BY <5>1 DEF Telling, Regs, Prefix
        <5>3. pending.type = "single"
          BY <5>2, <2>0 DEF IInv, ChInv, AskedFor, TypeOf, Plain, Multi
        <5>4. pending.infos = <<>>
          BY <5>3, <4>2, <1>0, <1>m DEF m
        <5>. QED  BY <5>4, <3>1
      <4>. QED  BY <4>1, <4>2, <2>1, <2>2, <2>4
    <3>2. CASE Claims(m) /\ v = m.val
      BY <3>2, <2>5, <2>1
    <3>3. \/ k \in 1 .. Len(pending.infos) /\ v = pending.infos[k]
          \/ Claims(m) /\ v = m.val
      <4>1. CASE Claims(m)
        <5>1. pending'.infos = Append(pending.infos, m.val) /\ pending.infos \in Seq(BOOLEAN) /\ m.val \in BOOLEAN
          BY <4>1, <1>w, <2>0
        <5>. QED  BY <5>1, <4>1, <2>6, AppendProperties
      <4>2. CASE ~Claims(m)
        BY <4>2, <1>w, <2>0, <2>6
      <4>. QED  BY <4>1, <4>2
    <3>. QED  BY <3>1, <3>2, <3>3
  <2>. QED  BY <2>3, <2>6 DEF Told, Truth
<1>6. NewsInv'
  <2>1. StatusInv'
    BY DEF IInv, NewsInv, StatusInv
  <2>2. ASSUME Live', InLoop', attached' # modem'.reg PROVE "registration" \in events' \/ OnTheWay("+REG")'
    <3>1. "registration" \in events \/ OnTheWay("+REG")
      BY <2>2 DEF IInv, NewsInv, RegKnown, Live, InLoop
    <3>2. ~(Claims(m) /\ m.prefix = "+REG")
      <4> SUFFICES ASSUME Claims(m), m.prefix = "+REG" PROVE FALSE
        OBVIOUS
      <4>1. pending # None /\ PrefixOf(step) = "+REG"
        BY <1>w DEF IInv, ChInv, AskedFor
      <4>2. step \in Commands
        BY <4>1 DEF IInv, ChInv, AskedFor
      <4>3. step = "reg"
        BY <4>1, <4>2, AtcAssumption DEF PrefixOf, Commands, Prefix
      <4>. QED  BY <4>3, <2>2 DEF InLoop
    <3>. QED  BY <3>1, <3>2, <1>w, <1>m, OneReadFacts
  <2>3. ASSUME Live', status' = "up", ~On', ~Shadowed',
               step' \notin {"query", "bindings", "states", "netdev", "hangup", "left"}
        PROVE  "calls" \in events' \/ OnTheWay("+STAT")'
    <3>1. "calls" \in events \/ OnTheWay("+STAT")
      BY <2>3 DEF IInv, NewsInv, CallKnown, Live, On, Shadowed
    <3>2. ~(Claims(m) /\ m.prefix = "+STAT")
      <4> SUFFICES ASSUME Claims(m), m.prefix = "+STAT" PROVE FALSE
        OBVIOUS
      <4>1. pending # None /\ PrefixOf(step) = "+STAT"
        BY <1>w DEF IInv, ChInv, AskedFor
      <4>2. step \in Commands
        BY <4>1 DEF IInv, ChInv, AskedFor
      <4>3. step \in {"style", "status", "query", "netdev"}
        BY <4>1, <4>2, AtcAssumption DEF PrefixOf, Commands, Prefix
      <4>4. status # "up" \/ step \in {"query", "netdev"}
        BY <4>3 DEF IInv, NewsInv, StatusInv, Early
      <4>. QED  BY <4>4, <2>3
    <3>. QED  BY <3>1, <3>2, <1>w, <1>m, OneReadFacts
  <2>. QED  BY <2>1, <2>2, <2>3 DEF NewsInv, RegKnown, CallKnown
<1> QED  BY <1>1, <1>2, <1>3, <1>4, <1>5, <1>6 DEF IInv, AnswerInv

\* readerLoop, both halves, and its end.
LEMMA ChannelKept == IInv /\ Channel => IInv'
<1> SUFFICES ASSUME IInv, Channel PROVE IInv'
  OBVIOUS
<1>1. CASE ReadLine
  <2>1. OneRead /\ Head(lines) = lines[1]
    BY <1>1, TailRead DEF ReadLine, IInv
  <2>2. CASE lines[1].kind = "sms"
    BY <1>1, <2>1, <2>2, SkipKept DEF ReadLine, Channel, IInv, ChTypes
  <2>3. CASE lines[1].kind # "sms"
    BY <1>1, <2>1, <2>3, LineKept DEF ReadLine, Channel
  <2>. QED  BY <2>2, <2>3
<1>2. CASE ReadSecond
  <2>1. OneRead /\ Head(lines) = lines[1]
    BY <1>2, TailRead DEF ReadSecond, IInv
  <2>. QED  BY <1>2, <2>1, SkipKept DEF ReadSecond, Channel, IInv, ChTypes
<1>3. ASSUME tty = "hung", readerClosed' = TRUE, reader' \in {"reads", "pdu", "gone"}, open' \in BOOLEAN,
             UNCHANGED <<tty, pending, sent, lines, busy, spoiled, atcVars, modemVars>>
      PROVE  IInv'
  <2>1. ChTypes' /\ MainTypes' /\ StyleRight'
    BY <1>3 DEF IInv, ChTypes, MainTypes, StyleRight
  <2>2. ~Calmly' /\ ~Live' /\ tty' # "up"
    BY <1>3 DEF Calmly, Live
  <2>3. AskedFor' /\ Shapes' /\ StatusInv'
    BY <1>3, <2>2 DEF IInv, ChInv, NewsInv, AskedFor, Shapes, StatusInv
  <2>. QED  BY <2>1, <2>2, <2>3
       DEF IInv, ChInv, OneOrder, AnswerInv, LineThere, NotRefused, Told, NewsInv, RegKnown, CallKnown
<1> QED  BY <1>1, <1>2, <1>3 DEF Channel, ReaderEnds, ThreadEnds, IInv, ChTypes

\* Lines that come behind those there are.
More(q) ==
    /\ q \in Seq(Lines) /\ lines' \in Seq(Lines)
    /\ Len(lines) \in Nat /\ Len(q) \in Nat /\ Len(lines') = Len(lines) + Len(q)
    /\ \A i \in 1 .. Len(lines) : i \in 1 .. Len(lines') /\ lines'[i] = lines[i]
    /\ \A i \in 1 .. Len(q) : Len(lines) + i \in 1 .. Len(lines') /\ lines'[Len(lines) + i] = q[i]
    /\ \A i \in 1 .. Len(lines') : i \in 1 .. Len(lines) \/ \E k \in 1 .. Len(q) : i = Len(lines) + k

LEMMA MoreLines ==
    ASSUME ChTypes, NEW q \in Seq(Lines), lines' = lines \o q
    PROVE  More(q)
<1>1. lines \in Seq(Lines) /\ Len(lines) \in Nat /\ Len(q) \in Nat
  BY DEF ChTypes
<1>2. /\ lines' \in Seq(Lines) /\ Len(lines') = Len(lines) + Len(q)
      /\ \A i \in 1 .. Len(lines) : lines'[i] = lines[i]
  BY <1>1, ConcatProperties
<1>3. \A i \in 1 .. Len(q) : lines'[Len(lines) + i] = q[i]
  BY <1>1, ConcatProperties
<1>4. ASSUME NEW i \in 1 .. Len(lines'), i \notin 1 .. Len(lines)
      PROVE  \E k \in 1 .. Len(q) : i = Len(lines) + k
  <2>1. i - Len(lines) \in 1 .. Len(q) /\ i = Len(lines) + (i - Len(lines))
    BY <1>1, <1>2, <1>4
  <2>. QED  BY <2>1
<1>5. ASSUME NEW i \in 1 .. Len(q) PROVE Len(lines) + i \in 1 .. Len(lines')
  BY <1>1, <1>2
<1>6. ASSUME NEW i \in 1 .. Len(lines) PROVE i \in 1 .. Len(lines')
  BY <1>1, <1>2
<1> QED  BY <1>1, <1>2, <1>3, <1>4, <1>5, <1>6 DEF More

\* What the modem reports, and what it does then: who loses the network or
\* the call is told so.
LEMMA ReportKept ==
    ASSUME IInv, NEW q, More(q),
           \A i \in 1 .. Len(q) :
              /\ q[i].kind \in {"urc", "sms", "pdu"}
              /\ q[i].kind = "urc" => q[i].prefix \in {"+REG", "+STAT"}
              /\ q[i].kind # "urc" => q[i].prefix = None,
           modem' \in Modems, modem'.asr = modem.asr, modem'.trailing = modem.trailing,
           modem'.reg # modem.reg => \E i \in 1 .. Len(q) : q[i].prefix = "+REG",
           On => On' \/ \E i \in 1 .. Len(q) : q[i].prefix = "+STAT",
           UNCHANGED <<tty, open, reader, readerClosed, pending, sent, busy, events, spoiled, atcVars>>
    PROVE  IInv'
<1>1. ChTypes' /\ MainTypes' /\ StyleRight'
  BY DEF IInv, ChTypes, MainTypes, StyleRight, More
<1>0. ASSUME NEW i \in 1 .. Len(lines'), i \notin 1 .. Len(lines)
      PROVE  /\ lines'[i].kind \notin Finals \cup {"info"}
             /\ lines'[i].kind = "urc" => lines'[i].prefix \in {"+REG", "+STAT"}
             /\ lines'[i].kind # "urc" => lines'[i].prefix = None
  <2>1. PICK k \in 1 .. Len(q) : i = Len(lines) + k
    BY <1>0 DEF More
  <2>2. lines'[i] = q[k]
    BY <2>1 DEF More
  <2>. QED  BY <2>2 DEF Finals
<1>2. \A i \in 1 .. Len(lines') : i \in 1 .. Len(lines) \/ lines'[i].kind \notin Finals \cup {"info"}
  BY <1>0
<1>b. ASSUME NEW p, \E k \in 1 .. Len(q) : q[k].prefix = p PROVE OnTheWay(p)'
  <2>1. PICK k \in 1 .. Len(q) : q[k].prefix = p
    BY <1>b
  <2>2. Len(lines) + k \in 1 .. Len(lines') /\ lines'[Len(lines) + k] = q[k]
    BY DEF More
  <2>. QED  BY <2>1, <2>2 DEF OnTheWay
<1>3. \A p : OnTheWay(p) => OnTheWay(p)'
  BY DEF OnTheWay, More
<1>4. modem'.reg # modem.reg => OnTheWay("+REG")'
  BY <1>b
<1>5. On => On' \/ OnTheWay("+STAT")'
  BY <1>b
<1>6. (NoFinal => NoFinal') /\ (OneEnd => OneEnd') /\ (NoFinal' => NoFinal)
  BY <1>2 DEF NoFinal, OneEnd, More
<1>7. ASSUME Ends PROVE Ends'
  <2> SUFFICES ASSUME NEW i \in 1 .. Len(lines'), lines'[i].kind = "info"
               PROVE  \E j \in 1 .. Len(lines') : j > i /\ lines'[j].kind \in Finals
    BY DEF Ends
  <2>1. i \in 1 .. Len(lines) /\ lines[i].kind = "info"
    BY <1>2 DEF More
  <2>. QED  BY <1>7, <2>1 DEF Ends, More
<1>8. ChInv'
  <2>1. AskedFor'
    BY DEF IInv, ChInv, AskedFor
  <2>2. Shapes'
    <3> SUFFICES ASSUME NEW i \in 1 .. Len(lines')
                 PROVE  /\ lines'[i].kind = "urc" => lines'[i].prefix \in {"+REG", "+STAT"}
                        /\ lines'[i].kind \notin {"info", "urc"} => lines'[i].prefix = None
      BY DEF Shapes
    <3>1. CASE i \in 1 .. Len(lines)
      BY <3>1 DEF IInv, ChInv, Shapes, More
    <3>2. CASE i \notin 1 .. Len(lines)
      BY <3>2, <1>0
    <3>. QED  BY <3>1, <3>2
  <2>. QED  BY <2>1, <2>2, <1>6, <1>7 DEF IInv, ChInv, OneOrder, Nothing, Calmly
<1>9. LineThere'
  <2> SUFFICES ASSUME Calmly', step' \in Lined, pending' # None,
                      NEW i \in 1 .. Len(lines'), lines'[i].kind = "ok", pending'.infos = <<>>
               PROVE  \E j \in 1 .. Len(lines') : j < i /\ lines'[j].kind = "info" /\ lines'[j].prefix = Prefix[step]
    BY DEF IInv, AnswerInv, LineThere, Calmly
  <2>1. i \in 1 .. Len(lines) /\ lines[i].kind = "ok"
    BY <1>2 DEF More, Finals
  <2>2. PICK j \in 1 .. Len(lines) : j < i /\ lines[j].kind = "info" /\ lines[j].prefix = Prefix[step]
    BY <2>1 DEF IInv, AnswerInv, LineThere, Calmly
  <2>3. j \in 1 .. Len(lines') /\ lines'[j] = lines[j]
    BY DEF More
  <2>. QED  BY <2>2, <2>3
<1>10. NotRefused'
  <2> SUFFICES ASSUME Calmly', step' \in Granted', pending' # None PROVE NotRefused'
    BY DEF NotRefused
  <2>1. Calmly /\ step \in Granted /\ pending # None
    BY DEF Calmly, Granted
  <2>. QED  BY <2>1, <1>2 DEF IInv, AnswerInv, NotRefused, More, Finals
<1>11. Told'
  <2> SUFFICES ASSUME Live', step \in Telling, pending # None PROVE Told'
    BY DEF Told
  <2>1. Live /\ Told /\ Mark' = Mark /\ Event' = Event
    BY DEF IInv, AnswerInv, Live, Mark, Event
  <2>2. ASSUME NEW v, Truth(v)
        PROVE  Truth(v)' \/ \E k \in 1 .. Len(q) : q[k].prefix = Mark
    BY <2>2 DEF Truth, Shadowed, Mark
  <2>3. ASSUME NEW i \in 1 .. Len(lines'), lines'[i].kind = "info", lines'[i].prefix = Prefix[step],
               NEW v, v = lines'[i].val
        PROVE  Truth(v)' \/ \E j \in 1 .. Len(lines') : j > i /\ lines'[j].prefix = Mark'
    <3>1. i \in 1 .. Len(lines) /\ lines'[i] = lines[i]
      BY <1>2, <2>3 DEF More
    <3>2. Truth(v) \/ \E j \in 1 .. Len(lines) : j > i /\ lines[j].prefix = Mark
      BY <3>1, <2>1, <2>3 DEF Told
    <3>3. CASE \E j \in 1 .. Len(lines) : j > i /\ lines[j].prefix = Mark
      BY <3>3, <2>1 DEF More
    <3>4. CASE \E k \in 1 .. Len(q) : q[k].prefix = Mark
      <4>1. PICK k \in 1 .. Len(q) : q[k].prefix = Mark
        BY <3>4
      <4>2. Len(lines) + k \in 1 .. Len(lines') /\ lines'[Len(lines) + k] = q[k] /\ Len(lines) + k > i
        BY <3>1, <4>1 DEF More
      <4>. QED  BY <4>1, <4>2, <2>1
    <3>. QED  BY <3>2, <3>3, <3>4, <2>2
  <2>4. ASSUME NEW k \in 1 .. Len(pending.infos), NEW v, v = pending.infos[k]
        PROVE  Truth(v)' \/ News' \/ Taken'
    <3>1. Truth(v) \/ News \/ Taken
      BY <2>1, <2>4 DEF Told
    <3>2. (\E i \in 1 .. Len(q) : q[i].prefix = Mark) => OnTheWay(Mark)'
      BY <2>1, <1>b
    <3>3. News => News'
      BY <1>3, <2>1 DEF News
    <3>4. Taken => Taken'
      BY DEF Taken, Refused, More
    <3>. QED  BY <3>1, <3>2, <3>3, <3>4, <2>1, <2>2 DEF News
  <2>. QED  BY <2>3, <2>4 DEF Told, Truth
<1>12. NewsInv'
  BY <1>3, <1>4, <1>5 DEF IInv, NewsInv, StatusInv, RegKnown, CallKnown, Live, InLoop, Shadowed, MainTypes
<1> QED  BY <1>1, <1>8, <1>9, <1>10, <1>11, <1>12 DEF IInv, AnswerInv

\* The call comes up, the modem reports what happens to it, or a message.
LEMMA ReportsKept ==
    ASSUME IInv, Connects \/ Happens \/ Message
    PROVE  IInv'
<1>1. ChTypes /\ lines \in Seq(Lines) /\ modem \in Modems
  BY DEF IInv, ChTypes, MainTypes
<1>2. CASE Connects
  <2>1. More(<<>>)
    BY <1>1, <1>2, EmptySeq, ConcatEmptySeq, MoreLines DEF Connects
  <2>2. Len(<<>>) = 0
    OBVIOUS
  <2>3. modem' = [modem EXCEPT !.call = "on"] /\ modem' \in Modems
    BY <1>1, <1>2 DEF Connects, Modems
  <2>4. modem'.asr = modem.asr /\ modem'.trailing = modem.trailing /\ modem'.reg = modem.reg /\ On'
    BY <1>1, <2>3 DEF On, Modems
  <2>. QED  BY <2>1, <2>2, <2>3, <2>4, <1>2, ReportKept DEF Connects
<1>3. CASE Happens
  <2>1. PICK v \in BOOLEAN :
        \/ /\ modem' = [modem EXCEPT !.reg = ~@]
           /\ lines' = Append(lines, Line("urc", "+REG", v, FALSE))
        \/ /\ modem' = [modem EXCEPT !.call = "off", !.bound = FALSE]
           /\ lines' = Append(lines, Line("urc", "+STAT", v, FALSE))
    BY <1>3 DEF Happens
  <2>2. ASSUME NEW p \in {"+REG", "+STAT"}, lines' = Append(lines, Line("urc", p, v, FALSE)),
               modem' \in Modems, modem'.asr = modem.asr, modem'.trailing = modem.trailing,
               modem'.reg # modem.reg => p = "+REG", On => On' \/ p = "+STAT"
        PROVE  IInv'
    <3> DEFINE l == Line("urc", p, v, FALSE)
    <3>1. l \in Lines /\ l.kind = "urc" /\ l.prefix = p
      BY DEF Line, Lines, Marks
    <3> HIDE DEF l
    <3>2. <<l>> \in Seq(Lines) /\ Len(<<l>>) = 1 /\ <<l>>[1] = l
      BY <3>1
    <3>5. lines' = lines \o <<l>>
      <4>1. lines' = Append(lines, l)
        BY <2>2 DEF l
      <4>. QED  BY <4>1, <3>1, <1>1, AppendIsConcat
    <3>3. More(<<l>>)
      BY <3>2, <3>5, <1>1, MoreLines
    <3>4. /\ \A i \in 1 .. Len(<<l>>) : <<l>>[i].kind = "urc" /\ <<l>>[i].prefix = p
          /\ \E i \in 1 .. Len(<<l>>) : <<l>>[i].prefix = p
      BY <3>1, <3>2
    <3>. QED  BY <3>3, <3>4, <2>2, <1>3, ReportKept DEF Happens
  <2>3. CASE modem' = [modem EXCEPT !.reg = ~@] /\ lines' = Append(lines, Line("urc", "+REG", v, FALSE))
    <3>1. modem' \in Modems /\ modem'.asr = modem.asr /\ modem'.trailing = modem.trailing /\ modem'.call = modem.call
      BY <1>1, <2>3 DEF Modems
    <3>. QED  BY <3>1, <2>2, <2>3 DEF On
  <2>4. CASE /\ modem' = [modem EXCEPT !.call = "off", !.bound = FALSE]
             /\ lines' = Append(lines, Line("urc", "+STAT", v, FALSE))
    <3>1. modem' \in Modems /\ modem'.asr = modem.asr /\ modem'.trailing = modem.trailing /\ modem'.reg = modem.reg
      BY <1>1, <2>4 DEF Modems
    <3>. QED  BY <3>1, <2>2, <2>4
  <2>. QED  BY <2>1, <2>3, <2>4
<1>4. CASE Message
  <2> DEFINE s == Line("sms", None, FALSE, FALSE)
             p == Line("pdu", None, FALSE, FALSE)
  <2>1. PICK two \in BOOLEAN : lines' = lines \o <<s>> \o IF two THEN <<p>> ELSE <<>>
    BY <1>4 DEF Message
  <2>2. s \in Lines /\ p \in Lines /\ s.kind = "sms" /\ p.kind = "pdu" /\ s.prefix = None /\ p.prefix = None
    BY DEF Line, Lines, Marks
  <2> HIDE DEF s, p
  <2>3. ASSUME NEW q \in Seq(Lines), lines' = lines \o q,
               \A i \in 1 .. Len(q) : q[i].kind \in {"sms", "pdu"} /\ q[i].prefix = None
        PROVE  IInv'
    BY <2>3, <1>1, <1>4, MoreLines, ReportKept DEF Message, On
  <2>4. <<s>> \in Seq(Lines) /\ <<p>> \in Seq(Lines)
    BY <2>2
  <2>5. CASE two
    <3>1. lines' = (lines \o <<s>>) \o <<p>>
      BY <2>1, <2>5
    <3>2. lines' = lines \o (<<s>> \o <<p>>) /\ <<s>> \o <<p>> \in Seq(Lines)
      BY <3>1, <1>1, <2>4, ConcatAssociative, ConcatProperties
    <3>3. Len(<<s>>) = 1 /\ Len(<<p>>) = 1 /\ <<s>>[1] = s /\ <<p>>[1] = p
      OBVIOUS
    <3>4. \A i \in 1 .. Len(<<s>> \o <<p>>) : (<<s>> \o <<p>>)[i] \in {s, p}
      BY <2>4, <3>3, ConcatProperties
    <3>. QED  BY <3>2, <3>3, <3>4, <2>2, <2>3
  <2>6. CASE ~two
    <3>1. lines' = (lines \o <<s>>) \o <<>>
      BY <2>1, <2>6
    <3>2. lines' = lines \o <<s>>
      BY <3>1, <1>1, <2>4, ConcatEmptySeq, ConcatProperties
    <3>3. \A i \in 1 .. Len(<<s>>) : <<s>>[i] = s
      OBVIOUS
    <3>. QED  BY <3>2, <3>3, <2>2, <2>3, <2>4
  <2>. QED  BY <2>5, <2>6
<1> QED  BY <1>2, <1>3, <1>4

\* The modem is held up, or recovers: what is on its way stays on its way.
LEMMA HeldUpKept ==
    ASSUME IInv, Busy \/ Ready \/ HangsUp
    PROVE  IInv'
<1>1. /\ UNCHANGED <<open, reader, readerClosed, sent, lines, events, atcVars, modem>>
      /\ tty' \in {tty, "hung"} /\ busy' \in BOOLEAN /\ spoiled' \in BOOLEAN /\ (spoiled => spoiled')
      /\ pending' = pending \/ (pending # None /\ pending' = [pending EXCEPT !.late = TRUE])
  BY DEF Busy, Ready, HangsUp, IInv, ChTypes
<1>2. /\ pending = None => pending' = None
      /\ pending # None =>
           /\ pending' \in [type : Types, prefix : Marks, infos : Seq(BOOLEAN), final : Finals \cup {None},
                            mine : BOOLEAN, late : BOOLEAN, written : BOOLEAN]
           /\ pending'.type = pending.type /\ pending'.prefix = pending.prefix
           /\ pending'.infos = pending.infos /\ pending'.final = pending.final
           /\ pending'.written = pending.written
  BY <1>1 DEF IInv, ChTypes
<1>3. ChTypes' /\ MainTypes' /\ StyleRight'
  BY <1>1, <1>2 DEF IInv, ChTypes, MainTypes, StyleRight
<1>4. (Live' => Live) /\ (Calmly' => Calmly)
  BY <1>1 DEF Live, Calmly
<1>5. /\ NoFinal' <=> NoFinal
      /\ Ends' <=> Ends
      /\ OneEnd' <=> OneEnd
      /\ Shapes' <=> Shapes
  BY <1>1 DEF NoFinal, Ends, OneEnd, Shapes
<1>6. ChInv'
  <2>1. AskedFor'
    BY <1>1, <1>2 DEF IInv, ChInv, AskedFor
  <2>2. OneOrder'
    <3> SUFFICES ASSUME Calmly', step \in Asking PROVE OneOrder'
      BY <1>1 DEF OneOrder
    <3>1. Calmly /\ OneOrder
      BY <1>4 DEF IInv, ChInv
    <3>2. Ends' /\ OneEnd' /\ (sent' # <<>> => Len(sent') = 1 /\ sent'[1].cmd = step' /\ NoFinal')
      BY <3>1, <1>1, <1>5 DEF OneOrder
    <3>3. ASSUME pending' # None
          PROVE  /\ pending'.final # None \/ ~pending'.written => sent' = <<>> /\ NoFinal'
                 /\ pending'.written /\ pending'.final = None /\ sent' = <<>> => ~NoFinal'
      BY <3>1, <3>3, <1>1, <1>2, <1>5 DEF OneOrder
    <3>. QED  BY <3>2, <3>3 DEF OneOrder
  <2>3. Calmly' /\ step' = "idle" => Nothing'
    BY <1>1, <1>4, <1>5 DEF IInv, ChInv, Nothing
  <2>. QED  BY <2>1, <2>2, <2>3, <1>5 DEF IInv, ChInv
<1>7. LineThere' /\ NotRefused'
  BY <1>1, <1>2, <1>4 DEF IInv, AnswerInv, LineThere, NotRefused, Granted
<1>8. Told'
  <2> SUFFICES ASSUME Live', step \in Telling, pending' # None PROVE Told'
    BY <1>1 DEF Told
  <2>1. Live /\ Told /\ pending # None /\ pending'.infos = pending.infos /\ pending'.final = pending.final
    BY <1>2, <1>4 DEF IInv, AnswerInv
  <2>2. (News <=> News') /\ (Taken <=> Taken') /\ Mark' = Mark
    BY <1>1, <2>1 DEF News, Taken, Event, Mark, OnTheWay, Refused
  <2>3. \A v : Truth(v) <=> Truth(v)'
    BY <1>1 DEF Truth, On, Shadowed
  <2>. QED  BY <2>1, <2>2, <2>3, <1>1 DEF Told, Truth, On, Shadowed
<1>9. NewsInv'
  BY <1>1, <1>4 DEF IInv, NewsInv, StatusInv, RegKnown, CallKnown, InLoop, On, Shadowed, OnTheWay
<1> QED  BY <1>3, <1>6, <1>7, <1>8, <1>9 DEF IInv, AnswerInv

\* What the modem answers to c: it has a line where one is expected, says what
\* is so, and ends no call but at a hang-up.
Speaks(a, c) ==
    /\ a[1] \in Seq(BOOLEAN) /\ a[2] \in Finals
    /\ a[3] \in Modems /\ a[3].asr = modem.asr /\ a[3].trailing = modem.trailing /\ a[3].reg = modem.reg
    /\ c \in Lined /\ a[2] = "ok" => a[1] # <<>>
    /\ c \in Granted => a[2] = "ok"
    /\ On => a[3].call = "on" \/ c = "hangup"
    /\ c \in Telling =>
         /\ a[3] = modem
         /\ \A k \in 1 .. Len(a[1]) : IF c \in Regs THEN a[1][k] = modem.reg ELSE a[1][k] => On \/ Shadowed

LEMMA AnswersSpeak ==
    ASSUME MainTypes, NEW c \in Commands, NEW a \in Answers(c)
    PROVE  Speaks(a, c)
<1>0. modem \in Modems /\ (modem.asr \/ modem.trailing = "none")
  BY DEF MainTypes
<1>1. ASSUME NEW v \in BOOLEAN, a \in Says(<<v>>)
      PROVE  /\ a[1] \in Seq(BOOLEAN) /\ a[1] # <<>> /\ Len(a[1]) = 1 /\ a[1][1] = v
             /\ a[2] = "ok" /\ a[3] = modem
  <2> DEFINE s == <<v>>
  <2>1. s \in Seq(BOOLEAN) /\ s # <<>> /\ Len(s) = 1 /\ s[1] = v
    OBVIOUS
  <2>2. a \in Says(s)
    BY <1>1
  <2> HIDE DEF s
  <2>3. a[1] = s /\ a[2] = "ok" /\ a[3] = modem
    BY <2>2 DEF Says
  <2>. QED  BY <2>1, <2>3
<1>2. ASSUME a \in Refuses
      PROVE  a[1] \in Seq(BOOLEAN) /\ Len(a[1]) = 0 /\ a[2] = "error" /\ a[3] = modem
  <2> DEFINE s == <<>>
  <2>1. a[1] = s /\ a[2] = "error" /\ a[3] = modem
    <3>1. a = <<s, "error", modem>>
      BY <1>2 DEF Refuses
    <3> HIDE DEF s
    <3>. QED  BY <3>1
  <2>. QED  BY <2>1, EmptySeq
<1>3. ASSUME NEW m, a \in Does(m)
      PROVE  a[1] \in Seq(BOOLEAN) /\ Len(a[1]) = 0 /\ a[2] = "ok" /\ a[3] = m
  <2> DEFINE s == <<>>
  <2>1. a[1] = s /\ a[2] = "ok" /\ a[3] = m
    <3>1. a = <<s, "ok", m>>
      BY <1>3 DEF Does
    <3> HIDE DEF s
    <3>. QED  BY <3>1
  <2>. QED  BY <2>1, EmptySeq
<1>4. ASSUME NEW v \in BOOLEAN, a \in Listed(v)
      PROVE  /\ a[1] \in Seq(BOOLEAN) /\ a[2] = "ok" /\ a[3] = modem
             /\ \A k \in 1 .. Len(a[1]) : a[1][k] = v \/ a[1][k] = (modem.trailing = "up")
  <2>1. a \in Says(<<v>>) \/ a \in Says(<<v, modem.trailing = "up">>)
    BY <1>4 DEF Listed
  <2>2. CASE a \in Says(<<v>>)
    BY <2>2, <1>1
  <2>3. CASE a \in Says(<<v, modem.trailing = "up">>)
    <3> DEFINE w == modem.trailing = "up"
               s == <<v, w>>
    <3>1. w \in BOOLEAN
      OBVIOUS
    <3>2. a \in Says(s)
      BY <2>3
    <3>w. w = (modem.trailing = "up")
      OBVIOUS
    <3> HIDE DEF w
    <3>3. s \in Seq(BOOLEAN) /\ Len(s) = 2 /\ s[1] = v /\ s[2] = w
      BY <3>1
    <3> HIDE DEF s
    <3>4. a[1] = s /\ a[2] = "ok" /\ a[3] = modem
      BY <3>2 DEF Says
    <3>5. \A k \in 1 .. 2 : s[k] = v \/ s[k] = w
      BY <3>3
    <3>6. Len(a[1]) = 2 /\ \A k \in 1 .. Len(a[1]) : a[1][k] = v \/ a[1][k] = w
      BY <3>3, <3>4, <3>5
    <3>. QED  BY <3>3, <3>4, <3>6, <3>w
  <2>. QED  BY <2>1, <2>2, <2>3
<1>5. {"ok", "error"} = Finals /\ On \in BOOLEAN
  BY DEF Finals, On
<1> DEFINE Firm == c \in Telling \cup Granted \cup Lined
<1>6. c \in Telling <=> c \in {"cops", "reg", "query", "netdev", "address", "states"}
  BY DEF Telling, Regs
<1>7. c \in Granted <=> c \in {"cops", "reg"} \/ (c = "style" /\ ~modem.asr)
  BY DEF Granted
<1>8. CASE c = "style"
  <2>1. (a \in Refuses /\ modem.asr) \/ a \in Says(<<TRUE>>)
    BY <1>8 DEF Answers
  <2>. QED  BY <2>1, <1>0, <1>1, <1>2, <1>5, <1>6, <1>7, <1>8 DEF Speaks, On
<1>9. CASE c \in {"cops", "reg"}
  <2>1. a \in Says(<<modem.reg>>) /\ modem.reg \in BOOLEAN
    BY <1>9, <1>0 DEF Answers, Modems
  <2>2. /\ a[1] \in Seq(BOOLEAN) /\ a[1] # <<>> /\ Len(a[1]) = 1 /\ a[1][1] = modem.reg
        /\ a[2] = "ok" /\ a[3] = modem
    BY <2>1, <1>1
  <2>. QED  BY <2>2, <1>0, <1>5, <1>9 DEF Speaks, On, Regs
<1>10. CASE c \in {"query", "netdev"}
  <2>1. (a \in Says(<<TRUE>>) /\ On) \/ a \in Refuses
    BY <1>10 DEF Answers
  <2>2. CASE a \in Says(<<TRUE>>) /\ On
    <3>1. a[1] \in Seq(BOOLEAN) /\ a[1] # <<>> /\ Len(a[1]) = 1 /\ a[1][1] = TRUE /\ a[2] = "ok" /\ a[3] = modem
      BY <2>2, <1>1
    <3>2. \A k \in 1 .. Len(a[1]) : a[1][k] => On
      BY <3>1, <2>2
    <3>. QED  BY <3>1, <3>2, <2>2, <1>0, <1>5, <1>7, <1>10 DEF Speaks, Regs, On
  <2>3. CASE a \in Refuses
    <3>1. Len(a[1]) = 0 /\ a[1] \in Seq(BOOLEAN) /\ a[2] = "error" /\ a[3] = modem
      BY <2>3, <1>2
    <3>. QED  BY <3>1, <1>0, <1>5, <1>7, <1>10 DEF Speaks, On, Regs
  <2>. QED  BY <2>1, <2>2, <2>3
<1>11. CASE c \in {"address", "contexts"}
  <2>1. a \in Says(<<On>>) \/ a \in Refuses
    BY <1>11 DEF Answers
  <2>2. CASE a \in Says(<<On>>)
    <3>1. a[1] \in Seq(BOOLEAN) /\ Len(a[1]) = 1 /\ a[1][1] = On /\ a[2] = "ok" /\ a[3] = modem
      BY <2>2, <1>1, <1>5
    <3>. QED  BY <3>1, <1>0, <1>5, <1>7, <1>11 DEF Speaks, On, Regs, Lined
  <2>. QED  BY <2>1, <2>2, <1>0, <1>2, <1>5, <1>7, <1>11 DEF Speaks, On, Regs, Lined
<1>12. CASE c \in {"active", "states"}
  <2>1. a \in Listed(On)
    BY <1>12 DEF Answers
  <2>2. /\ a[1] \in Seq(BOOLEAN) /\ a[2] = "ok" /\ a[3] = modem
        /\ \A k \in 1 .. Len(a[1]) : a[1][k] = On \/ a[1][k] = (modem.trailing = "up")
    BY <2>1, <1>4, <1>5
  <2>3. modem.trailing = "up" => Shadowed
    BY <1>0 DEF Shadowed
  <2>. QED  BY <2>2, <2>3, <1>0, <1>5, <1>7, <1>12 DEF Speaks, On, Regs, Lined
<1>13. CASE c \in {"nat", "bindings", "status"}
  <2>1. /\ a \in Refuses \/ a \in Listed(modem.bound) \/ (\E v \in BOOLEAN : a \in Says(<<v>>))
        /\ modem.bound \in BOOLEAN
    BY <1>13, <1>0 DEF Answers, Modems
  <2>2. a[1] \in Seq(BOOLEAN) /\ a[2] \in {"ok", "error"} /\ a[3] = modem
    BY <2>1, <1>1, <1>2, <1>4
  <2>. QED  BY <2>2, <1>0, <1>5, <1>6, <1>7, <1>13 DEF Speaks, On, Lined
<1>14. CASE c \notin {"style", "cops", "reg", "query", "netdev", "address", "contexts", "active", "states",
                      "nat", "bindings", "status"}
  <2>1. c \notin Telling /\ c \notin Granted /\ c \notin Lined
    BY <1>6, <1>7, <1>14 DEF Lined
  <2>2. \/ a \in Refuses
        \/ a \in Says(<<TRUE>>)
        \/ a \in Does(modem)
        \/ a \in Does([modem EXCEPT !.nat = ~@])
        \/ a \in Does([modem EXCEPT !.profile = TRUE])
        \/ a \in Does([modem EXCEPT !.call = "on"])
        \/ a \in Does([modem EXCEPT !.bound = TRUE, !.call = IF @ = "off" /\ ~modem.asr THEN "coming" ELSE @])
        \/ c = "hangup" /\ a \in Does([modem EXCEPT !.bound = FALSE, !.call = IF modem.asr THEN @ ELSE "off"])
    BY <1>14 DEF Answers
  <2>3. ASSUME NEW m, a \in Does(m), m \in Modems, m.asr = modem.asr, m.trailing = modem.trailing,
               m.reg = modem.reg, modem.call = "on" => m.call = "on" \/ c = "hangup"
        PROVE  Speaks(a, c)
    BY <2>1, <2>3, <1>3, <1>5 DEF Speaks, On
  <2>4. CASE a \in Refuses \/ a \in Says(<<TRUE>>)
    BY <2>1, <2>4, <1>0, <1>1, <1>2, <1>5 DEF Speaks, On
  <2>5. CASE a \in Does(modem)
    BY <2>3, <2>5, <1>0
  <2>6. CASE a \in Does([modem EXCEPT !.nat = ~@])
    BY <2>3, <2>6, <1>0 DEF Modems
  <2>7. CASE a \in Does([modem EXCEPT !.profile = TRUE])
    BY <2>3, <2>7, <1>0 DEF Modems
  <2>8. CASE a \in Does([modem EXCEPT !.call = "on"])
    BY <2>3, <2>8, <1>0 DEF Modems
  <2>9. CASE a \in Does([modem EXCEPT !.bound = TRUE, !.call = IF @ = "off" /\ ~modem.asr THEN "coming" ELSE @])
    <3> DEFINE m == [modem EXCEPT !.bound = TRUE, !.call = IF @ = "off" /\ ~modem.asr THEN "coming" ELSE @]
    <3>1. m \in Modems /\ m.asr = modem.asr /\ m.trailing = modem.trailing /\ m.reg = modem.reg
          /\ (modem.call = "on" => m.call = "on")
      BY <1>0 DEF Modems
    <3>. QED  BY <3>1, <2>3, <2>9
  <2>10. CASE c = "hangup" /\ a \in Does([modem EXCEPT !.bound = FALSE, !.call = IF modem.asr THEN @ ELSE "off"])
    <3> DEFINE m == [modem EXCEPT !.bound = FALSE, !.call = IF modem.asr THEN @ ELSE "off"]
    <3>1. m \in Modems /\ m.asr = modem.asr /\ m.trailing = modem.trailing /\ m.reg = modem.reg
      BY <1>0 DEF Modems
    <3>. QED  BY <3>1, <2>3, <2>10
  <2>. QED  BY <2>2, <2>4, <2>5, <2>6, <2>7, <2>8, <2>9, <2>10
<1> QED  BY <1>8, <1>9, <1>10, <1>11, <1>12, <1>13, <1>14

\* The lines of an answer.
LEMMA AnswerLines ==
    ASSUME ChTypes, NEW infos \in Seq(Lines), NEW final \in Lines, lines' = lines \o infos \o <<final>>
    PROVE  \E q : /\ More(q) /\ Len(infos) \in Nat /\ Len(q) = Len(infos) + 1
                  /\ \A i \in 1 .. Len(infos) : q[i] = infos[i]
                  /\ q[Len(q)] = final
<1> DEFINE q == infos \o <<final>>
<1>1. lines \in Seq(Lines)
  BY DEF ChTypes
<1>2. <<final>> \in Seq(Lines) /\ Len(<<final>>) = 1 /\ <<final>>[1] = final
  OBVIOUS
<1>3. q \in Seq(Lines) /\ lines' = lines \o q
  <2>1. q \in Seq(Lines)
    BY <1>2, ConcatProperties
  <2>2. (lines \o infos) \o <<final>> = lines \o (infos \o <<final>>)
    BY <1>1, <1>2, ConcatAssociative
  <2>. QED  BY <2>1, <2>2
<1>4. Len(q) = Len(infos) + 1 /\ (\A i \in 1 .. Len(infos) : q[i] = infos[i]) /\ q[Len(q)] = final
  BY <1>2, ConcatProperties
<1>5. Len(infos) \in Nat
  OBVIOUS
<1> HIDE DEF q
<1>6. More(q)
  BY <1>3, MoreLines
<1> QED  BY <1>4, <1>5, <1>6

\* The modem answers the first command it has.
LEMMA AnswerKept == IInv /\ ModemAnswers => IInv'
<1> SUFFICES ASSUME IInv, ModemAnswers PROVE IInv'
  OBVIOUS
<1> DEFINE c == sent[1].cmd
           p == PrefixOf(c)
<1>1. /\ sent # <<>> /\ sent \in Seq(Orders) /\ Head(sent) = sent[1] /\ sent[1] \in Orders
      /\ sent' = Tail(sent) /\ sent' \in Seq(Orders) /\ (Len(sent) = 1 => sent' = <<>>)
  BY TailFacts, EmptySeq DEF IInv, ChTypes, ModemAnswers
<1>2. c \in Commands /\ sent[1].mine \in BOOLEAN
  BY <1>1 DEF Orders
<1>3. PICK a \in Answers(c) :
        /\ modem' = a[3]
        /\ lines' = lines \o [i \in DOMAIN a[1] |-> Line("info", p, a[1][i], sent[1].mine)]
                          \o <<Line(a[2], None, FALSE, sent[1].mine)>>
        /\ tty' = IF c = "reboot" /\ a[2] = "ok" THEN "hung" ELSE tty
  BY <1>1 DEF ModemAnswers, PrefixOf
<1>4. Speaks(a, c)
  BY <1>2, AnswersSpeak DEF IInv
<1>5. p \in Marks
  BY <1>2 DEF PrefixOf, Marks, Commands, Prefix
<1>6. PICK q : /\ More(q) /\ Len(a[1]) \in Nat /\ Len(q) = Len(a[1]) + 1
               /\ \A i \in 1 .. Len(a[1]) : q[i].kind = "info" /\ q[i].prefix = p /\ q[i].val = a[1][i]
               /\ q[Len(q)].kind = a[2] /\ q[Len(q)].prefix = None
  <2> DEFINE vals == a[1]
             infos == [i \in DOMAIN vals |-> Line("info", p, vals[i], sent[1].mine)]
             final == Line(a[2], None, FALSE, sent[1].mine)
  <2>1. ChTypes /\ vals \in Seq(BOOLEAN) /\ a[2] \in Finals
    BY <1>4 DEF IInv, Speaks
  <2>2. final \in Lines /\ final.kind = a[2] /\ final.prefix = None
    BY <2>1, <1>2 DEF Line, Lines, Marks
  <2>3. \A v \in BOOLEAN : Line("info", p, v, sent[1].mine) \in Lines
    BY <1>2, <1>5 DEF Line, Lines
  <2> HIDE DEF vals
  <2>4. Len(vals) \in Nat /\ DOMAIN vals = 1 .. Len(vals) /\ \A i \in 1 .. Len(vals) : vals[i] \in BOOLEAN
    BY <2>1, LenProperties, ElementOfSeq
  <2>5. infos \in [1 .. Len(vals) -> Lines]
    BY <2>3, <2>4
  <2>6. infos \in Seq(Lines) /\ Len(infos) = Len(vals)
    BY <2>4, <2>5
  <2>7. \A i \in 1 .. Len(vals) : infos[i].kind = "info" /\ infos[i].prefix = p /\ infos[i].val = vals[i]
    BY <2>4 DEF Line
  <2>8. lines' = lines \o infos \o <<final>>
    BY <1>3 DEF vals
  <2> HIDE DEF infos, final
  <2>9. \E q : /\ More(q) /\ Len(infos) \in Nat /\ Len(q) = Len(infos) + 1
               /\ \A i \in 1 .. Len(infos) : q[i] = infos[i]
               /\ q[Len(q)] = final
    BY <2>1, <2>2, <2>6, <2>8, AnswerLines
  <2>. QED  BY <2>2, <2>4, <2>6, <2>7, <2>9 DEF vals
<1> DEFINE n == Len(lines)
           e == Len(lines')
<1>7. /\ n \in Nat /\ e \in Nat /\ e = n + Len(a[1]) + 1 /\ e \in 1 .. e
      /\ \A i \in 1 .. n : i \in 1 .. e /\ i < e /\ lines'[i] = lines[i]
      /\ \A i \in 1 .. Len(a[1]) : n + i \in 1 .. e /\ n + i < e /\ lines'[n + i].kind = "info"
                                   /\ lines'[n + i].prefix = p /\ lines'[n + i].val = a[1][i]
      /\ lines'[e].kind = a[2] /\ lines'[e].prefix = None
      /\ \A i \in 1 .. e : \/ i \in 1 .. n
                           \/ i > n /\ i = e
                           \/ \E k \in 1 .. Len(a[1]) : i = n + k
  <2>1. /\ n \in Nat /\ Len(q) = Len(a[1]) + 1 /\ Len(a[1]) \in Nat /\ e = n + Len(q)
        /\ \A i \in 1 .. n : i \in 1 .. e /\ lines'[i] = lines[i]
        /\ \A i \in 1 .. Len(q) : n + i \in 1 .. e /\ lines'[n + i] = q[i]
        /\ \A i \in 1 .. e : i \in 1 .. n \/ \E k \in 1 .. Len(q) : i = n + k
    BY <1>6 DEF More
  <2> DEFINE l == Len(a[1])
             t == Len(q)
  <2>a. n \in Nat /\ l \in Nat /\ t = l + 1 /\ e = n + t
    BY <2>1
  <2> HIDE DEF n, e, l, t
  <2>b. e \in Nat /\ e = n + l + 1 /\ e \in 1 .. e /\ t \in 1 .. t
    BY <2>a
  <2>2. e \in Nat /\ e = n + Len(a[1]) + 1 /\ e \in 1 .. e /\ lines'[e] = q[Len(q)]
    BY <2>1, <2>a, <2>b DEF l, t, e, n
  <2>3. ASSUME NEW i \in 1 .. Len(a[1])
        PROVE  /\ n + i \in 1 .. e /\ n + i < e /\ lines'[n + i].kind = "info"
               /\ lines'[n + i].prefix = p /\ lines'[n + i].val = a[1][i]
    <3>1. i \in 1 .. t /\ n + i < e
      BY <2>a DEF l
    <3>2. n + i \in 1 .. e /\ lines'[n + i] = q[i]
      BY <2>1, <3>1 DEF t, e, n
    <3>. QED  BY <3>1, <3>2, <1>6
  <2>4. ASSUME NEW i \in 1 .. e, i \notin 1 .. n, i # e PROVE \E k \in 1 .. Len(a[1]) : i = n + k
    <3>1. i - n \in 1 .. l /\ i = n + (i - n)
      BY <2>a, <2>b, <2>4
    <3>. QED  BY <3>1 DEF l
  <2>5. e > n /\ \A i \in 1 .. n : i < e
    BY <2>a, <2>b
  <2>. QED  BY <2>1, <2>2, <2>3, <2>4, <2>5, <1>6 DEF n, e
<1>8. /\ UNCHANGED <<open, reader, readerClosed, pending, busy, events, spoiled, atcVars>>
      /\ tty = "up" /\ tty' \in {"up", "hung"} /\ lines' \in Seq(Lines)
      /\ modem' \in Modems /\ modem'.asr = modem.asr /\ modem'.trailing = modem.trailing /\ modem'.reg = modem.reg
  BY <1>3, <1>4, <1>6 DEF ModemAnswers, Speaks, More
<1>9. ChTypes' /\ MainTypes' /\ StyleRight'
  BY <1>1, <1>8 DEF IInv, ChTypes, MainTypes, StyleRight
<1>10. (Live' => Live) /\ (Live => Calmly) /\ (Calmly' <=> Calmly) /\ (Calmly' => Live)
  BY <1>8 DEF Live, Calmly, IInv, ChInv, AskedFor
<1>11. \A x : OnTheWay(x) => OnTheWay(x)'
  BY <1>7 DEF OnTheWay
<1> HIDE DEF p, n, e
\* Past the hand-shake the answer is that of the pending command.
<1>12. ASSUME Calmly, step \in Asking
       PROVE  /\ c = step /\ sent' = <<>> /\ NoFinal /\ Ends /\ OneEnd
              /\ pending # None => pending.final = None
  BY <1>1, <1>12 DEF IInv, ChInv, OneOrder
<1>13. \A i \in 1 .. Len(lines) : Calmly /\ step \in Asking => lines[i].kind \notin Finals \cup {"info"}
  BY <1>12 DEF NoFinal, Ends
<1>14. ASSUME Calmly, step \in Asking, NEW i \in 1 .. Len(lines')
       PROVE  /\ lines'[i].kind \in Finals => i = Len(lines') /\ lines'[i].kind = a[2]
              /\ lines'[i].kind = "info" =>
                   /\ Len(lines') > i
                   /\ \E k \in 1 .. Len(a[1]) : lines'[i].prefix = PrefixOf(step) /\ lines'[i].val = a[1][k]
  <2>1. CASE i \in 1 .. Len(lines)
    BY <2>1, <1>7, <1>13, <1>14 DEF n
  <2>2. CASE i = Len(lines')
    BY <2>2, <1>7, <1>4 DEF e, Speaks, Finals
  <2>3. CASE \E k \in 1 .. Len(a[1]) : i = Len(lines) + k
    <3>1. PICK k \in 1 .. Len(a[1]) : i = Len(lines) + k
      BY <2>3
    <3>2. Len(lines') > i /\ lines'[i].kind = "info" /\ lines'[i].prefix = PrefixOf(step) /\ lines'[i].val = a[1][k]
      BY <3>1, <1>7, <1>12, <1>14 DEF n, e, p
    <3>. QED  BY <3>2 DEF Finals
  <2>. QED  BY <2>1, <2>2, <2>3, <1>7 DEF n, e
<1>15. Len(lines') \in 1 .. Len(lines') /\ lines'[Len(lines')].kind = a[2] /\ a[2] \in Finals
  BY <1>7, <1>4 DEF e, Speaks
<1>16. ChInv'
  <2>1. AskedFor'
    BY <1>8 DEF IInv, ChInv, AskedFor
  <2>2. Shapes'
    <3> SUFFICES ASSUME NEW i \in 1 .. Len(lines')
                 PROVE  /\ lines'[i].kind = "urc" => lines'[i].prefix \in {"+REG", "+STAT"}
                        /\ lines'[i].kind \notin {"info", "urc"} => lines'[i].prefix = None
      BY DEF Shapes
    <3>1. CASE i \in 1 .. Len(lines)
      BY <3>1, <1>7 DEF IInv, ChInv, Shapes, n
    <3>2. CASE i = Len(lines')
      BY <3>2, <1>7, <1>4 DEF e, Speaks, Finals
    <3>3. CASE \E k \in 1 .. Len(a[1]) : i = Len(lines) + k
      BY <3>3, <1>7 DEF n
    <3>. QED  BY <3>1, <3>2, <3>3, <1>7 DEF n, e
  <2>3. OneOrder'
    <3> SUFFICES ASSUME Calmly', step \in Asking PROVE OneOrder'
      BY <1>8 DEF OneOrder
    <3>1. Calmly
      BY <1>10
    <3>2. Ends' /\ OneEnd' /\ ~NoFinal'
      BY <3>1, <1>14, <1>15 DEF Ends, OneEnd, NoFinal
    <3>3. sent' = <<>> /\ (pending # None => pending.final = None /\ pending.written)
      BY <3>1, <1>8, <1>12 DEF IInv, ChInv, AskedFor
    <3>. QED  BY <3>2, <3>3, <1>8 DEF OneOrder
  <2>4. ~(Calmly' /\ step' = "idle")
    BY <1>1, <1>8, <1>10 DEF IInv, ChInv, Nothing
  <2>. QED  BY <2>1, <2>2, <2>3, <2>4 DEF ChInv
<1>17. step \in Lined \cup Telling \cup Granted => step \in Asking
  BY DEF Lined, Telling, Granted, Regs, Asking, Commands, Prefix, Plain
<1>18. LineThere'
  <2> SUFFICES ASSUME Calmly', step \in Lined, pending # None PROVE LineThere'
    BY <1>8 DEF LineThere
  <2>1. Calmly /\ step \in Asking /\ c = step /\ pending.final = None
    BY <1>10, <1>12, <1>17
  <2>2. PrefixOf(step) = Prefix[step]
    BY DEF PrefixOf, Lined, Plain
  <2>3. ASSUME NEW i \in 1 .. Len(lines'), lines'[i].kind = "ok"
        PROVE  \E j \in 1 .. Len(lines') : j < i /\ lines'[j].kind = "info" /\ lines'[j].prefix = Prefix[step']
    <3>1. i = Len(lines') /\ a[2] = "ok"
      BY <2>1, <2>3, <1>14 DEF Finals
    <3>2. 1 \in 1 .. Len(a[1])
      BY <3>1, <2>1, <1>4, EmptySeq DEF Speaks
    <3>3. Len(lines) + 1 \in 1 .. Len(lines') /\ Len(lines) + 1 < Len(lines')
          /\ lines'[Len(lines) + 1].kind = "info" /\ lines'[Len(lines) + 1].prefix = PrefixOf(step)
      BY <3>2, <2>1, <1>7 DEF n, e, p
    <3>. QED  BY <3>1, <3>3, <2>2, <1>8
  <2>. QED  BY <2>1, <2>3, <1>8, AtcAssumption DEF LineThere, Finals
<1>19. NotRefused'
  <2> SUFFICES ASSUME Calmly', step \in Granted, pending # None PROVE NotRefused'
    BY <1>8 DEF NotRefused, Granted
  <2>1. Calmly /\ step \in Asking /\ c = step /\ pending.final = None
    BY <1>10, <1>12, <1>17
  <2>2. a[2] = "ok"
    BY <2>1, <1>4 DEF Speaks
  <2>. QED  BY <2>1, <2>2, <1>8, <1>14, AtcAssumption DEF NotRefused, Finals
<1>20. Told'
  <2> SUFFICES ASSUME Live', step \in Telling, pending # None PROVE Told'
    BY <1>8 DEF Told
  <2>1. /\ Calmly /\ step \in Asking /\ c = step /\ Live /\ Told /\ Mark' = Mark /\ Event' = Event /\ modem' = modem
        /\ pending.final = None
    BY <1>3, <1>4, <1>8, <1>10, <1>12, <1>17 DEF IInv, AnswerInv, Mark, Event, Speaks
  <2>2. ASSUME NEW v PROVE Truth(v)' <=> Truth(v)
    BY <2>1, <1>8 DEF Truth, On, Shadowed
  <2>3. ASSUME NEW i \in 1 .. Len(lines'), lines'[i].kind = "info", NEW v, v = lines'[i].val
        PROVE  Truth(v)
    <3>1. PICK k \in 1 .. Len(a[1]) : v = a[1][k]
      BY <2>1, <2>3, <1>14
    <3>. QED  BY <3>1, <2>1, <1>4 DEF Speaks, Truth
  <2>4. News => News'
    BY <2>1, <1>8, <1>11 DEF News
  <2>5. Taken => Taken' \/ News'
    <3> SUFFICES ASSUME step \in {"reg", "query", "netdev"} PROVE Refused' \/ OnTheWay(Mark)'
      BY <2>1, <1>8 DEF Taken, News
    <3>1. CASE a[2] = "error"
      BY <3>1, <1>15 DEF Refused
    <3>2. CASE a[2] = "ok"
      <4>1. step \in Lined /\ PrefixOf(step) = Mark
        BY DEF Lined, PrefixOf, Prefix, Mark, Regs, Plain
      <4>2. 1 \in 1 .. Len(a[1])
        BY <3>2, <4>1, <2>1, <1>4, EmptySeq DEF Speaks
      <4>3. Len(lines) + 1 \in 1 .. Len(lines') /\ lines'[Len(lines) + 1].prefix = Mark'
        BY <4>1, <4>2, <2>1, <1>7 DEF n, e, p
      <4>. QED  BY <4>3, <2>1 DEF OnTheWay
    <3>. QED  BY <3>1, <3>2, <1>4 DEF Speaks, Finals
  <2>6. ASSUME NEW k \in 1 .. Len(pending.infos), NEW v, v = pending.infos[k]
        PROVE  Truth(v)' \/ News' \/ Taken'
    <3>1. Truth(v) \/ News \/ Taken
      BY <2>1, <2>6 DEF Told
    <3>. QED  BY <3>1, <2>2, <2>4, <2>5
  <2>7. pending' = pending
    BY <1>8
  <2>. QED  BY <2>2, <2>3, <2>6, <2>7 DEF Told, Truth
<1>21. NewsInv'
  <2>1. StatusInv'
    BY <1>8 DEF IInv, NewsInv, StatusInv
  <2>2. RegKnown'
    BY <1>8, <1>10, <1>11 DEF IInv, NewsInv, RegKnown, InLoop
  <2>3. ASSUME On, step \notin {"query", "bindings", "states", "netdev", "hangup", "left"}, Live', status = "up"
        PROVE  On'
    <3>1. Calmly /\ step \notin Early
      BY <2>3, <1>10 DEF IInv, NewsInv, StatusInv
    <3>2. step # "idle"
      BY <3>1, <1>1 DEF IInv, ChInv, Nothing
    <3>3. step \in Asking
      BY <2>3, <3>1, <3>2 DEF IInv, ChTypes, Steps, Asking, Early
    <3>4. c # "hangup"
      BY <3>1, <3>3, <2>3, <1>12
    <3>. QED  BY <3>4, <2>3, <1>3, <1>4 DEF Speaks, On
  <2>4. CallKnown'
    BY <2>3, <1>8, <1>10, <1>11 DEF IInv, NewsInv, CallKnown, Shadowed
  <2>. QED  BY <2>1, <2>2, <2>4 DEF NewsInv
<1> QED  BY <1>9, <1>16, <1>18, <1>19, <1>20, <1>21 DEF IInv, AnswerInv

LEMMA ModemKept == IInv /\ Modem => IInv'
  BY AnswerKept, ReportsKept, HeldUpKept DEF Modem

\* The answer is there, or none will come: past the hand-shake nothing of it
\* stays behind, unless the answer is late; what main() gets is what was read.
LEMMA Freed ==
    ASSUME IInv, NEW r \in Outcomes, step \in Asking, spoiled' \in BOOLEAN,
           spoiled \/ r.err = "timeout" => spoiled', UNCHANGED readerClosed
    PROVE  /\ pending # None /\ (Calmly' => Calmly /\ Nothing)
           /\ ~spoiled' /\ r.err # "closed" =>
                /\ Calmly /\ pending.final \in Finals /\ sent = <<>> /\ NoFinal
                /\ r.infos = pending.infos /\ r.infos \in Seq(BOOLEAN)
                /\ r.err = IF pending.final = "error" THEN "error"
                           ELSE IF pending.type = "single" /\ pending.infos = <<>> THEN "invalid" ELSE None
           /\ tty = "up" => r.err # "closed"
<1>1. pending # None
  BY DEF Outcomes
<1>2. pending.final \in Finals \cup {None} /\ pending.infos \in Seq(BOOLEAN)
  BY <1>1 DEF IInv, ChTypes
<1>3. \/ (readerClosed \/ ~pending.written) /\ r.err = "closed"
      \/ ~readerClosed /\ pending.written /\ r.err = "timeout"
      \/ /\ ~readerClosed /\ pending.written /\ pending.final # None
         /\ r.infos = pending.infos
         /\ r.err = IF pending.final = "error" THEN "error"
                    ELSE IF pending.type = "single" /\ pending.infos = <<>> THEN "invalid" ELSE None
  BY <1>1 DEF Outcomes, Reply
<1>4. Calmly' => Calmly
  BY DEF Calmly, IInv, ChTypes
<1>5. ASSUME Calmly, r.err # "timeout" PROVE sent = <<>> /\ NoFinal /\ Ends
  BY <1>1, <1>3, <1>5 DEF IInv, ChInv, OneOrder, Calmly
<1>6. Calmly' => Calmly /\ Nothing
  BY <1>4, <1>5 DEF Nothing, Calmly
<1>7. tty = "up" => r.err # "closed"
  BY <1>1, <1>3, AtcAssumption DEF IInv, ChInv, AskedFor
<1>8. ASSUME ~spoiled', r.err # "closed"
      PROVE  /\ Calmly /\ pending.final \in Finals /\ sent = <<>> /\ NoFinal
             /\ r.infos = pending.infos /\ r.infos \in Seq(BOOLEAN)
             /\ r.err = IF pending.final = "error" THEN "error"
                        ELSE IF pending.type = "single" /\ pending.infos = <<>> THEN "invalid" ELSE None
  <2>1. ~spoiled /\ r.err # "timeout" /\ ~readerClosed
    BY <1>3, <1>8 DEF IInv, ChTypes
  <2>2. Calmly
    BY <2>1 DEF Calmly
  <2>. QED  BY <1>2, <1>3, <1>5, <1>8, <2>1, <2>2
<1> QED  BY <1>1, <1>6, <1>7, <1>8

\* Main sends the command s, or goes to s without one.
Goes(s) ==
    \/ s \in Commands /\ Ask(s)
    \/ s \in {"idle", "pause", "left"} /\ Rest(s)

LEMMA GoesKept ==
    ASSUME IInv, NEW s, Goes(s), UNCHANGED modemVars, spoiled' \in BOOLEAN, spoiled => spoiled',
           (Calmly' => Nothing) \/ s \in {"handshake", "pause", "left"}
    PROVE  /\ ChTypes' /\ ChInv' /\ AnswerInv' /\ step' = s /\ (Live' => Live)
           /\ UNCHANGED <<tty, readerClosed, modem>> /\ (On' <=> On) /\ (Shadowed' <=> Shadowed)
           /\ \A p : OnTheWay(p)' <=> OnTheWay(p)
<1>1. ChTypes /\ ChInv
  BY DEF IInv
<1>2. /\ ChTypes' /\ ChInv' /\ AnswerInv' /\ step' = s
      /\ SameLines /\ UNCHANGED <<tty, readerClosed>>
  <2>1. CASE s \in Commands /\ Ask(s)
    <3>1. s # "handshake" /\ Calmly' => Nothing
      BY <2>1 DEF Commands, Prefix, Plain
    <3>. QED  BY <2>1, <3>1, <1>1, AskKept
  <2>2. CASE s \in {"idle", "pause", "left"} /\ Rest(s)
    <3>1. s = "idle" /\ Calmly' => Nothing
      OBVIOUS
    <3>. QED  BY <2>2, <3>1, <1>1, RestKept
  <2>. QED  BY <2>1, <2>2 DEF Goes
<1>3. \A p : OnTheWay(p)' <=> OnTheWay(p)
  BY <1>1, <1>2, SameLinesFacts
<1>4. Live' => Live
  BY <1>1, <1>2 DEF Live, ChTypes
<1> QED  BY <1>2, <1>3, <1>4 DEF On, Shadowed

\* Steps of the loop, and those in which a lost call is about to be noticed.
LoopSteps == {"idle", "query", "states", "bindings", "active", "activate", "dial", "status", "netdev", "address"}
Blind == {"query", "bindings", "states", "netdev", "hangup", "left"}

\* Main goes on without learning anything about the registration or the call.
LEMMA QuietKept ==
    ASSUME IInv, NEW s, Goes(s), UNCHANGED modemVars, spoiled' \in BOOLEAN, spoiled => spoiled',
           (Calmly' => Nothing) \/ s \in {"handshake", "pause", "left"},
           UNCHANGED <<attached, status>>, asr' \in BOOLEAN, asr' => asr \/ modem.asr \/ spoiled',
           s \in Early => status = "unknown",
           s \in {"active", "activate", "dial", "status"} => status # "up",
           s \in LoopSteps \/ (s = "report" /\ status # "unknown") =>
               InLoop /\ ("registration" \in events => "registration" \in events'),
           s \notin Blind /\ status = "up" => step \notin Blind /\ ("calls" \in events => "calls" \in events')
    PROVE  IInv'
<1>1. /\ ChTypes' /\ ChInv' /\ AnswerInv' /\ step' = s /\ (Live' => Live)
      /\ UNCHANGED <<tty, readerClosed, modem>> /\ (On' <=> On) /\ (Shadowed' <=> Shadowed)
      /\ \A p : OnTheWay(p)' <=> OnTheWay(p)
  BY GoesKept
<1>2. MainTypes' /\ StyleRight'
  BY <1>1 DEF IInv, MainTypes, StyleRight
<1>3. StatusInv'
  BY <1>1 DEF StatusInv
<1>4. RegKnown'
  BY <1>1 DEF IInv, NewsInv, RegKnown, InLoop, LoopSteps
<1>5. CallKnown'
  BY <1>1 DEF IInv, NewsInv, CallKnown, Blind
<1> QED  BY <1>1, <1>2, <1>3, <1>4, <1>5 DEF IInv, NewsInv

\* The same after the result of a command.
LEMMA RepliedKept ==
    ASSUME IInv, NEW r \in Outcomes, step \in Asking, Late(r), NEW s, Goes(s), UNCHANGED modemVars,
           UNCHANGED <<asr, attached, status>>, events \subseteq events',
           s \in Early => status = "unknown",
           s \in {"active", "activate", "dial", "status"} => status # "up",
           s \in LoopSteps \/ (s = "report" /\ status # "unknown") => InLoop,
           s \notin Blind /\ status = "up" => step \notin Blind
    PROVE  IInv'
<1>1. spoiled' \in BOOLEAN /\ (spoiled \/ r.err = "timeout" => spoiled') /\ asr' \in BOOLEAN
  BY DEF Late, IInv, ChTypes, MainTypes
<1>2. UNCHANGED readerClosed
  BY DEF Goes, Ask, Rest, Send, Drop
<1>3. Calmly' => Nothing
  BY <1>1, <1>2, Freed
<1> QED  BY <1>1, <1>3, QuietKept

\* What the commands before the loop bring.
LEMMA EarlyKept ==
    ASSUME IInv, NEW r \in Outcomes, UNCHANGED modemVars, Calm,
           \/ Handshake(r) \/ IgnoredDone(r) \/ Style(r) \/ NatMode(r) \/ SetNat(r) \/ Reboot(r)
           \/ Report(r) \/ GetProfile(r) \/ EmptyProfile(r) \/ Contexts(r) \/ SetProfile(r) \/ SetContext(r)
    PROVE  IInv'
<1>1. step \in Early => status = "unknown"
  BY DEF IInv, NewsInv, StatusInv
<1>2. events' = events /\ UNCHANGED modemVars /\ asr \in BOOLEAN /\ spoiled \in BOOLEAN
  BY DEF Calm, IInv, ChTypes, MainTypes
<1>3. ASSUME step \in Early \cap Asking, Late(r), UNCHANGED <<asr, attached, status>>,
             NEW s \in {"ignored", "style", "left", "report", "setNat", "reboot", "emptyProfile", "contexts",
                        "setProfile", "cops", "setContext", "getProfile"},
             Goes(s)
      PROVE  IInv'
  <2>1. status = "unknown" /\ s \notin LoopSteps /\ s \notin {"active", "activate", "dial", "status"}
    BY <1>1, <1>3 DEF LoopSteps
  <2>. QED  BY <2>1, <1>2, <1>3, RepliedKept
<1>4. {"ignored", "style", "nat", "setNat", "reboot", "getProfile", "emptyProfile", "contexts",
       "setProfile", "setContext"} \subseteq Early \cap Asking
  BY DEF Early, Asking, Commands, Prefix, Plain
<1>5. \A s \in {"ignored", "style", "nat", "report", "setNat", "reboot", "emptyProfile", "contexts", "setProfile",
                "cops", "setContext", "getProfile", "handshake"} : Ask(s) => Goes(s)
  BY DEF Goes, Commands, Prefix, Plain
<1>6. \A s \in {"idle", "pause", "left"} : Rest(s) => Goes(s)
  BY DEF Goes
<1>7. CASE Handshake(r)
  <2>1. PICK s \in {"pause", "handshake", "left"} : Goes(s)
    BY <1>5, <1>6, <1>7 DEF Handshake
  <2>2. step \in Early /\ s \notin LoopSteps
    BY <1>7, <2>1 DEF Handshake, At, Early, LoopSteps
  <2>. QED  BY <1>1, <1>2, <1>7, <2>1, <2>2, QuietKept DEF Handshake, Same
<1>8. CASE Style(r)
  <2>1. step = "style" /\ Goes("nat") /\ UNCHANGED <<readerClosed, attached, status>>
        /\ asr' = (asr \/ Bad(r)) /\ spoiled' = (spoiled \/ r.err \in {"timeout", "closed"})
    BY <1>5, <1>8 DEF Style, At, Ask, Send
  <2>2. spoiled' \in BOOLEAN /\ asr' \in BOOLEAN /\ (spoiled \/ r.err = "timeout" => spoiled') /\ step \in Asking
    BY <2>1, <1>2, <1>4 DEF Bad
  <2>3. Calmly' => Nothing
    BY <2>1, <2>2, Freed
  <2>4. Bad(r) => modem.asr \/ spoiled'
    <3> SUFFICES ASSUME ~spoiled', ~modem.asr PROVE r.err = None
      BY DEF Bad
    <3>1. r.err # "closed"
      BY <2>1
    <3>2. /\ Calmly /\ pending # None /\ pending.final \in Finals
          /\ r.err = IF pending.final = "error" THEN "error"
                     ELSE IF pending.type = "single" /\ pending.infos = <<>> THEN "invalid" ELSE None
      BY <2>1, <2>2, <3>1, Freed
    <3>3. step \in Granted /\ step \in Lined
      BY <2>1 DEF Granted, Lined
    <3>4. pending.final # "error"
      BY <3>2, <3>3 DEF IInv, AnswerInv, NotRefused
    <3>5. pending.infos # <<>>
      BY <3>2, <3>3, <3>4 DEF IInv, AnswerInv, LineThere, Finals
    <3>. QED  BY <3>2, <3>4, <3>5
  <2>5. "nat" \in Early /\ "nat" \notin LoopSteps /\ status = "unknown"
    BY <1>1, <1>4, <2>1 DEF Early, LoopSteps
  <2>. QED  BY <2>1, <2>2, <2>3, <2>4, <2>5, <1>2, QuietKept
<1>9. CASE IgnoredDone(r)
  <2>1. \E s \in {"ignored", "style"} : Goes(s)
    BY <1>5, <1>9 DEF IgnoredDone
  <2>. QED  BY <2>1, <1>3, <1>4, <1>9 DEF IgnoredDone, At, Same
<1>10. CASE NatMode(r)
  <2>1. \E s \in {"left", "report", "setNat"} : Goes(s)
    BY <1>5, <1>6, <1>10 DEF NatMode
  <2>. QED  BY <2>1, <1>3, <1>4, <1>10 DEF NatMode, At, Same
<1>11. CASE SetNat(r)
  <2>1. \E s \in {"report", "reboot"} : Goes(s)
    BY <1>5, <1>11 DEF SetNat
  <2>. QED  BY <2>1, <1>3, <1>4, <1>11 DEF SetNat, At, Same
<1>12. CASE Reboot(r)
  BY <1>3, <1>4, <1>5, <1>12 DEF Reboot, At
<1>13. CASE Report(r)
  <2>1. step = "report" /\ step \in Asking /\ Late(r) /\ UNCHANGED <<asr, attached, status>>
    BY <1>13 DEF Report, At, Same, Asking, Commands, Plain
  <2>2. CASE status = "unknown" /\ Ask("getProfile")
    <3>1. Goes("getProfile") /\ "getProfile" \notin LoopSteps
      BY <2>2, <1>5 DEF LoopSteps
    <3>. QED  BY <2>1, <2>2, <3>1, <1>2, RepliedKept
  <2>3. CASE status # "unknown" /\ Rest("idle")
    <3>1. Goes("idle") /\ InLoop /\ step \notin Blind /\ "idle" \notin Early
      BY <2>1, <2>3, <1>6 DEF InLoop, Blind, Early
    <3>. QED  BY <2>1, <3>1, <1>2, RepliedKept
  <2>. QED  BY <2>2, <2>3, <1>13 DEF Report
<1>14. CASE GetProfile(r)
  <2>1. \E s \in {"emptyProfile", "contexts", "setProfile", "cops"} : Goes(s)
    BY <1>5, <1>14 DEF GetProfile
  <2>. QED  BY <2>1, <1>3, <1>4, <1>14 DEF GetProfile, At, Same
<1>15. CASE EmptyProfile(r)
  <2>1. \E s \in {"contexts", "getProfile"} : Goes(s)
    BY <1>5, <1>15 DEF EmptyProfile
  <2>. QED  BY <2>1, <1>3, <1>4, <1>15 DEF EmptyProfile, At, Same
<1>16. CASE Contexts(r)
  BY <1>3, <1>4, <1>5, <1>16 DEF Contexts, At, Same
<1>17. CASE SetProfile(r)
  <2>1. \E s \in {"setContext", "cops"} : Goes(s)
    BY <1>5, <1>17 DEF SetProfile
  <2>. QED  BY <2>1, <1>3, <1>4, <1>17 DEF SetProfile, At, Same
<1>18. CASE SetContext(r)
  BY <1>3, <1>4, <1>5, <1>18 DEF SetContext, At, Same
<1> QED  BY <1>7, <1>8, <1>9, <1>10, <1>11, <1>12, <1>13, <1>14, <1>15, <1>16, <1>17, <1>18

\* What main() hears about the registration or the call, from a modem that is
\* there, is so, or there is news.
LEMMA Heard ==
    ASSUME IInv, NEW r \in Outcomes, step \in Telling, Late(r), UNCHANGED readerClosed, ~spoiled', tty = "up"
    PROVE  /\ Live
           /\ ~Bad(r) /\ r.infos # <<>> =>
                (Truth(Head(r.infos)) \/ News) /\ (Truth(Last(r.infos)) \/ News)
           /\ step \in Regs => ~Bad(r) /\ r.infos # <<>>
<1>1. step \in Asking /\ spoiled' \in BOOLEAN /\ (spoiled \/ r.err = "timeout" => spoiled')
  BY DEF Telling, Regs, Asking, Commands, Prefix, Plain, Late, IInv, ChTypes
<1>2. /\ Calmly /\ pending # None /\ pending.final \in Finals /\ sent = <<>> /\ NoFinal
      /\ r.infos = pending.infos /\ r.infos \in Seq(BOOLEAN)
      /\ r.err = IF pending.final = "error" THEN "error"
                 ELSE IF pending.type = "single" /\ pending.infos = <<>> THEN "invalid" ELSE None
  BY <1>1, Freed
<1>3. Live
  BY <1>2 DEF Live, Calmly
<1>4. ~Bad(r) => ~Taken
  <2>1. ~Bad(r) => pending.final # "error"
    BY <1>2, AtcAssumption DEF Bad, Finals
  <2>2. ~\E i \in 1 .. Len(lines) : lines[i].kind = "error"
    BY <1>2 DEF NoFinal, Finals
  <2>. QED  BY <2>1, <2>2, <1>2 DEF Taken, Refused
<1>5. \A k \in 1 .. Len(r.infos) : ~Bad(r) => Truth(r.infos[k]) \/ News
  BY <1>2, <1>3, <1>4 DEF IInv, AnswerInv, Told
<1>6. r.infos # <<>> => /\ Head(r.infos) = r.infos[1] /\ Last(r.infos) = r.infos[Len(r.infos)]
                        /\ 1 \in 1 .. Len(r.infos) /\ Len(r.infos) \in 1 .. Len(r.infos)
  BY <1>2, TailFacts DEF Last
<1>7. ASSUME step \in Regs PROVE ~Bad(r) /\ r.infos # <<>>
  <2>1. step \in Granted /\ step \in Lined
    BY <1>7 DEF Regs, Granted, Lined
  <2>2. pending.final # "error"
    BY <2>1, <1>2 DEF IInv, AnswerInv, NotRefused
  <2>3. pending.infos # <<>>
    BY <2>1, <2>2, <1>2 DEF IInv, AnswerInv, LineThere, Finals
  <2>. QED  BY <2>2, <2>3, <1>2 DEF Bad
<1> QED  BY <1>3, <1>5, <1>6, <1>7

\* Main has heard the answer and goes on to s.
LEMMA HeardKept ==
    ASSUME IInv, NEW r \in Outcomes, step \in Asking, Late(r), NEW s, Goes(s), UNCHANGED modemVars,
           UNCHANGED asr, attached' \in BOOLEAN, status' \in {"unknown", "up", "down"},
           s \notin Early, s \notin {"active", "activate", "dial", "status"}
    PROVE  /\ RegKnown' /\ CallKnown' => IInv'
           /\ step' = s /\ (Live' => Live) /\ (Live' => ~spoiled' /\ tty = "up")
           /\ UNCHANGED <<tty, readerClosed, modem>> /\ (On' <=> On) /\ (Shadowed' <=> Shadowed)
           /\ \A p : OnTheWay(p)' <=> OnTheWay(p)
<1>1. spoiled' \in BOOLEAN /\ (spoiled \/ r.err = "timeout" => spoiled')
  BY DEF Late, IInv, ChTypes
<1>2. UNCHANGED readerClosed
  BY DEF Goes, Ask, Rest, Send, Drop
<1>3. Calmly' => Nothing
  BY <1>1, <1>2, Freed
<1>4. /\ ChTypes' /\ ChInv' /\ AnswerInv' /\ step' = s /\ (Live' => Live)
      /\ UNCHANGED <<tty, readerClosed, modem>> /\ (On' <=> On) /\ (Shadowed' <=> Shadowed)
      /\ \A p : OnTheWay(p)' <=> OnTheWay(p)
  BY <1>1, <1>3, GoesKept
<1>5. MainTypes' /\ StyleRight'
  BY <1>1, <1>4 DEF IInv, MainTypes, StyleRight
<1>6. StatusInv'
  BY <1>4 DEF StatusInv
<1> QED  BY <1>4, <1>5, <1>6 DEF IInv, NewsInv, Live

\* requestRegistrationState: what main() believes then is so, or there is news.
LEMMA RegisteredKept ==
    ASSUME IInv, NEW r \in Outcomes, UNCHANGED modemVars, Calm, Cops(r) \/ Reg(r)
    PROVE  IInv'
<1> DEFINE yes == ~Bad(r) /\ Value(r)
<1>1. /\ step \in Regs /\ step \in Asking /\ step \in Telling /\ Late(r) /\ UNCHANGED <<asr, status, events>>
      /\ step \notin Blind
  BY DEF Cops, Reg, At, Calm, Regs, Telling, Asking, Commands, Prefix, Plain, Blind
<1>2. yes \in BOOLEAN
  BY DEF Value, Bad
<1>3. PICK s \in {"reg", "idle"} :
        Goes(s) /\ (s = "idle" => attached' = yes) /\ attached' \in BOOLEAN
  <2>1. CASE Cops(r)
    BY <2>1 DEF Cops, Goes, Commands, Prefix
  <2>2. CASE Reg(r)
    BY <2>2, <1>2 DEF Reg, Goes
  <2>. QED  BY <2>1, <2>2
<1>4. s \notin Early /\ s \notin {"active", "activate", "dial", "status"} /\ status' \in {"unknown", "up", "down"}
  BY <1>1 DEF Early, IInv, MainTypes
<1>5. /\ RegKnown' /\ CallKnown' => IInv'
      /\ step' = s /\ (Live' => Live) /\ (Live' => ~spoiled' /\ tty = "up")
      /\ UNCHANGED <<tty, readerClosed, modem>> /\ (On' <=> On) /\ (Shadowed' <=> Shadowed)
      /\ \A p : OnTheWay(p)' <=> OnTheWay(p)
  BY <1>1, <1>3, <1>4, HeardKept
<1>6. ASSUME Live', s = "idle" PROVE yes = modem.reg \/ "registration" \in events \/ OnTheWay("+REG")
  <2>1. /\ ~Bad(r) /\ r.infos # <<>> => Truth(Head(r.infos)) \/ News
        /\ ~Bad(r) /\ r.infos # <<>>
    BY <1>1, <1>5, <1>6, Heard
  <2>2. yes = Head(r.infos) \/ News
    <3>1. r.infos \in Seq(BOOLEAN)
      BY <1>1, <1>5, <1>6, Freed DEF Late, IInv, ChTypes
    <3>2. Head(r.infos) \in BOOLEAN
      BY <3>1, <2>1, TailFacts
    <3>. QED  BY <3>2, <2>1 DEF Value
  <2>. QED  BY <2>1, <2>2, <1>1 DEF Truth, News, Event, Mark
<1>7. RegKnown'
  BY <1>1, <1>3, <1>5, <1>6 DEF RegKnown, InLoop
<1>8. CallKnown'
  BY <1>1, <1>5 DEF IInv, NewsInv, CallKnown, Blind
<1> QED  BY <1>5, <1>7, <1>8

\* requestGetIPAddress and requestQueryDataCall: a call that main() takes for
\* up is up, or there is news.
LEMMA CalledKept ==
    ASSUME IInv, NEW r \in Outcomes, UNCHANGED modemVars,
           Address(r) \/ Query(r) \/ States(r) \/ Bindings(r)
    PROVE  IInv'
<1>1. /\ step \in {"address", "netdev", "query", "states", "bindings"} /\ step \in Asking /\ InLoop
      /\ Late(r) /\ Calm
  BY DEF Address, Query, States, Bindings, Answered, At, Calm, InLoop, Asking, Commands, Prefix
<1>2. asr \in BOOLEAN
  BY DEF IInv, MainTypes
<1>3. CASE Bindings(r) /\ Ask("states") /\ Same
  <2>1. Goes("states") /\ "states" \notin Early /\ "states" \in Blind
    BY <1>3 DEF Goes, Commands, Prefix, Early, Blind
  <2>. QED  BY <1>1, <1>3, <2>1, RepliedKept DEF Same, Calm
<1>4. ASSUME NEW yes \in BOOLEAN, NEW s \in {"idle", "address", "netdev"}, Goes(s), UNCHANGED <<asr, attached>>,
             status' = IF yes THEN "up" ELSE "down",
             yes => step \in Telling \ Regs /\ ~Bad(r) /\ r.infos # <<>> /\ (Head(r.infos) \/ Last(r.infos))
      PROVE  IInv'
  <2>1. s \notin Early /\ s \notin {"active", "activate", "dial", "status"}
        /\ status' \in {"unknown", "up", "down"} /\ attached' \in BOOLEAN
    BY <1>4 DEF Early, IInv, MainTypes
  <2>2. /\ RegKnown' /\ CallKnown' => IInv'
        /\ step' = s /\ (Live' => Live) /\ (Live' => ~spoiled' /\ tty = "up")
        /\ UNCHANGED <<tty, readerClosed, modem>> /\ (On' <=> On) /\ (Shadowed' <=> Shadowed)
        /\ \A p : OnTheWay(p)' <=> OnTheWay(p)
    BY <1>1, <1>4, <2>1, HeardKept
  <2>3. RegKnown'
    BY <1>1, <1>4, <2>2 DEF IInv, NewsInv, RegKnown, Calm
  <2>4. ASSUME Live', yes PROVE On \/ Shadowed \/ "calls" \in events \/ OnTheWay("+STAT")
    <3>1. (Truth(Head(r.infos)) \/ News) /\ (Truth(Last(r.infos)) \/ News)
      BY <1>1, <1>4, <2>2, <2>4, Heard
    <3>2. step \notin Regs
      BY <1>4, <2>4
    <3>. QED  BY <3>1, <3>2, <1>4, <2>4 DEF Truth, News, Event, Mark
  <2>5. CallKnown'
    BY <1>1, <1>4, <2>2, <2>4 DEF CallKnown, Calm
  <2>. QED  BY <2>2, <2>3, <2>5
<1>5. ASSUME NEW yes \in BOOLEAN, Answered(yes),
             yes => step \in Telling \ Regs /\ ~Bad(r) /\ r.infos # <<>> /\ (Head(r.infos) \/ Last(r.infos))
      PROVE  IInv'
  <2>1. \E s \in {"idle", "address", "netdev"} : Goes(s)
    BY <1>5 DEF Answered, GetIPAddress, Goes, Commands, Prefix
  <2>. QED  BY <2>1, <1>4, <1>5 DEF Answered
<1>6. {"address", "netdev", "query", "states"} \subseteq Telling \ Regs
  BY DEF Telling, Regs
<1>7. (~Bad(r) /\ Value(r)) \in BOOLEAN
  BY DEF Bad, Value
<1>8. CASE Address(r)
  <2>1. Goes("idle") /\ step \in {"address", "netdev"} /\ UNCHANGED <<asr, attached>>
        /\ status' = IF ~Bad(r) /\ Value(r) THEN "up" ELSE "down"
    BY <1>8 DEF Address, Goes, At
  <2>. QED  BY <2>1, <1>4, <1>6, <1>7 DEF Value
<1>9. CASE Query(r)
  <2>1. step = "query" /\ Answered(~Bad(r) /\ Value(r))
    BY <1>9 DEF Query, At
  <2>. QED  BY <2>1, <1>5, <1>6, <1>7 DEF Value
<1>10. CASE States(r)
  <2>1. step = "states" /\ Answered(~Bad(r) /\ State(r)) /\ (~Bad(r) /\ State(r)) \in BOOLEAN
    BY <1>10 DEF States, At, Bad, State
  <2>. QED  BY <2>1, <1>5, <1>6 DEF State
<1>11. CASE Bindings(r) /\ Answered(FALSE)
  BY <1>11, <1>5
<1> QED  BY <1>3, <1>8, <1>9, <1>10, <1>11 DEF Bindings

\* requestSetupDataCall up to the question for the address, and the hang-up.
LEMMA DialKept ==
    ASSUME IInv, NEW r \in Outcomes, UNCHANGED modemVars,
           Active(r) \/ Activate(r) \/ Dial(r) \/ Poll(r) \/ Hangup(r)
    PROVE  IInv'
<1>1. /\ step \in {"active", "activate", "dial", "status", "hangup"} /\ step \in Asking /\ Late(r)
      /\ UNCHANGED <<asr, attached, status>> /\ events \subseteq events'
  BY DEF Active, Activate, Dial, Poll, Hangup, At, Same, Calm, Asking, Commands, Prefix, Plain
<1>2. CASE Hangup(r)
  <2>1. Goes("left") /\ "left" \notin Early /\ "left" \notin LoopSteps /\ "left" \in Blind
    BY <1>2 DEF Hangup, Goes, Early, LoopSteps, Blind
  <2>. QED  BY <1>1, <2>1, RepliedKept
<1>3. CASE Active(r) \/ Activate(r) \/ Dial(r) \/ Poll(r)
  <2>1. step \in {"active", "activate", "dial", "status"} /\ InLoop /\ status # "up"
    BY <1>3 DEF Active, Activate, Dial, Poll, At, InLoop, IInv, NewsInv, StatusInv
  <2>2. \E s \in {"idle", "address", "netdev", "dial", "activate", "status"} : Goes(s)
    BY <1>3 DEF Active, Activate, Dial, Poll, DialOver, GetIPAddress, Goes, Commands, Prefix, Plain
  <2>3. \A s \in {"idle", "address", "netdev", "dial", "activate", "status"} : s \notin Early
    BY DEF Early
  <2>. QED  BY <1>1, <2>1, <2>2, <2>3, RepliedKept
<1> QED  BY <1>2, <1>3

LEMMA GetsKept == IInv /\ Gets => IInv'
  BY EarlyKept, RegisteredKept, CalledKept, DialKept DEF Gets

\* main() between two commands.
LEMMA BetweenKept ==
    ASSUME IInv, Start \/ Pause \/ (\E e \in Events : Serve(e)) \/ Check \/ SetupDataCall \/ Stop
    PROVE  IInv'
<1>1. spoiled \in BOOLEAN /\ asr \in BOOLEAN /\ (step \in Early => status = "unknown")
  BY DEF IInv, ChTypes, MainTypes, NewsInv, StatusInv
<1>2. step = "idle" => (Calmly => Nothing) /\ InLoop /\ step \notin Blind
  BY DEF IInv, ChInv, InLoop, Blind
<1>3. CASE Start
  <2>1. Goes("handshake") /\ "handshake" \notin LoopSteps /\ step \in Early
    BY <1>3 DEF Start, Goes, Commands, Plain, LoopSteps, Early
  <2>. QED  BY <2>1, <1>1, <1>3, QuietKept DEF Start, Same, Calm
<1>4. CASE Pause
  <2>1. Goes("ignored") /\ "ignored" \notin LoopSteps /\ step \in Early
    BY <1>4 DEF Pause, Goes, Commands, Plain, LoopSteps, Early
  <2>2. spoiled' \in BOOLEAN /\ (spoiled => spoiled') /\ (~spoiled' => sent = <<>> /\ lines = <<>>)
    BY <1>1, <1>4 DEF Pause
  <2>3. lines = <<>> => NoFinal /\ Ends
    BY EmptySeq DEF NoFinal, Ends
  <2>4. Calmly' => Nothing
    BY <2>2, <2>3 DEF Calmly, Nothing
  <2>. QED  BY <2>1, <2>2, <2>4, <1>1, <1>4, QuietKept DEF Pause, Same, Calm
\* From the loop: all that main() leaves as it was.
<1>5. ASSUME step = "idle", UNCHANGED <<spoiled, asr, attached, status, modemVars>>,
             NEW s, Goes(s), s \notin Early,
             s \in {"active", "activate", "dial", "status"} => status # "up",
             s \in LoopSteps \/ (s = "report" /\ status # "unknown") =>
                 ("registration" \in events => "registration" \in events'),
             s \notin Blind /\ status = "up" => ("calls" \in events => "calls" \in events')
      PROVE  IInv'
  <2>1. UNCHANGED readerClosed
    BY <1>5 DEF Goes, Ask, Rest, Send, Drop
  <2>2. Calmly' => Nothing
    BY <1>2, <1>5, <2>1 DEF Calmly
  <2>. QED  BY <1>1, <1>2, <1>5, <2>2, QuietKept
<1>6. ASSUME NEW e \in Events, Serve(e) PROVE IInv'
  <2>1. step = "idle" /\ UNCHANGED <<spoiled, asr, attached, status, modemVars>> /\ events' = events \ {e}
    BY <1>6 DEF Serve, Same
  <2>2. CASE e = "registration" /\ Ask("cops")
    <3>1. Goes("cops") /\ "cops" \notin Early /\ "cops" \notin LoopSteps
      BY <2>2 DEF Goes, Commands, Prefix, Early, LoopSteps
    <3>. QED  BY <2>1, <2>2, <3>1, <1>5
  <2>3. CASE e = "calls" /\ status # "down" /\ QueryDataCall
    <3>1. PICK s \in {"bindings", "query"} : Goes(s)
      BY <2>3, <1>1 DEF QueryDataCall, Goes, Commands, Prefix
    <3>2. s \notin Early /\ s \in Blind
      BY DEF Early, Blind
    <3>. QED  BY <2>1, <2>3, <3>1, <3>2, <1>5
  <2>4. CASE e = "calls" /\ status = "down" /\ Rest("idle")
    <3>1. Goes("idle") /\ "idle" \notin Early
      BY <2>4 DEF Goes, Early
    <3>. QED  BY <2>1, <2>4, <3>1, <1>5
  <2>5. CASE e = "disconnected" /\ Rest("left")
    <3>1. Goes("left") /\ "left" \notin Early /\ "left" \in Blind /\ "left" \notin LoopSteps
      BY <2>5 DEF Goes, Early, Blind, LoopSteps
    <3>. QED  BY <2>1, <2>5, <3>1, <1>5
  <2>6. \/ e = "registration" /\ Ask("cops")
        \/ e = "calls" /\ status # "down" /\ QueryDataCall
        \/ e = "calls" /\ status = "down" /\ Rest("idle")
        \/ e = "disconnected" /\ Rest("left")
    <3>1. e \in {"registration", "calls", "disconnected"}
      BY DEF Events
    <3>. QED  BY <3>1, <1>6 DEF Serve
  <2>. QED  BY <2>2, <2>3, <2>4, <2>5, <2>6
<1>7. CASE Check
  <2>1. PICK s \in {"bindings", "query", "report"} : Goes(s)
    BY <1>1, <1>7 DEF Check, QueryDataCall, Goes, Commands, Prefix, Plain
  <2>2. s \notin Early /\ s \notin {"active", "activate", "dial", "status"}
    BY DEF Early
  <2>. QED  BY <2>1, <2>2, <1>5, <1>7 DEF Check, Same, Calm
<1>8. CASE SetupDataCall
  <2>1. PICK s \in {"active", "dial"} : Goes(s)
    BY <1>1, <1>8 DEF SetupDataCall, Goes, Commands, Prefix, Plain
  <2>2. s \notin Early /\ status = "down"
    BY <1>8 DEF Early, SetupDataCall
  <2>. QED  BY <2>1, <2>2, <1>5, <1>8 DEF SetupDataCall, Same, Calm
<1>9. CASE Stop
  <2>1. PICK s \in {"hangup", "left"} : Goes(s)
    BY <1>9 DEF Stop, Goes, Commands, Plain
  <2>2. s \notin Early /\ s \in Blind /\ s \notin LoopSteps
    BY DEF Early, Blind, LoopSteps
  <2>. QED  BY <2>1, <2>2, <1>5, <1>9 DEF Stop, Calm
<1> QED  BY <1>3, <1>4, <1>6, <1>7, <1>8, <1>9

\* main() starts again, on the old device or on a new one.
LEMMA ReopenKept == IInv /\ Reopen => IInv'
<1> SUFFICES ASSUME IInv, Reopen PROVE IInv'
  OBVIOUS
<1>1. /\ step' = "start" /\ tty' = "up" /\ open' = TRUE /\ reader' = "reads" /\ readerClosed' = FALSE
      /\ pending' = None /\ sent' = <<>> /\ lines' = <<>>
      /\ status' = "unknown" /\ attached' = FALSE /\ asr' = asr
      /\ busy' \in BOOLEAN /\ spoiled' \in BOOLEAN /\ (spoiled => spoiled')
      /\ modem' \in {modem, [modem EXCEPT !.call = "off", !.bound = FALSE]}
  BY DEF Reopen, IInv, ChTypes
<1>2. modem' \in Modems /\ modem'.asr = modem.asr /\ modem'.trailing = modem.trailing
  BY <1>1 DEF IInv, MainTypes, Modems
<1>3. sent' \in Seq(Orders) /\ lines' \in Seq(Lines) /\ Len(lines') = 0
  BY <1>1, EmptySeq
<1>4. ChTypes' /\ MainTypes' /\ StyleRight'
  BY <1>1, <1>2, <1>3 DEF IInv, ChTypes, MainTypes, StyleRight, Steps
<1>5. step' \notin Commands /\ step' \notin Asking /\ step' # "idle"
  BY <1>1 DEF Commands, Prefix, Plain, Asking
<1>6. ChInv'
  BY <1>1, <1>3, <1>5 DEF ChInv, AskedFor, Shapes, OneOrder
<1>7. AnswerInv'
  BY <1>1 DEF AnswerInv, LineThere, NotRefused, Told
<1>8. NewsInv'
  BY <1>1 DEF NewsInv, StatusInv, RegKnown, CallKnown, InLoop
<1> QED  BY <1>4, <1>6, <1>7, <1>8 DEF IInv

LEMMA InitHolds == Init => IInv
<1> SUFFICES ASSUME Init PROVE IInv
  OBVIOUS
<1>1. /\ step = "start" /\ tty = "up" /\ open = TRUE /\ reader = "reads" /\ readerClosed = FALSE
      /\ pending = None /\ sent = <<>> /\ lines = <<>> /\ busy \in BOOLEAN /\ spoiled = FALSE
      /\ status = "unknown" /\ attached = FALSE /\ asr = FALSE
      /\ modem \in Modems /\ (modem.asr \/ modem.trailing = "none")
  BY DEF Init, ChInit
<1>2. sent \in Seq(Orders) /\ lines \in Seq(Lines) /\ Len(lines) = 0
  BY <1>1, EmptySeq
<1>3. ChTypes /\ MainTypes /\ StyleRight
  BY <1>1, <1>2 DEF ChTypes, MainTypes, StyleRight, Steps
<1>4. step \notin Commands /\ step \notin Asking /\ step # "idle"
  BY <1>1 DEF Commands, Prefix, Plain, Asking
<1>5. ChInv
  BY <1>1, <1>2, <1>4 DEF ChInv, AskedFor, Shapes, OneOrder
<1>6. AnswerInv
  BY <1>1 DEF AnswerInv, LineThere, NotRefused, Told
<1>7. NewsInv
  BY <1>1 DEF NewsInv, StatusInv, RegKnown, CallKnown, InLoop
<1> QED  BY <1>3, <1>5, <1>6, <1>7 DEF IInv

LEMMA NothingHappens == IInv /\ UNCHANGED vars => IInv'
<1> SUFFICES ASSUME IInv, UNCHANGED vars PROVE IInv'
  OBVIOUS
<1>1. ChTypes' /\ MainTypes' /\ StyleRight'
  BY DEF IInv, ChTypes, MainTypes, StyleRight
<1>2. ChInv'
  BY DEF IInv, ChInv, AskedFor, Shapes, OneOrder, OneEnd, Calmly, Nothing, Ends, NoFinal
<1>3. LineThere' /\ NotRefused'
  BY DEF IInv, AnswerInv, LineThere, NotRefused, Granted, Calmly
<1>4. Told'
  <2>1. (Told' <=> Told) 
    BY DEF Told, Live, Truth, News, Taken, Event, Mark, OnTheWay, Refused, On, Shadowed
  <2>. QED  BY <2>1 DEF IInv, AnswerInv
<1>5. NewsInv'
  BY DEF IInv, NewsInv, StatusInv, RegKnown, CallKnown, Live, InLoop, On, Shadowed, OnTheWay
<1> QED  BY <1>1, <1>2, <1>3, <1>4, <1>5 DEF IInv, AnswerInv

\* Every step keeps the invariant: at any moment past the hand-shake at most
\* one answer is on its way, that of the pending command, and what it says is
\* so or is followed by news (atchannel.c has no other tie between the two).
THEOREM SpecIInv == Spec => []IInv
<1>1. IInv /\ [Next]_vars => IInv'
  BY ChannelKept, ModemKept, GetsKept, BetweenKept, ReopenKept, NothingHappens DEF Next, Main
<1> QED  BY <1>1, InitHolds, PTL DEF Spec

\* at+qnetdevstatus is refused by a modem that lacks it and by no other: atc_init
\* takes a modem for one of the ASR kind (asr_style_atc, which it never takes
\* back) only if it is one, unless an answer came late.
THEOREM StyleIsRight == Spec => []StyleRight
<1>1. IInv => StyleRight
  BY DEF IInv
<1> QED  BY <1>1, SpecIInv, PTL

\* Whenever main() rests with a wrong idea of the registration or takes a lost
\* call for up, the news of it is in the pipe of events or in the lines that
\* onUnsolicited has not seen yet; also when a report was taken for an answer.
THEOREM NewsAlwaysComes == Spec => []NewsComes
<1>1. IInv => NewsComes
  <2> SUFFICES ASSUME IInv, step = "idle", tty = "up", ~spoiled PROVE NewsComes
    BY DEF NewsComes
  <2>1. Live /\ InLoop
    BY DEF Live, InLoop
  <2>2. DOMAIN lines = 1 .. Len(lines)
    BY LenProperties DEF IInv, ChTypes
  <2>3. \A p : OnTheWay(p) => \E i \in DOMAIN lines : lines[i].prefix = p
    BY <2>2 DEF OnTheWay
  <2>4. attached # modem.reg => Coming("+REG", "registration")
    BY <2>1, <2>3 DEF IInv, NewsInv, RegKnown, Coming
  <2>5. status = "up" /\ ~On /\ ~(modem.asr /\ modem.trailing = "up") => Coming("+STAT", "calls")
    BY <2>1, <2>3 DEF IInv, NewsInv, CallKnown, Shadowed, Coming
  <2>. QED  BY <2>4, <2>5 DEF NewsComes
<1> QED  BY <1>1, SpecIInv, PTL
=============================================================================
