----------------------------- MODULE MbimCmProofs -----------------------------
(***************************************************************************)
(* Proofs about MbimCm, for any number of tries, events and late answers.  *)
(*                                                                         *)
(* First NoCallLeft, that a stop leaves no call behind. It depends on      *)
(* which request an answer is for, on what the modem says of its call in   *)
(* each, and on the call only being made by the program (CInv).            *)
(*                                                                         *)
(* Then NewsComes, that main() is told when it is wrong. It depends on the *)
(* order of the messages: what the modem is, is what it said last, and     *)
(* what main() was told last is what it takes the modem for, unless an     *)
(* event, or a message behind the answer it waits for, says otherwise      *)
(* (NInv).                                                                 *)
(***************************************************************************)
EXTENDS MbimCm, SequenceTheorems, TLAPS

USE DEF linkVars, mainVars, modemVars, ghosts, vars

Errors == {None, "not opened", "refused"}
Replies == [err : Errors, val : BOOLEAN \cup {None}]
Pendings == [late : BOOLEAN, written : BOOLEAN, answer : Replies \cup {None}]
Orders == [cmd : Requests, mine : BOOLEAN]

Types ==
    /\ device \in {"up", "hung"} /\ quit \in {"no", "stop", "now"}
    /\ reader \in BOOLEAN /\ busy \in BOOLEAN /\ opened \in BOOLEAN
    /\ spoiled \in BOOLEAN
    /\ step \in Steps /\ pending \in Pendings \cup {None}
    /\ sent \in Seq(Orders) /\ inbox \in Seq(Messages)
    /\ modem \in [Topics -> BOOLEAN] /\ status \in {"unknown", "up", "down"}

\* No request has been given up but those to open the device.
Calm == ~spoiled /\ device = "up"

\* The reader waits for the answer, until main() has left.
ReaderWaits ==
    /\ quit = "now" => step = "left"
    /\ Calm /\ step # "left" => reader
    /\ Calm /\ step \in Requests /\ pending # None => pending.written

\* At most one request is on its way, and then its answer is not; what else
\* the modem may take is to open the device.
OneOrder ==
    Calm => \A i \in 1 .. Len(sent) :
        /\ ~sent[i].mine => sent[i].cmd = "open"
        /\ sent[i].mine =>
             /\ sent[i].cmd = step
             /\ \A j \in 1 .. Len(sent) : sent[j].mine => j = i
             /\ pending # None => pending.answer = None
             /\ \A k \in 1 .. Len(inbox) : ~inbox[k].mine

NoCall == ~modem.call

\* What the answer to the request of main() says of the call.
Tells(m) ==
    /\ step = "open" => opened \/ NoCall
    /\ step = "query" => (m.err = None /\ m.val = TRUE) \/ NoCall
    /\ step \in {"connect", "address"} => m.err = None \/ NoCall
    /\ step = "disconnect" => NoCall

AnswersTell ==
    Calm => /\ step \in Requests /\ pending # None =>
                  (pending.answer # None => Tells(pending.answer))
            /\ \A k \in 1 .. Len(inbox) : inbox[k].mine => step \in Requests /\ Tells(inbox[k])

\* The call main() knows nothing of is one from before.
CallKnown ==
    Calm => /\ step \notin {"start", "open", "close", "left"} => opened \/ NoCall
            /\ step \in {"connect", "query"} => (status = "down" <=> step = "connect")
            /\ status = "down" /\ step \notin {"connect", "address"} => NoCall
            /\ step = "connect" /\ (\E i \in 1 .. Len(sent) : sent[i].mine) => NoCall
            /\ step = "close" \/ (step = "left" /\ quit = "now") => NoCall \/ status = "unknown"

CInv == Types /\ ReaderWaits /\ OneOrder /\ AnswersTell /\ CallKnown
-----------------------------------------------------------------------------
LEMMA InitCInv == Init => CInv
<1> SUFFICES ASSUME Init PROVE CInv
  OBVIOUS
<1>1. Types
  BY EmptySeq DEF Init, Types, Steps, Topics
<1> QED
  BY <1>1 DEF Init, CInv, ReaderWaits, OneOrder, AnswersTell, CallKnown, Calm, Requests

\* What still comes for an earlier request is nobody's.
LEMMA NobodysSeq ==
    ASSUME NEW S, NEW q \in Seq(S), NEW T,
           \A i \in 1 .. Len(q) : [q[i] EXCEPT !.mine = FALSE] \in T
    PROVE  /\ NotMine(q) \in Seq(T) /\ Len(NotMine(q)) = Len(q)
           /\ \A i \in 1 .. Len(q) : NotMine(q)[i] = [q[i] EXCEPT !.mine = FALSE]
<1>1. DOMAIN q = 1 .. Len(q) /\ Len(q) \in Nat
  BY LenProperties
<1>2. NotMine(q) \in [1 .. Len(q) -> T]
  BY <1>1 DEF NotMine
<1> QED
  BY <1>1, <1>2, IsASeq, LenProperties DEF NotMine

LEMMA Nobodys ==
    ASSUME Types
    PROVE  /\ NotMine(sent) \in Seq(Orders) /\ Len(NotMine(sent)) = Len(sent)
           /\ \A i \in 1 .. Len(sent) : /\ NotMine(sent)[i].cmd = sent[i].cmd
                                         /\ ~NotMine(sent)[i].mine
           /\ NotMine(inbox) \in Seq(Messages) /\ Len(NotMine(inbox)) = Len(inbox)
           /\ \A i \in 1 .. Len(inbox) : ~NotMine(inbox)[i].mine
<1>1. \A i \in 1 .. Len(sent) : sent[i] \in Orders
  BY ElementOfSeq DEF Types
<1>2. \A i \in 1 .. Len(inbox) : inbox[i] \in Messages
  BY ElementOfSeq DEF Types
<1>3. \A x \in Orders : LET y == [x EXCEPT !.mine = FALSE]
                        IN  y \in Orders /\ y.cmd = x.cmd /\ ~y.mine
  BY DEF Orders
<1>4. \A x \in Messages : LET y == [x EXCEPT !.mine = FALSE] IN y \in Messages /\ ~y.mine
  BY DEF Messages
<1>5. sent \in Seq(Orders) /\ inbox \in Seq(Messages)
  BY DEF Types
<1>6. /\ NotMine(sent) \in Seq(Orders) /\ Len(NotMine(sent)) = Len(sent)
      /\ \A i \in 1 .. Len(sent) : NotMine(sent)[i] = [sent[i] EXCEPT !.mine = FALSE]
  BY <1>1, <1>3, <1>5, NobodysSeq
<1>7. /\ NotMine(inbox) \in Seq(Messages) /\ Len(NotMine(inbox)) = Len(inbox)
      /\ \A i \in 1 .. Len(inbox) : NotMine(inbox)[i] = [inbox[i] EXCEPT !.mine = FALSE]
  BY <1>2, <1>4, <1>5, NobodysSeq
<1>8. \A i \in 1 .. Len(sent) : NotMine(sent)[i].cmd = sent[i].cmd /\ ~NotMine(sent)[i].mine
  BY <1>1, <1>3, <1>6
<1>9. \A i \in 1 .. Len(inbox) : ~NotMine(inbox)[i].mine
  BY <1>2, <1>4, <1>7
<1> QED
  BY <1>6, <1>7, <1>8, <1>9

OnlyOpens == \A i \in 1 .. Len(sent) : sent[i].cmd = "open"

\* A request goes out to a modem that has nothing else to answer.
LEMMA AskStep ==
    ASSUME Types, NEW s \in Requests, Ask(s), UNCHANGED <<device, reader>>,
           Calm' => OnlyOpens /\ reader
    PROVE  /\ step' = s /\ step' \in Steps /\ pending' \in Pendings \cup {None}
           /\ sent' \in Seq(Orders) /\ inbox' \in Seq(Messages)
           /\ OneOrder' /\ AnswersTell' /\ (Calm' => pending'.written)
<1> DEFINE new == [cmd |-> s, mine |-> TRUE]
<1>1. pending' = [late |-> busy, written |-> reader /\ device = "up", answer |-> None] /\ step' = s
  BY DEF Ask
<1>2. pending' \in Pendings /\ pending'.answer = None /\ (Calm' => pending'.written)
  <2>1. pending'.written = (reader /\ device = "up") /\ pending'.answer = None
    BY <1>1
  <2>2. pending' \in Pendings
    BY <1>1 DEF Types, Pendings
  <2> QED
    BY <2>1, <2>2 DEF Calm
<1>3. /\ inbox' \in Seq(Messages) /\ \A i \in 1 .. Len(inbox') : ~inbox'[i].mine
  BY Nobodys DEF Ask
<1>4. /\ sent' \in Seq(Orders)
      /\ \A i \in 1 .. Len(sent') :
            \/ i \in 1 .. Len(sent) /\ ~sent'[i].mine /\ sent'[i].cmd = sent[i].cmd
            \/ i = Len(sent) + 1 /\ sent'[i] = new
  <2>1. CASE pending'.written
    <3>1. sent' = NotMine(sent) \o <<new>>
      BY <2>1 DEF Ask
    <3>2. new \in Orders /\ <<new>> \in Seq(Orders) /\ Len(<<new>>) = 1 /\ <<new>>[1] = new
      BY DEF Orders
    <3>3. sent' \in Seq(Orders) /\ Len(sent') = Len(sent) + 1 /\ Len(sent) \in Nat
      BY <3>1, <3>2, Nobodys, ConcatProperties, LenProperties DEF Types
    <3>4. \A i \in 1 .. Len(sent') :
              sent'[i] = IF i <= Len(sent) THEN NotMine(sent)[i] ELSE new
      <4> SUFFICES ASSUME NEW i \in 1 .. Len(sent')
                   PROVE  sent'[i] = IF i <= Len(sent) THEN NotMine(sent)[i] ELSE new
        OBVIOUS
      <4>1. sent'[i] = IF i <= Len(NotMine(sent)) THEN NotMine(sent)[i] ELSE <<new>>[i - Len(NotMine(sent))]
        BY <3>1, <3>2, <3>3, Nobodys, ConcatProperties
      <4>2. Len(NotMine(sent)) = Len(sent)
        BY Nobodys
      <4>3. CASE i <= Len(sent)
        BY <4>1, <4>2, <4>3
      <4>4. CASE ~(i <= Len(sent))
        <5>1. i - Len(sent) = 1
          BY <3>3, <4>4
        <5>2. sent'[i] = <<new>>[i - Len(sent)]
          BY <4>1, <4>2, <4>4
        <5> QED
          BY <3>2, <4>4, <5>1, <5>2
      <4> QED
        BY <4>3, <4>4
    <3> QED
      BY <3>3, <3>4, Nobodys
  <2>2. CASE ~pending'.written
    <3>1. sent' = NotMine(sent) \o <<>>
      BY <2>2 DEF Ask
    <3>2. sent' = NotMine(sent)
      BY <3>1, Nobodys, ConcatEmptySeq
    <3> QED
      BY <3>2, Nobodys
  <2> QED
    BY <2>1, <2>2
<1>5. OneOrder'
  <2> SUFFICES ASSUME Calm'
               PROVE  \A i \in 1 .. Len(sent') :
                        /\ ~sent'[i].mine => sent'[i].cmd = "open"
                        /\ sent'[i].mine =>
                             /\ sent'[i].cmd = step'
                             /\ \A j \in 1 .. Len(sent') : sent'[j].mine => j = i
    BY <1>2, <1>3 DEF OneOrder
  <2>1. new.mine = TRUE /\ new.cmd = s
    OBVIOUS
  <2>2. \A i \in 1 .. Len(sent') : sent'[i].mine => i = Len(sent) + 1 /\ sent'[i] = new
    BY <1>4
  <2>3. \A i \in 1 .. Len(sent') : ~sent'[i].mine => sent'[i].cmd = sent[i].cmd /\ i \in 1 .. Len(sent)
    BY <1>4, <2>1
  <2> QED
    BY <1>1, <2>1, <2>2, <2>3 DEF OnlyOpens
<1>6. AnswersTell'
  BY <1>2, <1>3 DEF AnswersTell
<1> QED
  BY <1>1, <1>2, <1>3, <1>4, <1>5, <1>6 DEF Steps

\* main() rests, and there is nothing that anybody waits for.
LEMMA RestStep ==
    ASSUME Types, NEW s \in {"idle", "left"}, Idles(s), Calm' => OnlyOpens
    PROVE  /\ step' = s /\ step' \in Steps /\ pending' = None
           /\ sent' \in Seq(Orders) /\ inbox' \in Seq(Messages)
           /\ OneOrder' /\ AnswersTell'
<1>1. step' = s /\ pending' = None /\ sent' = NotMine(sent) /\ inbox' = NotMine(inbox)
  BY DEF Idles, Drop
<1>2. OneOrder'
  BY <1>1, Nobodys DEF OneOrder, OnlyOpens
<1>3. AnswersTell'
  BY <1>1, Nobodys DEF AnswersTell
<1> QED
  BY <1>1, <1>2, <1>3, Nobodys DEF Steps
-----------------------------------------------------------------------------
(* The requests of the main thread. *)

\* A request ends with its answer, or without one.
LEMMA HowItEnds ==
    ASSUME NEW r \in Outcomes
    PROVE  /\ pending # None
           /\ \/ pending.answer # None /\ r = pending.answer
              \/ pending.answer = None /\ r = Lost("closed") /\ ~(reader /\ pending.written)
              \/ pending.answer = None /\ r = Lost("timeout")
<1>1. pending # None
  BY DEF Outcomes
<1>2. CASE pending.answer # None
  BY <1>1, <1>2 DEF Outcomes
<1>3. CASE pending.answer = None
  <2>1. r \in {Lost("closed") : x \in IF reader /\ pending.written THEN {} ELSE {0}}
               \cup {Lost("timeout") : x \in IF ~pending.written \/ Expected \/ Len(sent) > MaxLate
                                            THEN {} ELSE {0}}
    BY <1>1, <1>3, Zenon DEF Outcomes
  <2> QED
    BY <1>1, <1>3, <2>1
<1> QED
  BY <1>2, <1>3

\* Unless it is given up, with its answer.
LEMMA Settled ==
    ASSUME CInv, step \in Requests, NEW r \in Outcomes, Calm, r # Lost("timeout")
    PROVE  OnlyOpens /\ reader /\ Tells(r)
<1>1. pending # None
  BY HowItEnds
<1>2. reader /\ pending.written
  BY <1>1 DEF CInv, ReaderWaits, Requests
<1>3. pending.answer # None /\ r = pending.answer
  BY <1>2, HowItEnds
<1>4. Tells(r)
  BY <1>1, <1>3 DEF CInv, AnswersTell
<1>5. OnlyOpens
  BY <1>1, <1>3 DEF CInv, OneOrder, OnlyOpens
<1> QED
  BY <1>2, <1>4, <1>5

\* ... and what is given up asked for the device to be opened, or is noted.
LEMMA GivenUp ==
    ASSUME CInv, step = "open", Calm
    PROVE  OnlyOpens /\ reader
BY DEF CInv, OneOrder, OnlyOpens, ReaderWaits

Kept == UNCHANGED <<device, reader, busy, modem, opened>>

\* What all requests have in common.
LEMMA Calmly ==
    ASSUME CInv, step \in Requests, NEW r \in Outcomes, UNCHANGED <<device, reader>>, Calm',
           Late(r)
    PROVE  Calm /\ OnlyOpens /\ reader /\ Tells(r)
<1>1. ~spoiled /\ r.err # "timeout"
  BY DEF Calm, Late
<1>2. r # Lost("timeout")
  BY <1>1 DEF Lost
<1>3. Calm
  BY <1>1 DEF Calm
<1> QED
  BY <1>2, <1>3, Settled

\* The next request, or the rest after the last, and the call as it is known then.
LEMMA AskNext ==
    ASSUME CInv, NEW s \in Requests, Ask(s), Kept, UNCHANGED quit, step # "left",
           Calm' => OnlyOpens /\ reader, CallKnown', status' \in {"unknown", "up", "down"},
           spoiled' \in BOOLEAN
    PROVE  CInv'
<1>1. Types /\ Types'
  BY AskStep DEF CInv, Types, Kept
<1>2. OneOrder' /\ AnswersTell'
  BY <1>1, AskStep DEF Kept
<1>3. ReaderWaits'
  BY <1>1, AskStep DEF Kept, CInv, ReaderWaits
<1> QED
  BY <1>1, <1>2, <1>3 DEF CInv

LEMMA RestNext ==
    ASSUME CInv, NEW s \in {"idle", "left"}, Idles(s), Kept, step # "left",
           Calm' => OnlyOpens /\ reader, CallKnown', status' \in {"unknown", "up", "down"},
           spoiled' \in BOOLEAN, quit' = quit \/ (s = "left" /\ quit' = "now")
    PROVE  CInv'
<1>1. Types /\ Types'
  BY RestStep DEF CInv, Types, Kept
<1>2. OneOrder' /\ AnswersTell'
  BY <1>1, RestStep DEF Kept
<1>3. ReaderWaits'
  <2>1. step' = s /\ pending' = None
    BY <1>1, RestStep
  <2> QED
    BY <2>1 DEF Kept, CInv, ReaderWaits, Requests
<1> QED
  BY <1>1, <1>2, <1>3 DEF CInv

\* Between two requests nobody waits for an answer.
LEMMA Unasked ==
    ASSUME CInv, step \in {"start", "idle"}, Calm
    PROVE  OnlyOpens /\ reader
<1>1. step \notin Requests /\ step # "left"
  BY DEF Requests
<1>2. \A i \in 1 .. Len(sent) : sent[i] \in Orders
  BY ElementOfSeq DEF CInv, Types
<1>3. \A i \in 1 .. Len(sent) : sent[i].cmd \in Requests
  BY <1>2 DEF Orders
<1> QED
  BY <1>1, <1>3 DEF CInv, OneOrder, OnlyOpens, ReaderWaits

\* While nothing is asked of the modem, the call stays as it is known.
LEMMA CallStays ==
    ASSUME CInv, step \notin {"start", "open", "close", "left", "connect", "address"},
           Calm' => Calm, UNCHANGED <<status, modem, opened>>,
           step' \notin {"connect", "query", "close"},
           step' # "left" \/ quit' # "now"
    PROVE  CallKnown'
BY DEF CInv, CallKnown, NoCall

LEMMA StartStep ==
    ASSUME CInv, Start, Kept
    PROVE  CInv'
<1>1. step = "start" /\ Ask("open") /\ UNCHANGED <<status, quit, spoiled>>
  BY DEF Start
<1>2. step' = "open"
  BY <1>1 DEF Ask
<1>3. Calm' => Calm
  BY <1>1 DEF Calm, Kept
<1>4. CallKnown'
  BY <1>1, <1>2, <1>3 DEF CInv, CallKnown, NoCall, Kept
<1>5. "open" \in Requests
  BY DEF Requests
<1> QED
  BY <1>1, <1>3, <1>4, <1>5, Unasked, AskNext DEF CInv, Types, Kept

LEMMA OpenStep ==
    ASSUME CInv, NEW r \in Outcomes, Open(r), Kept
    PROVE  CInv'
<1>1. step = "open" /\ UNCHANGED <<status, quit, spoiled>> /\ "open" \in Requests
  BY DEF Open, At, Requests
<1>2. Calm' => Calm /\ OnlyOpens /\ reader
  BY <1>1, GivenUp DEF Calm, Kept
<1>3. status \in {"unknown", "up", "down"} /\ spoiled \in BOOLEAN
  BY DEF CInv, Types
<1>4. ASSUME Ok(r), Ask("setup") PROVE CInv'
  <2>1. Calm => Tells(r)
    <3>1. None # "timeout"
      BY MbimCmAssumption
    <3>2. r.err = None /\ Lost("timeout").err = "timeout"
      BY <1>4 DEF Ok, Lost
    <3> QED
      BY <1>1, <3>1, <3>2, Settled
  <2>2. step' = "setup"
    BY <1>4 DEF Ask
  <2>3. CallKnown'
    BY <1>1, <1>2, <2>1, <2>2 DEF CInv, CallKnown, NoCall, Kept, Tells
  <2> QED
    BY <1>1, <1>2, <1>3, <1>4, <2>3, AskNext DEF Requests
<1>5. ASSUME Ask("open") PROVE CInv'
  <2>1. step' = "open"
    BY <1>5 DEF Ask
  <2>2. CallKnown'
    BY <1>1, <1>2, <2>1 DEF CInv, CallKnown, NoCall, Kept
  <2> QED
    BY <1>1, <1>2, <1>3, <1>5, <2>2, AskNext DEF Requests
<1>6. ASSUME Idles("left") PROVE CInv'
  <2>1. step' = "left" /\ quit # "now"
    BY <1>1, <1>6 DEF Idles, CInv, ReaderWaits
  <2>2. CallKnown'
    BY <1>1, <1>2, <2>1 DEF CInv, CallKnown, NoCall, Kept
  <2> QED
    BY <1>1, <1>2, <1>3, <1>6, <2>2, RestNext
<1> QED
  BY <1>4, <1>5, <1>6 DEF Open, Rest

\* The requests whose answers say nothing of the call: mbim_init, the SIM, the
\* registration.
LEMMA OtherStep ==
    ASSUME CInv, NEW r \in Outcomes, Kept,
           SetUp(r) \/ Sim(r) \/ Register(r) \/ Packet(r) \/ Attach(r)
    PROVE  CInv'
<1>1. step \in {"setup", "sim", "register", "packet", "attach"} /\ step \in Requests
  BY DEF SetUp, Sim, Register, Packet, Attach, At, Requests
<1>2. Late(r) /\ UNCHANGED <<status, quit>>
  BY DEF SetUp, Sim, Register, Packet, Attach
<1>3. Calm' => Calm /\ OnlyOpens /\ reader
  BY <1>1, <1>2, Calmly DEF Kept
<1>4. status \in {"unknown", "up", "down"} /\ spoiled' \in BOOLEAN /\ quit # "now"
  BY <1>1, <1>2 DEF CInv, Types, Late, ReaderWaits
<1>5. ASSUME NEW s \in {"setup", "sim", "register", "packet", "attach"}, Ask(s) PROVE CInv'
  <2>1. step' = s /\ s \in Requests
    BY <1>5 DEF Ask, Requests
  <2>2. CallKnown'
    BY <1>1, <1>2, <1>3, <2>1, CallStays DEF Kept
  <2> QED
    BY <1>1, <1>2, <1>3, <1>4, <1>5, <2>1, <2>2, AskNext
<1>6. ASSUME NEW s \in {"idle", "left"}, Idles(s) PROVE CInv'
  <2>1. step' = s
    BY <1>6 DEF Idles
  <2>2. CallKnown'
    BY <1>1, <1>2, <1>3, <1>4, <2>1, CallStays DEF Kept
  <2> QED
    BY <1>1, <1>2, <1>3, <1>4, <1>6, <2>2, RestNext
<1> QED
  BY <1>5, <1>6 DEF SetUp, Sim, Register, Packet, Attach, Rest

\* requestSetupDataCall: the call is made when the answer says so.
LEMMA ConnectStep ==
    ASSUME CInv, NEW r \in Outcomes, Connect(r), Kept
    PROVE  CInv'
<1>1. step = "connect" /\ Late(r) /\ UNCHANGED <<status, quit>> /\ "connect" \in Requests
  BY DEF Connect, At, Requests
<1>2. Calm' => Calm /\ OnlyOpens /\ reader /\ Tells(r)
  BY <1>1, Calmly DEF Kept
<1>3. status \in {"unknown", "up", "down"} /\ spoiled' \in BOOLEAN
  BY <1>1 DEF CInv, Types, Late
<1>4. ASSUME Ask("address") PROVE CInv'
  <2>1. step' = "address"
    BY <1>4 DEF Ask
  <2>2. CallKnown'
    BY <1>1, <1>2, <2>1 DEF CInv, CallKnown, NoCall, Kept
  <2> QED
    BY <1>1, <1>2, <1>3, <1>4, <2>2, AskNext DEF Requests
<1>5. ASSUME ~Ok(r), Idles("idle") PROVE CInv'
  <2>1. step' = "idle"
    BY <1>5 DEF Idles
  <2>2. CallKnown'
    BY <1>1, <1>2, <1>5, <2>1 DEF CInv, CallKnown, NoCall, Kept, Tells, Ok
  <2> QED
    BY <1>1, <1>2, <1>3, <1>5, <2>2, RestNext
<1> QED
  BY <1>4, <1>5 DEF Connect, Rest

\* requestGetIPAddress: there is none only if there is no call.
LEMMA AddressStep ==
    ASSUME CInv, NEW r \in Outcomes, Address(r), Kept
    PROVE  CInv'
<1>1. /\ step = "address" /\ Late(r) /\ UNCHANGED quit /\ Idles("idle")
      /\ status' = IF Ok(r) THEN "up" ELSE "down"
  BY DEF Address, At, Rest
<1>2. Calm' => Calm /\ OnlyOpens /\ reader /\ Tells(r)
  BY <1>1, Calmly DEF Kept, Requests
<1>3. status' \in {"unknown", "up", "down"} /\ spoiled' \in BOOLEAN /\ step' = "idle"
  BY <1>1 DEF CInv, Types, Late, Idles
<1>4. CallKnown'
  BY <1>1, <1>2, <1>3 DEF CInv, CallKnown, NoCall, Kept, Tells, Ok
<1> QED
  BY <1>1, <1>2, <1>3, <1>4, RestNext

\* requestQueryDataCall.
LEMMA QueryStep ==
    ASSUME CInv, NEW r \in Outcomes, Query(r), Kept
    PROVE  CInv'
<1>1. step = "query" /\ Late(r) /\ UNCHANGED quit /\ "query" \in Requests
  BY DEF Query, At, Requests
<1>2. Calm' => Calm /\ OnlyOpens /\ reader /\ Tells(r)
  BY <1>1, Calmly DEF Kept
<1>3. status' = (IF Ok(r) /\ r.val THEN "up" ELSE "down") /\ spoiled' \in BOOLEAN
  BY <1>1 DEF CInv, Types, Late, Query
<1>4. Calm' => status' = "up" \/ NoCall
  <2>1. (r.err = None /\ r.val = TRUE) => status' = "up"
    BY <1>3 DEF Ok
  <2> QED
    BY <1>1, <1>2, <2>1 DEF Tells
<1>5. status' \in {"up", "down"}
  BY <1>3
<1>6. ASSUME Idles("idle") PROVE CInv'
  <2>1. step' = "idle"
    BY <1>6 DEF Idles
  <2>2. CallKnown'
    BY <1>1, <1>2, <1>4, <1>5, <2>1 DEF CInv, CallKnown, NoCall, Kept
  <2> QED
    BY <1>1, <1>2, <1>3, <1>5, <1>6, <2>2, RestNext
<1>7. ASSUME Ask("address") PROVE CInv'
  <2>1. step' = "address"
    BY <1>7 DEF Ask
  <2>2. CallKnown'
    BY <1>1, <1>2, <1>4, <1>5, <2>1 DEF CInv, CallKnown, NoCall, Kept
  <2> QED
    BY <1>1, <1>2, <1>3, <1>5, <1>7, <2>2, AskNext DEF Requests
<1> QED
  BY <1>6, <1>7 DEF Query, Rest

\* The end.
LEMMA DisconnectStep ==
    ASSUME CInv, NEW r \in Outcomes, Disconnect(r), Kept
    PROVE  CInv'
<1>1. /\ step = "disconnect" /\ Late(r) /\ UNCHANGED <<quit, status>> /\ Ask("close")
      /\ {"disconnect", "close"} \subseteq Requests
  BY DEF Disconnect, At, Requests
<1>2. Calm' => Calm /\ OnlyOpens /\ reader /\ Tells(r)
  BY <1>1, Calmly DEF Kept
<1>3. status' \in {"unknown", "up", "down"} /\ spoiled' \in BOOLEAN /\ step' = "close"
  BY <1>1 DEF CInv, Types, Late, Ask
<1>4. CallKnown'
  BY <1>1, <1>2, <1>3 DEF CInv, CallKnown, NoCall, Kept, Tells
<1> QED
  BY <1>1, <1>2, <1>3, <1>4, AskNext

LEMMA CloseStep ==
    ASSUME CInv, NEW r \in Outcomes, Close(r), Kept
    PROVE  CInv'
<1>1. step = "close" /\ Late(r) /\ quit' = "now" /\ UNCHANGED status /\ Idles("left")
  BY DEF Close, At, Rest
<1>2. Calm' => Calm /\ OnlyOpens /\ reader
  BY <1>1, Calmly DEF Kept, Requests
<1>3. status' \in {"unknown", "up", "down"} /\ spoiled' \in BOOLEAN /\ step' = "left"
  BY <1>1 DEF CInv, Types, Late, Idles
<1>4. CallKnown'
  BY <1>1, <1>2, <1>3 DEF CInv, CallKnown, NoCall, Kept
<1> QED
  BY <1>1, <1>2, <1>3, <1>4, RestNext

LEMMA GetsStep == CInv /\ Gets => CInv'
<1> SUFFICES ASSUME CInv, NEW r \in Outcomes, Kept,
                    \/ Open(r) \/ SetUp(r) \/ Sim(r) \/ Register(r) \/ Packet(r) \/ Attach(r) \/ Connect(r)
                    \/ Address(r) \/ Query(r) \/ Disconnect(r) \/ Close(r)
             PROVE  CInv'
  BY DEF Gets, Kept
<1> QED
  BY OpenStep, OtherStep, ConnectStep, AddressStep, QueryStep, DisconnectStep, CloseStep
-----------------------------------------------------------------------------
(* The loop of main(). *)

\* SIG_EVENT_STOP.
LEMMA StopStep ==
    ASSUME CInv, Stop
    PROVE  CInv'
<1>1. /\ step = "idle" /\ UNCHANGED <<device, reader, busy, quit, status, modem, opened, spoiled>>
      /\ Ask(IF status = "up" THEN "disconnect" ELSE "close")
  BY DEF Stop
<1> DEFINE s == IF status = "up" THEN "disconnect" ELSE "close"
<1>2. s \in Requests /\ step' = s
  BY <1>1 DEF Requests, Ask
<1>3. Calm' => Calm /\ OnlyOpens /\ reader
  BY <1>1, Unasked DEF Calm
<1>4. CallKnown'
  BY <1>1, <1>2, <1>3 DEF CInv, CallKnown, NoCall, Types
<1> QED
  <2>1. Kept /\ UNCHANGED quit /\ step # "left" /\ Ask(s)
    BY <1>1 DEF Kept
  <2>2. status' \in {"unknown", "up", "down"} /\ spoiled' \in BOOLEAN
    BY <1>1 DEF CInv, Types
  <2> HIDE DEF s
  <2> QED
    BY <1>2, <1>3, <1>4, <2>1, <2>2, AskNext

\* An event, a CHECK, or a dial.
LEMMA RoundStep ==
    ASSUME CInv, SetupDataCall \/ Check \/ \E e \in Events : Serve(e)
    PROVE  CInv'
<1>1. Round
  BY DEF SetupDataCall, Check, Serve
<1>2. step = "idle" /\ Kept /\ UNCHANGED <<quit, status, spoiled>>
  BY <1>1 DEF Round, Kept
<1>3. /\ status' \in {"unknown", "up", "down"} /\ spoiled' \in BOOLEAN /\ quit # "now"
  BY <1>2 DEF CInv, Types, ReaderWaits
<1>4. Calm' => Calm /\ OnlyOpens /\ reader
  BY <1>2, Unasked DEF Calm, Kept
<1>5. ASSUME NEW s \in {"register", "query", "connect"}, Ask(s),
             s = "query" => status # "down", s = "connect" => status = "down"
      PROVE  CInv'
  <2>1. step' = s /\ s \in Requests
    BY <1>5 DEF Ask, Requests
  <2>2. CallKnown'
    BY <1>2, <1>4, <1>5, <2>1 DEF CInv, CallKnown, NoCall, Kept
  <2> QED
    BY <1>2, <1>3, <1>4, <1>5, <2>1, <2>2, AskNext
<1>6. ASSUME NEW s \in {"idle", "left"}, Idles(s) PROVE CInv'
  <2>1. step' = s
    BY <1>6 DEF Idles
  <2>2. CallKnown'
    BY <1>2, <1>3, <1>4, <2>1, CallStays DEF Kept
  <2> QED
    BY <1>2, <1>3, <1>4, <1>6, <2>2, RestNext
<1> QED
  BY <1>5, <1>6 DEF SetupDataCall, Check, Serve

\* A signal changes nothing but what is to come.
LEMMA SigintStep ==
    ASSUME CInv, Sigint
    PROVE  CInv'
<1>1. /\ step # "left" /\ quit' = IF quit = "no" THEN "stop" ELSE quit
      /\ UNCHANGED <<device, reader, pending, sent, inbox, busy, step, status, modem, opened, spoiled>>
  BY DEF Sigint
<1>2. Types'
  BY <1>1 DEF CInv, Types
<1>3. ReaderWaits'
  BY <1>1 DEF CInv, ReaderWaits, Calm
<1>4. OneOrder' /\ AnswersTell'
  BY <1>1 DEF CInv, OneOrder, AnswersTell, Calm, Tells, NoCall
<1>5. CallKnown'
  BY <1>1 DEF CInv, CallKnown, Calm, NoCall
<1> QED
  BY <1>2, <1>3, <1>4, <1>5 DEF CInv
-----------------------------------------------------------------------------
(* The reader. *)

LEMMA ReceiveStep ==
    ASSUME CInv, Receive
    PROVE  CInv'
<1> DEFINE m == Head(inbox)
<1>1. /\ inbox # <<>> /\ inbox' = Tail(inbox)
      /\ pending' = IF ForPending(m) THEN [pending EXCEPT !.answer = [err |-> m.err, val |-> m.val]]
                                     ELSE pending
      /\ UNCHANGED <<device, reader, quit, sent, busy, step, status, modem, opened, spoiled>>
  BY DEF Receive
<1>2. /\ inbox \in Seq(Messages) /\ Len(inbox) \in Nat /\ Len(inbox) > 0
      /\ m \in Messages /\ m = inbox[1] /\ 1 \in 1 .. Len(inbox)
  BY <1>1, HeadTailProperties, ElementOfSeq, LenProperties, EmptySeq DEF CInv, Types
<1>3. /\ inbox' \in Seq(Messages) /\ Len(inbox') = Len(inbox) - 1
      /\ \A k \in 1 .. Len(inbox') : k + 1 \in 1 .. Len(inbox) /\ inbox'[k] = inbox[k + 1]
  BY <1>1, <1>2, HeadTailProperties
<1>4. [err |-> m.err, val |-> m.val] \in Replies
  BY <1>2 DEF Messages, Replies, Errors
<1> HIDE DEF m
<1>5. CASE ForPending(m)
  <2>1. pending # None /\ pending \in Pendings /\ m.mine
    BY <1>5 DEF ForPending, CInv, Types
  <2>2. /\ pending' \in Pendings /\ pending'.written = pending.written
        /\ pending'.answer = [err |-> m.err, val |-> m.val]
    BY <1>1, <1>4, <1>5, <2>1 DEF Pendings
  <2>3. Types'
    BY <1>1, <1>3, <2>2 DEF CInv, Types
  <2>4. ReaderWaits'
    BY <1>1, <2>1, <2>2 DEF CInv, ReaderWaits, Calm
  <2>5. OneOrder'
    BY <1>1, <1>2, <2>1 DEF CInv, OneOrder, Calm
  <2>6. Calm => step \in Requests /\ Tells(m)
    BY <1>2, <2>1 DEF CInv, AnswersTell
  <2>7. AnswersTell'
    BY <1>1, <1>3, <2>2, <2>6 DEF CInv, AnswersTell, Calm, Tells, NoCall
  <2>8. CallKnown'
    BY <1>1 DEF CInv, CallKnown, Calm, NoCall
  <2> QED
    BY <2>3, <2>4, <2>5, <2>7, <2>8 DEF CInv
<1>6. CASE ~ForPending(m)
  <2>1. UNCHANGED pending
    BY <1>1, <1>6
  <2>2. Types' /\ ReaderWaits'
    BY <1>1, <1>3, <2>1 DEF CInv, Types, ReaderWaits, Calm
  <2>3. OneOrder'
    BY <1>1, <1>3, <2>1 DEF CInv, OneOrder, Calm
  <2>4. AnswersTell'
    BY <1>1, <1>3, <2>1 DEF CInv, AnswersTell, Calm, Tells, NoCall
  <2>5. CallKnown'
    BY <1>1 DEF CInv, CallKnown, Calm, NoCall
  <2> QED
    BY <2>2, <2>3, <2>4, <2>5 DEF CInv
<1> QED
  BY <1>5, <1>6

\* It ends before main() does only with the device, or spoils the calm.
LEMMA ReaderEndsStep ==
    ASSUME CInv, ReaderEnds
    PROVE  CInv'
<1>1. /\ reader' = FALSE /\ spoiled' = (spoiled \/ quit = "stop")
      /\ device = "hung" \/ quit = "now" \/ quit = "stop"
      /\ UNCHANGED <<device, quit, pending, sent, inbox, busy, step, status, modem, opened>>
  BY DEF ReaderEnds
<1>2. Types'
  BY <1>1 DEF CInv, Types
<1>3. Calm' => Calm /\ step = "left"
  BY <1>1 DEF Calm, CInv, ReaderWaits
<1>4. ReaderWaits'
  BY <1>1, <1>3 DEF CInv, ReaderWaits, Requests
<1>5. OneOrder' /\ AnswersTell'
  BY <1>1, <1>3 DEF CInv, OneOrder, AnswersTell, Tells, NoCall
<1>6. CallKnown'
  BY <1>1, <1>3 DEF CInv, CallKnown, NoCall
<1> QED
  BY <1>2, <1>4, <1>5, <1>6 DEF CInv
-----------------------------------------------------------------------------
(* The modem. *)

\* Messages that answer nothing.
Arrives(q) == q \in Seq(Messages) /\ \A k \in 1 .. Len(q) : ~q[k].mine

LEMMA ArriveBoth ==
    ASSUME NEW p, NEW q, Arrives(p), Arrives(q)
    PROVE  Arrives(p \o q)
<1>1. p \in Seq(Messages) /\ q \in Seq(Messages) /\ Len(p) \in Nat /\ Len(q) \in Nat
  BY LenProperties DEF Arrives
<1>2. p \o q \in Seq(Messages) /\ Len(p \o q) = Len(p) + Len(q)
  BY <1>1, ConcatProperties
<1>3. ASSUME NEW k \in 1 .. Len(p \o q) PROVE ~(p \o q)[k].mine
  <2>1. CASE k <= Len(p)
    BY <1>1, <1>2, <2>1, ConcatProperties DEF Arrives
  <2>2. CASE k > Len(p)
    <3>1. (p \o q)[k] = q[k - Len(p)] /\ k - Len(p) \in 1 .. Len(q)
      BY <1>1, <1>2, <2>2, ConcatProperties
    <3> QED
      BY <3>1 DEF Arrives
  <2> QED
    BY <1>1, <1>2, <2>1, <2>2
<1> QED
  BY <1>2, <1>3 DEF Arrives

LEMMA ReportsArrive ==
    ASSUME NEW new \in [Topics -> BOOLEAN]
    PROVE  Arrives(Reports(new))
<1>1. ASSUME NEW t \in Topics PROVE Arrives(Report(t, new))
  <2>1. Ind(t, new[t]) \in Messages /\ ~Ind(t, new[t]).mine
    BY DEF Ind, Messages
  <2>2. Arrives(<<Ind(t, new[t])>>) /\ Arrives(<<>>)
    BY <2>1, EmptySeq DEF Arrives
  <2> QED
    BY <2>2 DEF Report
<1> QED
  BY <1>1, ArriveBoth DEF Reports, Topics

LEMMA ArriveNobodys ==
    ASSUME NEW p \in Seq(Messages), NEW q, Arrives(q)
    PROVE  /\ p \o q \in Seq(Messages)
           /\ \A k \in 1 .. Len(p \o q) : (p \o q)[k].mine => \E j \in 1 .. Len(p) : (p \o q)[k] = p[j]
<1>1. q \in Seq(Messages) /\ Len(p) \in Nat /\ Len(q) \in Nat
  BY LenProperties DEF Arrives
<1>2. p \o q \in Seq(Messages) /\ Len(p \o q) = Len(p) + Len(q)
  BY <1>1, ConcatProperties
<1>3. ASSUME NEW k \in 1 .. Len(p \o q), (p \o q)[k].mine
      PROVE  \E j \in 1 .. Len(p) : (p \o q)[k] = p[j]
  <2>1. CASE k <= Len(p)
    BY <1>1, <1>2, <2>1, ConcatProperties
  <2>2. CASE k > Len(p)
    <3>1. (p \o q)[k] = q[k - Len(p)] /\ k - Len(p) \in 1 .. Len(q)
      BY <1>1, <1>2, <2>2, ConcatProperties
    <3> QED
      BY <1>3, <3>1 DEF Arrives
  <2> QED
    BY <1>1, <1>2, <2>1, <2>2
<1> QED
  BY <1>2, <1>3

\* What the modem does by itself, but for making a call, harms nothing.
LEMMA WithoutCall ==
    ASSUME CInv, UNCHANGED <<device, reader, quit, pending, sent, busy, step, status, spoiled>>,
           modem' \in [Topics -> BOOLEAN], opened' \in BOOLEAN,
           NoCall => NoCall', opened => opened' \/ NoCall',
           inbox' \in Seq(Messages),
           \A k \in 1 .. Len(inbox') : inbox'[k].mine => \E j \in 1 .. Len(inbox) : inbox'[k] = inbox[j]
    PROVE  CInv'
<1>1. Types' /\ ReaderWaits'
  BY DEF CInv, Types, ReaderWaits, Calm
<1>2. OneOrder'
  BY DEF CInv, OneOrder, Calm
<1>3. \A m : Tells(m) => Tells(m)'
  BY DEF Tells
<1>4. AnswersTell'
  BY <1>3 DEF CInv, AnswersTell, Calm
<1>5. CallKnown'
  BY DEF CInv, CallKnown, Calm
<1> QED
  BY <1>1, <1>2, <1>4, <1>5 DEF CInv

\* A call goes by itself, and is not made.
LEMMA HappensStep ==
    ASSUME CInv, Happens
    PROVE  CInv'
<1>1. UNCHANGED <<device, reader, quit, pending, sent, busy, step, status, opened, spoiled>>
  BY DEF Happens
<1>2. PICK t \in Topics :
        /\ modem[t] \/ (t = "ps" /\ modem.reg) \/ t = "reg"
        /\ modem' = [u \in Topics |->
                        IF u = t THEN ~modem[t]
                        ELSE modem[u] /\ ~(modem[t] /\ (t = "reg" \/ (t = "ps" /\ u = "call")))]
        /\ inbox' = inbox \o IF opened THEN Reports(modem') ELSE <<>>
  BY DEF Happens
<1>3. modem' \in [Topics -> BOOLEAN] /\ (NoCall => NoCall')
  <2>1. modem \in [Topics -> BOOLEAN] /\ "call" \in Topics
    BY DEF CInv, Types, Topics
  <2>2. modem' \in [Topics -> BOOLEAN]
    BY <1>2, <2>1
  <2>3. NoCall => NoCall'
    <3>1. CASE t = "call"
      BY <1>2, <2>1, <3>1 DEF NoCall
    <3>2. CASE t # "call"
      BY <1>2, <2>1, <3>2 DEF NoCall
    <3> QED
      BY <3>1, <3>2
  <2> QED
    BY <2>2, <2>3
<1>4. IF opened THEN Arrives(Reports(modem')) ELSE Arrives(<<>>)
  BY <1>3, ReportsArrive, EmptySeq DEF Arrives
<1> DEFINE more == IF opened THEN Reports(modem') ELSE <<>>
<1>5. Arrives(more) /\ inbox' = inbox \o more
  BY <1>2, <1>4
<1> HIDE DEF more
<1>6. /\ inbox' \in Seq(Messages)
      /\ \A k \in 1 .. Len(inbox') : inbox'[k].mine => \E j \in 1 .. Len(inbox) : inbox'[k] = inbox[j]
  BY <1>5, ArriveNobodys DEF CInv, Types
<1> QED
  <2>1. opened' \in BOOLEAN /\ (opened => opened')
    BY <1>1 DEF CInv, Types
  <2> QED
    BY <1>1, <1>3, <1>6, <2>1, WithoutCall

LEMMA ResumesStep ==
    ASSUME CInv, Resumes
    PROVE  CInv'
<1>1. /\ UNCHANGED <<device, reader, quit, pending, sent, inbox, busy, step, status, spoiled>>
      /\ opened' = FALSE /\ modem' = [modem EXCEPT !.call = FALSE]
  BY DEF Resumes
<1>2. modem' \in [Topics -> BOOLEAN] /\ NoCall'
  BY <1>1 DEF CInv, Types, NoCall, Topics
<1>3. inbox' \in Seq(Messages) /\ opened' \in BOOLEAN
  BY <1>1 DEF CInv, Types
<1>4. \A k \in 1 .. Len(inbox') : inbox'[k].mine => \E j \in 1 .. Len(inbox) : inbox'[k] = inbox[j]
  BY <1>1
<1> QED
  BY <1>1, <1>2, <1>3, <1>4, WithoutCall

LEMMA HeldUpStep ==
    ASSUME CInv, Busy \/ Ready \/ HangsUp
    PROVE  CInv'
<1>1. /\ UNCHANGED <<reader, quit, sent, inbox, step, status, modem, opened, spoiled>>
      /\ device' \in {device, "hung"} /\ busy' \in {busy, TRUE, FALSE}
      /\ pending' \in {pending, IF pending = None THEN None ELSE [pending EXCEPT !.late = TRUE]}
  BY DEF Busy, Ready, HangsUp
<1>2. /\ pending' \in Pendings \cup {None}
      /\ pending' # None => pending # None /\ pending'.written = pending.written
                                          /\ pending'.answer = pending.answer
  <2>1. CASE pending' = pending
    BY <2>1 DEF CInv, Types
  <2>2. CASE pending = None
    BY <1>1, <2>2
  <2>3. CASE pending # None /\ pending' = [pending EXCEPT !.late = TRUE]
    <3>1. pending \in Pendings
      BY <2>3 DEF CInv, Types
    <3> QED
      BY <2>3, <3>1 DEF Pendings
  <2> QED
    BY <1>1, <2>1, <2>2, <2>3
<1>3. Types'
  BY <1>1, <1>2 DEF CInv, Types
<1>4. Calm' => Calm
  BY <1>1 DEF Calm, CInv, Types
<1>5. ReaderWaits'
  BY <1>1, <1>2, <1>4 DEF CInv, ReaderWaits
<1>6. OneOrder'
  BY <1>1, <1>2, <1>4 DEF CInv, OneOrder
<1>7. AnswersTell' /\ CallKnown'
  BY <1>1, <1>2, <1>4 DEF CInv, AnswersTell, CallKnown, Tells, NoCall
<1> QED
  BY <1>3, <1>5, <1>6, <1>7 DEF CInv

\* What it makes of a request: a call is made by "connect" only, and lost by
\* "disconnect", and the answer says whether there is one.
Says(c, new, err, val) ==
    /\ new \in [Topics -> BOOLEAN] /\ err \in Errors /\ val \in BOOLEAN \cup {None}
    /\ c # "connect" => (new.call => modem.call)
    /\ c = "open" => new = modem
    /\ c # "open" /\ ~opened => new = modem
    /\ c = "query" /\ opened => err = None /\ val = modem.call /\ new = modem
    /\ c = "connect" /\ err # None => new = modem
    /\ c = "address" => new = modem /\ (opened /\ err # None => ~modem.call)
    /\ c = "disconnect" /\ opened => ~new.call

LEMMA Components ==
    ASSUME NEW x, NEW y, NEW z
    PROVE  <<x, y, z>>[1] = x /\ <<x, y, z>>[2] = y /\ <<x, y, z>>[3] = z
OBVIOUS

LEMMA AnswerOf ==
    ASSUME modem \in [Topics -> BOOLEAN], opened \in BOOLEAN, NEW c \in Requests, NEW a \in Answers(c)
    PROVE  Says(c, a[1], a[2], a[3])
<1> DEFINE S(x, y, z) == a = <<x, y, z>> /\ Says(c, x, y, z)
<1>0. ASSUME NEW x, NEW y, NEW z, S(x, y, z) PROVE Says(c, a[1], a[2], a[3])
  BY <1>0, Components
<1>1. {"reg", "ps", "call"} \subseteq Topics
  BY DEF Topics
<1>2. \A t \in Topics : \A v \in BOOLEAN : [modem EXCEPT ![t] = v] \in [Topics -> BOOLEAN]
  OBVIOUS
<1>3. CASE c = "open"
  <2>1. a = <<modem, None, None>>
    BY <1>3 DEF Answers
  <2>2. Says(c, modem, None, None)
    BY <1>3 DEF Says, Errors
  <2> QED
    BY <1>0, <2>1, <2>2
<1>4. CASE c # "open" /\ ~opened
  <2>1. a = <<modem, "not opened", None>>
    BY <1>4 DEF Answers
  <2>2. Says(c, modem, "not opened", None)
    BY <1>4 DEF Says, Errors
  <2> QED
    BY <1>0, <2>1, <2>2
<1>5. CASE opened /\ c \in {"setup", "sim", "close"}
  <2>1. a = <<modem, None, None>>
    BY <1>5 DEF Answers
  <2>2. Says(c, modem, None, None)
    BY <1>5 DEF Says, Errors
  <2> QED
    BY <1>0, <2>1, <2>2
<1>6. ASSUME opened, NEW t \in Topics, a = <<modem, None, modem[t]>>, c \in {"register", "packet", "query"},
             c = "query" => t = "call"
      PROVE  Says(c, a[1], a[2], a[3])
  <2>1. Says(c, modem, None, modem[t])
    BY <1>6 DEF Says, Errors
  <2> QED
    BY <1>0, <1>6, <2>1
<1>7. CASE opened /\ c = "register"
  <2>1. a = <<modem, None, modem["reg"]>>
    BY <1>7 DEF Answers
  <2> QED
    BY <1>1, <1>6, <1>7, <2>1
<1>8. CASE opened /\ c = "packet"
  <2>1. a = <<modem, None, modem["ps"]>>
    BY <1>8 DEF Answers
  <2> QED
    BY <1>1, <1>6, <1>8, <2>1
<1>9. CASE opened /\ c = "query"
  <2>1. a = <<modem, None, modem["call"]>>
    BY <1>9 DEF Answers
  <2> QED
    BY <1>1, <1>6, <1>9, <2>1
<1>10. CASE opened /\ c = "attach"
  <2>1. \/ a = <<[modem EXCEPT !["ps"] = TRUE], None, TRUE>>
        \/ a = <<modem, None, FALSE>> \/ a = <<modem, "refused", None>>
    BY <1>10 DEF Answers
  <2>2. Says(c, [modem EXCEPT !["ps"] = TRUE], None, TRUE)
    BY <1>1, <1>10 DEF Says, Errors
  <2>3. Says(c, modem, None, FALSE) /\ Says(c, modem, "refused", None)
    BY <1>10 DEF Says, Errors
  <2> QED
    BY <1>0, <2>1, <2>2, <2>3
<1>11. CASE opened /\ c = "connect"
  <2>1. \/ a = <<[modem EXCEPT !["call"] = TRUE], None, TRUE>> \/ a = <<modem, "refused", None>>
    BY <1>11 DEF Answers
  <2>2. Says(c, [modem EXCEPT !["call"] = TRUE], None, TRUE)
    BY <1>1, <1>11 DEF Says, Errors
  <2>3. Says(c, modem, "refused", None)
    BY <1>11 DEF Says, Errors
  <2> QED
    BY <1>0, <2>1, <2>2, <2>3
<1>12. CASE opened /\ c = "disconnect"
  <2>1. a = <<[modem EXCEPT !["call"] = FALSE], None, FALSE>>
    BY <1>12 DEF Answers
  <2>2. Says(c, [modem EXCEPT !["call"] = FALSE], None, FALSE)
    BY <1>1, <1>12 DEF Says, Errors
  <2> QED
    BY <1>0, <2>1, <2>2
<1>13. CASE opened /\ c = "address"
  <2>1. a = <<modem, IF modem.call THEN None ELSE "refused", None>>
    BY <1>13 DEF Answers
  <2>2. Says(c, modem, IF modem.call THEN None ELSE "refused", None)
    BY <1>13 DEF Says, Errors
  <2> QED
    BY <1>0, <2>1, <2>2
<1> QED
  BY <1>3, <1>4, <1>5, <1>7, <1>8, <1>9, <1>10, <1>11, <1>12, <1>13 DEF Requests

\* What is left of the orders, when the first is answered.
LEMMA OrderTaken ==
    ASSUME CInv, sent # <<>>, sent' = Tail(sent)
    PROVE  /\ sent' \in Seq(Orders) /\ Head(sent) \in Orders
           /\ 1 \in 1 .. Len(sent) /\ Head(sent) = sent[1]
           /\ \A i \in 1 .. Len(sent') : i + 1 \in 1 .. Len(sent) /\ sent'[i] = sent[i + 1]
<1>1. sent \in Seq(Orders) /\ Len(sent) \in Nat /\ Len(sent) > 0
  BY LenProperties, EmptySeq DEF CInv, Types
<1>2. /\ sent' \in Seq(Orders) /\ Len(sent') = Len(sent) - 1 /\ Head(sent) = sent[1]
      /\ \A i \in 1 .. Len(sent') : sent'[i] = sent[i + 1]
  BY <1>1, HeadTailProperties
<1>3. sent[1] \in Orders
  BY <1>1, ElementOfSeq
<1> QED
  BY <1>1, <1>2, <1>3

\* What may be in the inbox afterwards.
LEMMA AnswerArrives ==
    ASSUME Types, NEW d \in Messages, NEW rep, Arrives(rep),
           inbox' \in {inbox \o <<d>> \o rep, inbox \o rep \o <<d>>}
    PROVE  /\ inbox' \in Seq(Messages)
           /\ \A k \in 1 .. Len(inbox') : inbox'[k].mine =>
                \/ inbox'[k] = d
                \/ \E j \in 1 .. Len(inbox) : inbox'[k] = inbox[j]
<1> DEFINE Sound(q) == /\ q \in Seq(Messages)
                       /\ \A k \in 1 .. Len(q) : q[k].mine =>
                            q[k] = d \/ \E j \in 1 .. Len(inbox) : q[k] = inbox[j]
<1>1. Sound(inbox)
  BY DEF Types
<1>2. <<d>> \in Seq(Messages) /\ Len(<<d>>) = 1 /\ <<d>>[1] = d
  OBVIOUS
<1>3. ASSUME NEW q, Sound(q) PROVE Sound(q \o <<d>>)
  <2>1. q \in Seq(Messages) /\ Len(q) \in Nat
    BY <1>3, LenProperties
  <2>2. q \o <<d>> \in Seq(Messages) /\ Len(q \o <<d>>) = Len(q) + 1
    BY <1>2, <2>1, ConcatProperties
  <2>3. ASSUME NEW k \in 1 .. Len(q \o <<d>>) PROVE (q \o <<d>>)[k] = IF k <= Len(q) THEN q[k] ELSE d
    <3>1. CASE k <= Len(q)
      BY <1>2, <2>1, <2>2, <3>1, ConcatProperties
    <3>2. CASE k > Len(q)
      <4>1. (q \o <<d>>)[k] = <<d>>[k - Len(q)] /\ k - Len(q) = 1
        BY <1>2, <2>1, <2>2, <3>2, ConcatProperties
      <4> QED
        BY <1>2, <2>1, <3>2, <4>1
    <3> QED
      BY <2>1, <2>2, <3>1, <3>2
  <2> QED
    BY <1>3, <2>1, <2>2, <2>3
<1>4. ASSUME NEW q, Sound(q) PROVE Sound(q \o rep)
  <2>1. q \in Seq(Messages)
    BY <1>4
  <2>2. /\ q \o rep \in Seq(Messages)
        /\ \A k \in 1 .. Len(q \o rep) : (q \o rep)[k].mine => \E j \in 1 .. Len(q) : (q \o rep)[k] = q[j]
    BY <2>1, ArriveNobodys
  <2> QED
    BY <1>4, <2>2
<1> HIDE DEF Sound
<1>5. Sound(inbox \o <<d>> \o rep) /\ Sound(inbox \o rep \o <<d>>)
  BY <1>1, <1>3, <1>4
<1>6. Sound(inbox')
  BY <1>5
<1> QED
  BY <1>6 DEF Sound

LEMMA ModemAnswersStep ==
    ASSUME CInv, ModemAnswers
    PROVE  CInv'
<1>0. PICK s : s = Head(sent)
  OBVIOUS
<1>1. /\ sent # <<>> /\ sent' = Tail(sent)
      /\ UNCHANGED <<device, reader, quit, pending, busy, step, status, spoiled>>
  BY DEF ModemAnswers
<1>2. /\ sent' \in Seq(Orders) /\ s \in Orders /\ s = sent[1] /\ 1 \in 1 .. Len(sent)
      /\ \A i \in 1 .. Len(sent') : i + 1 \in 1 .. Len(sent) /\ sent'[i] = sent[i + 1]
  BY <1>0, <1>1, OrderTaken
<1>3. PICK a \in Answers(s.cmd) :
        /\ modem' = a[1]
        /\ inbox' \in {inbox \o <<Done(s, a[2], a[3])>> \o Reports(a[1]),
                      inbox \o Reports(a[1]) \o <<Done(s, a[2], a[3])>>}
        /\ opened' = (s.cmd = "open" \/ (opened /\ s.cmd # "close"))
  BY <1>0 DEF ModemAnswers
<1>20. PICK d : d = Done(s, a[2], a[3])
  OBVIOUS
<1>4. s.cmd \in Requests /\ s.mine \in BOOLEAN
  BY <1>2 DEF Orders
<1>5. modem \in [Topics -> BOOLEAN] /\ opened \in BOOLEAN /\ opened' \in BOOLEAN
  BY <1>3 DEF CInv, Types
<1>6. Says(s.cmd, modem', a[2], a[3])
  BY <1>3, <1>4, <1>5, AnswerOf
<1>7. d \in Messages /\ d.mine = s.mine /\ d.err = a[2] /\ d.val = a[3]
  BY <1>20, <1>4, <1>6 DEF Done, Messages, Says, Errors, Topics
<1>8. /\ inbox' \in Seq(Messages)
      /\ \A k \in 1 .. Len(inbox') : inbox'[k].mine =>
            inbox'[k] = d \/ \E j \in 1 .. Len(inbox) : inbox'[k] = inbox[j]
  <2>1. Arrives(Reports(a[1]))
    BY <1>3, <1>6, ReportsArrive DEF Says
  <2> QED
    BY <1>20, <1>3, <1>7, <2>1, AnswerArrives DEF CInv
<1>9. Types' /\ ReaderWaits'
  <2>1. modem' \in [Topics -> BOOLEAN]
    BY <1>6 DEF Says
  <2> QED
    BY <1>1, <1>2, <1>5, <1>8, <2>1 DEF CInv, Types, ReaderWaits, Calm
<1>10. CASE ~Calm
  BY <1>1, <1>9, <1>10 DEF CInv, OneOrder, AnswersTell, CallKnown, Calm
<1>11. CASE Calm /\ ~s.mine
  <2>1. s.cmd = "open"
    BY <1>2, <1>11 DEF CInv, OneOrder
  <2>2. modem' = modem /\ opened' = TRUE
    BY <1>3, <1>6, <2>1 DEF Says
  <2>3. OneOrder'
    <3> SUFFICES ASSUME NEW i \in 1 .. Len(sent')
                 PROVE  /\ ~sent'[i].mine => sent'[i].cmd = "open"
                        /\ sent'[i].mine =>
                             /\ sent'[i].cmd = step
                             /\ \A j \in 1 .. Len(sent') : sent'[j].mine => j = i
                             /\ pending # None => pending.answer = None
                             /\ \A k \in 1 .. Len(inbox') : ~inbox'[k].mine
      BY <1>1 DEF OneOrder
    <3>1. /\ ~sent[i + 1].mine => sent[i + 1].cmd = "open"
          /\ sent[i + 1].mine =>
               /\ sent[i + 1].cmd = step
               /\ \A j \in 1 .. Len(sent) : sent[j].mine => j = i + 1
               /\ pending # None => pending.answer = None
               /\ \A k \in 1 .. Len(inbox) : ~inbox[k].mine
      BY <1>2, <1>11 DEF CInv, OneOrder
    <3>2. \A j \in 1 .. Len(sent') : sent[i + 1].mine /\ sent'[j].mine => j = i
      <4>1. \A j \in 1 .. Len(sent') : sent[i + 1].mine /\ sent'[j].mine => j + 1 = i + 1
        BY <1>2, <3>1
      <4> QED
        BY <4>1
    <3>3. sent[i + 1].mine => \A k \in 1 .. Len(inbox') : ~inbox'[k].mine
      BY <1>7, <1>8, <1>11, <3>1
    <3> QED
      BY <1>2, <3>1, <3>2, <3>3
  <2>4. \A m : Tells(m) => Tells(m)'
    BY <1>1, <2>2 DEF Tells, NoCall
  <2>5. AnswersTell'
    BY <1>1, <1>7, <1>8, <1>11, <2>4 DEF CInv, AnswersTell, Calm
  <2>6. CallKnown'
    BY <1>1, <1>2, <2>2 DEF CInv, CallKnown, Calm, NoCall
  <2> QED
    BY <1>9, <2>3, <2>5, <2>6 DEF CInv
<1>12. CASE Calm /\ s.mine
  <2>1. /\ s.cmd = step /\ step \in Requests
        /\ \A j \in 1 .. Len(sent) : sent[j].mine => j = 1
        /\ pending # None => pending.answer = None
        /\ \A k \in 1 .. Len(inbox) : ~inbox[k].mine
    BY <1>2, <1>4, <1>12 DEF CInv, OneOrder
  <2>2. \A i \in 1 .. Len(sent') : ~sent'[i].mine /\ sent'[i].cmd = "open"
    <3> SUFFICES ASSUME NEW i \in 1 .. Len(sent')
                 PROVE  ~sent'[i].mine /\ sent'[i].cmd = "open"
      OBVIOUS
    <3>1. i + 1 \in 1 .. Len(sent) /\ i + 1 # 1 /\ sent'[i] = sent[i + 1]
      BY <1>2
    <3> QED
      BY <1>12, <2>1, <3>1 DEF CInv, OneOrder
  <2>3. OneOrder'
    BY <2>2 DEF OneOrder
  <2>4. /\ step \notin {"start", "open", "close", "left"} => opened \/ NoCall
        /\ step = "connect" => NoCall
    BY <1>2, <1>12 DEF CInv, CallKnown
  <2>5. /\ step \notin {"open", "close"} => opened' = opened
        /\ step = "open" => opened' = TRUE
        /\ step # "connect" => (NoCall => NoCall')
        /\ step # "open" /\ ~opened => (NoCall => NoCall')
    BY <1>3, <1>5, <1>6, <2>1 DEF Says, NoCall
  <2>6. Tells(d)'
    <3>1. step = "query" => (d.err = None /\ d.val = TRUE) \/ NoCall'
      <4>1. CASE step = "query" /\ opened
        <5>1. d.err = None /\ d.val = modem.call /\ modem' = modem
          BY <1>6, <1>7, <2>1, <4>1 DEF Says
        <5>2. modem.call \in BOOLEAN
          BY <1>5 DEF Topics
        <5> QED
          BY <5>1, <5>2 DEF NoCall
      <4>2. CASE step = "query" /\ ~opened
        BY <2>4, <2>5, <4>2
      <4> QED
        BY <1>5, <4>1, <4>2
    <3>2. step = "connect" => d.err = None \/ NoCall'
      BY <1>6, <1>7, <2>1, <2>4 DEF Says, NoCall
    <3>3. step = "address" => d.err = None \/ NoCall'
      <4>1. CASE step = "address" /\ opened
        BY <1>6, <1>7, <2>1, <4>1 DEF Says, NoCall
      <4>2. CASE step = "address" /\ ~opened
        BY <2>4, <2>5, <4>2
      <4> QED
        BY <1>5, <4>1, <4>2
    <3>4. step = "disconnect" => NoCall'
      <4>1. CASE step = "disconnect" /\ opened
        BY <1>6, <2>1, <4>1 DEF Says, NoCall
      <4>2. CASE step = "disconnect" /\ ~opened
        BY <2>4, <2>5, <4>2
      <4> QED
        BY <1>5, <4>1, <4>2
    <3> QED
      BY <1>1, <2>5, <3>1, <3>2, <3>3, <3>4 DEF Tells
  <2>7. AnswersTell'
    BY <1>1, <1>8, <2>1, <2>6 DEF AnswersTell
  <2>8. CallKnown'
    BY <1>1, <1>12, <2>1, <2>2, <2>4, <2>5 DEF CInv, CallKnown, Requests
  <2> QED
    BY <1>9, <2>3, <2>7, <2>8 DEF CInv
<1> QED
  BY <1>4, <1>10, <1>11, <1>12
-----------------------------------------------------------------------------
LEMMA NextCInv == CInv /\ [Next]_vars => CInv'
<1> SUFFICES ASSUME CInv, [Next]_vars PROVE CInv'
  OBVIOUS
<1>1. CASE Receive \/ ReaderEnds
  BY <1>1, ReceiveStep, ReaderEndsStep
<1>2. CASE ModemAnswers \/ Happens \/ Resumes
  BY <1>2, ModemAnswersStep, HappensStep, ResumesStep
<1>3. CASE Busy \/ Ready \/ HangsUp \/ Sigint
  BY <1>3, HeldUpStep, SigintStep
<1>4. CASE Main
  <2>1. CASE Start /\ UNCHANGED <<device, reader, busy, stopping, modemVars>>
    BY <2>1, StartStep DEF Kept
  <2>2. CASE Gets \/ Stop
    BY <2>2, GetsStep, StopStep
  <2>3. CASE (\E e \in Events : Serve(e)) \/ Check \/ SetupDataCall
    BY <2>3, RoundStep
  <2> QED
    BY <1>4, <2>1, <2>2, <2>3 DEF Main
<1>5. CASE UNCHANGED vars
  <2>1. Types' /\ ReaderWaits' /\ OneOrder'
    BY <1>5 DEF CInv, Types, ReaderWaits, OneOrder, Calm
  <2>2. AnswersTell' /\ CallKnown'
    BY <1>5 DEF CInv, AnswersTell, CallKnown, Calm, Tells, NoCall
  <2> QED
    BY <2>1, <2>2 DEF CInv
<1> QED
  BY <1>1, <1>2, <1>3, <1>4, <1>5 DEF Next

\* A stop leaves no call behind in a modem that answers in time, whenever the
\* SIGINT comes, and whatever the network does: NoCallLeft.
THEOREM StopEndsCall == Spec => []NoCallLeft
<1>1. CInv => NoCallLeft
  BY DEF CInv, CallKnown, Calm, NoCall, NoCallLeft
<1> QED
  BY <1>1, InitCInv, NextCInv, PTL DEF Spec
-----------------------------------------------------------------------------
(* NewsComes: the modem, the inbox, the events and what main() was told.   *)

\* The reader is still there to tell main() of what the modem reports.
Live == reader /\ device = "up" /\ opened

\* Behind the first k messages, q says that t is v.
Holds(q, t, v, k) ==
    \E i \in 1 .. Len(q) : i > k /\ q[i].kind = "ind" /\ q[i].topic = t /\ q[i].val = v

\* main() would be right to take t for v, or will be told.
Agrees(t, v, k) == modem[t] = v \/ EventOf(t) \in events \/ Holds(inbox, t, modem[t], k)

NewsTypes == known \in [Topics -> BOOLEAN \cup {None}] /\ attached \in BOOLEAN /\ missed \in BOOLEAN

\* What was not written was for a reader, or a device, that is gone.
Written == pending # None /\ ~pending.written => ~reader \/ device = "hung"

\* The request of main() is the last the modem has to answer, and once it is
\* answered there is none.
LastOrder == \A i \in 1 .. Len(sent) : sent[i].mine => i = Len(sent) /\ sent[i].cmd = step

Answered == (pending # None /\ pending.answer # None) \/ \E k \in 1 .. Len(inbox) : inbox[k].mine

OneAnswer == Answered => sent = <<>>

\* The device is opened before anything else, and not again.
OpenFirst == step \notin {"start", "open", "left"} => \A i \in 1 .. Len(sent) : sent[i].cmd # "open"

\* What an answer to main() says, however late it is read ...
Value(a) ==
    /\ step \in {"register", "packet", "attach", "query"} /\ a.err = None => a.val \in BOOLEAN
    /\ step = "connect" /\ a.err = None => a.val = TRUE

Values ==
    /\ pending # None /\ pending.answer # None => Value(pending.answer)
    /\ \A k \in 1 .. Len(inbox) : inbox[k].mine => Value(inbox[k])

\* ... and that what has changed since then follows it, or has been missed.
Bears(a, k) ==
    /\ step = "register" => a.err = None /\ (missed \/ Agrees("reg", a.val, k))
    /\ step = "packet" => a.err = None /\ (missed \/ Agrees("ps", a.val, k))
    /\ step = "attach" => a.err # "not opened"
    /\ step = "query" /\ a.err = None /\ a.val = TRUE => Agrees("call", TRUE, k)
    /\ step = "address" /\ a.err = None => Agrees("call", TRUE, k)

AnswersBear ==
    Live => /\ pending # None /\ pending.answer # None => Bears(pending.answer, 0)
            /\ \A k \in 1 .. Len(inbox) : inbox[k].mine => Bears(inbox[k], k)

\* What main() takes for a call is what it was told last.
CallTold ==
    /\ step \in {"start", "open", "setup", "sim"} => status = "unknown"
    /\ status = "unknown" => known["call"] = None
    /\ status = "up" /\ step \notin {"close", "left"} => known["call"] = TRUE
    /\ step = "query" => status # "down"
    /\ step = "connect" => status = "down"
    /\ step = "disconnect" => status = "up"
    /\ step = "address" => known["call"] = TRUE
    /\ Live /\ status = "up" /\ step \in {"idle", "register", "packet", "attach"} =>
         Agrees("call", TRUE, 0)

Network == {"reg", "ps"}

\* The same for the registration and the attachment: main() takes the modem for
\* attached when it was told so of both, and else was told of one that it is not.
NetworkTold ==
    Live /\ ~spoiled /\ ~missed =>
        /\ step = "packet" => known["reg"] = TRUE /\ Agrees("reg", TRUE, 0)
        /\ step = "attach" => ~attached /\ known["ps"] = FALSE /\ Agrees("ps", FALSE, 0)
        /\ step \in {"idle", "query", "connect", "address"} =>
             /\ attached => \A t \in Network : known[t] = TRUE /\ Agrees(t, TRUE, 0)
             /\ ~attached => \E t \in Network : known[t] = FALSE /\ Agrees(t, FALSE, 0)

LinkInv == Written /\ LastOrder /\ OneAnswer /\ OpenFirst /\ Values /\ AnswersBear
ToldInv == NewsTypes /\ CallTold /\ NetworkTold
NInv == LinkInv /\ ToldInv
-----------------------------------------------------------------------------
LEMMA InitNInv == Init => NInv
<1> SUFFICES ASSUME Init PROVE NInv
  OBVIOUS
<1>1. LinkInv
  BY EmptySeq DEF Init, LinkInv, Written, LastOrder, OneAnswer, OpenFirst, Values, AnswersBear
<1>2. ToldInv
  BY DEF Init, ToldInv, NewsTypes, CallTold, NetworkTold, Topics
<1> QED
  BY <1>1, <1>2 DEF NInv

\* Steps that nobody is told of, and that main() takes no part in.
LEMMA SilentStep ==
    ASSUME NInv, UNCHANGED <<sent, inbox, step, known, attached, status, missed>>,
           spoiled => spoiled', Live' => Live /\ modem' = modem, events \subseteq events',
           ~reader => ~reader', device = "hung" => device' = "hung",
           pending' # None => pending # None /\ pending'.written = pending.written
                                            /\ pending'.answer = pending.answer
    PROVE  NInv'
<1>1. Written' /\ LastOrder' /\ OneAnswer' /\ OpenFirst' /\ Values'
  BY DEF NInv, LinkInv, Written, LastOrder, OneAnswer, Answered, OpenFirst, Values, Value
<1>2. ASSUME Live', NEW t, NEW v, NEW k, Agrees(t, v, k) PROVE Agrees(t, v, k)'
  BY <1>2 DEF Agrees, Holds
<1>3. AnswersBear'
  BY <1>2 DEF NInv, LinkInv, AnswersBear, Bears
<1>4. NewsTypes' /\ CallTold'
  BY <1>2 DEF NInv, ToldInv, NewsTypes, CallTold
<1>5. NetworkTold'
  <2> SUFFICES ASSUME Live', ~spoiled', ~missed' PROVE NetworkTold'
    BY DEF NetworkTold
  <2>1. Live /\ ~spoiled /\ ~missed
    OBVIOUS
  <2>2. \A t \in Network : \A v \in BOOLEAN : Agrees(t, v, 0) => Agrees(t, v, 0)'
    BY <1>2
  <2> QED
    BY <2>1, <2>2 DEF NInv, ToldInv, NetworkTold, Network
<1> QED
  BY <1>1, <1>3, <1>4, <1>5 DEF NInv, LinkInv, ToldInv

LEMMA SilentSteps ==
    ASSUME CInv, NInv, ReaderEnds \/ Resumes \/ Busy \/ Ready \/ HangsUp \/ Sigint \/ UNCHANGED vars
    PROVE  NInv'
<1>1. /\ UNCHANGED <<sent, inbox, step, known, attached, status, missed>>
      /\ spoiled => spoiled'
      /\ events \subseteq events'
      /\ ~reader => ~reader'
      /\ device = "hung" => device' = "hung"
  <2>1. CASE ReaderEnds
    BY <2>1 DEF ReaderEnds
  <2>2. CASE Resumes \/ UNCHANGED vars
    BY <2>2 DEF Resumes
  <2>3. CASE Busy \/ Ready \/ HangsUp
    BY <2>3 DEF Busy, Ready, HangsUp
  <2>4. CASE Sigint
    BY <2>4 DEF Sigint
  <2> QED
    BY <2>1, <2>2, <2>3, <2>4
<1>2. Live' => Live /\ modem' = modem
  BY DEF ReaderEnds, Resumes, Busy, Ready, HangsUp, Sigint, Live
<1>3. pending' \in {pending, IF pending = None THEN None ELSE [pending EXCEPT !.late = TRUE]}
  BY DEF ReaderEnds, Resumes, Busy, Ready, HangsUp, Sigint
<1>4. pending' # None => pending # None /\ pending'.written = pending.written
                                       /\ pending'.answer = pending.answer
  <2>1. CASE pending' = pending
    BY <2>1
  <2>2. CASE pending = None
    BY <1>3, <2>2
  <2>3. CASE pending # None /\ pending' = [pending EXCEPT !.late = TRUE]
    <3>1. pending \in Pendings
      BY <2>3 DEF CInv, Types
    <3> QED
      BY <2>3, <3>1 DEF Pendings
  <2> QED
    BY <1>3, <2>1, <2>2, <2>3
<1> QED
  BY <1>1, <1>2, <1>4, SilentStep
-----------------------------------------------------------------------------
(* The requests of the main thread. *)

\* What the reader has still to read says the same when it is nobody's.
LEMMA NobodysSay ==
    ASSUME Types, inbox' = NotMine(inbox), modem' = modem, NEW t, NEW v, NEW k, Agrees(t, v, k),
           EventOf(t) \in events => EventOf(t) \in events'
    PROVE  Agrees(t, v, k)'
<1>1. \A i \in 1 .. Len(inbox) : inbox[i] \in Messages
  BY ElementOfSeq DEF Types
<1>2. /\ Len(inbox') = Len(inbox)
      /\ \A i \in 1 .. Len(inbox) : inbox'[i] = [inbox[i] EXCEPT !.mine = FALSE]
  <2>1. \A i \in 1 .. Len(inbox) : [inbox[i] EXCEPT !.mine = FALSE] \in Messages
    BY <1>1 DEF Messages
  <2>2. inbox \in Seq(Messages)
    BY DEF Types
  <2> QED
    BY <2>1, <2>2, NobodysSeq
<1>3. \A i \in 1 .. Len(inbox) : /\ inbox'[i].kind = inbox[i].kind
                                 /\ inbox'[i].topic = inbox[i].topic /\ inbox'[i].val = inbox[i].val
  BY <1>1, <1>2 DEF Messages
<1> QED
  BY <1>2, <1>3 DEF Agrees, Holds

\* A new request, or a rest, has no answer yet.
LEMMA Fresh ==
    ASSUME Types, NEW s, (s \in Requests /\ Ask(s)) \/ (s \in {"idle", "left"} /\ Idles(s)),
           UNCHANGED <<device, reader>>,
           s \in {"open", "left"} \/ \A i \in 1 .. Len(sent) : sent[i].cmd # "open"
    PROVE  LinkInv' /\ step' = s /\ inbox' = NotMine(inbox)
<1>0. step' = s /\ inbox' = NotMine(inbox)
  BY DEF Ask, Idles, Drop
<1>1. \A i \in 1 .. Len(inbox') : ~inbox'[i].mine
  BY <1>0, Nobodys
<1>2. pending' = None \/ (pending'.written = (reader /\ device = "up") /\ pending'.answer = None)
  BY DEF Ask, Idles, Drop
<1>3. PICK b \in BOOLEAN : sent' = NotMine(sent) \o IF b THEN <<[cmd |-> s, mine |-> TRUE]>> ELSE <<>>
  <2>1. CASE Ask(s)
    <3>1. pending'.written \in BOOLEAN
      BY <2>1, <1>2 DEF Ask, Types
    <3> QED
      BY <2>1, <3>1 DEF Ask
  <2>2. CASE Idles(s)
    <3>1. sent' = NotMine(sent)
      BY <2>2 DEF Idles, Drop
    <3>2. sent' = NotMine(sent) \o <<>>
      BY <3>1, Nobodys, ConcatEmptySeq
    <3> QED
      BY <3>2
  <2> QED
    BY <2>1, <2>2
<1>4. \A i \in 1 .. Len(sent') :
          \/ i \in 1 .. Len(sent) /\ ~sent'[i].mine /\ sent'[i].cmd = sent[i].cmd
          \/ i = Len(sent') /\ sent'[i].mine /\ sent'[i].cmd = s
  <2>1. NotMine(sent) \in Seq(Orders) /\ Len(NotMine(sent)) = Len(sent) /\ Len(sent) \in Nat
    BY Nobodys, LenProperties
  <2>2. CASE ~b
    <3>1. sent' = NotMine(sent)
      BY <1>3, <2>1, <2>2, ConcatEmptySeq
    <3> QED
      BY <3>1, Nobodys
  <2>3. CASE b
    <3> DEFINE new == [cmd |-> s, mine |-> TRUE]
    <3>1. new.cmd = s /\ new.mine
      OBVIOUS
    <3>2. <<new>> \in Seq({new}) /\ Len(<<new>>) = 1 /\ <<new>>[1] = new
      OBVIOUS
    <3>3. NotMine(sent) \in Seq(Orders \cup {new}) /\ <<new>> \in Seq(Orders \cup {new})
      BY <2>1, <3>2
    <3>4. sent' = NotMine(sent) \o <<new>>
      BY <1>3, <2>3
    <3> HIDE DEF new
    <3>5. /\ Len(sent') = Len(sent) + 1
          /\ \A i \in 1 .. Len(sent) + 1 :
                sent'[i] = IF i <= Len(sent) THEN NotMine(sent)[i] ELSE <<new>>[i - Len(sent)]
      BY <2>1, <3>2, <3>3, <3>4, ConcatProperties
    <3>6. \A i \in 1 .. Len(sent) : sent'[i] = NotMine(sent)[i]
      BY <2>1, <3>5
    <3>7. sent'[Len(sent) + 1] = new
      <4>1. sent'[Len(sent) + 1] = <<new>>[Len(sent) + 1 - Len(sent)]
        BY <2>1, <3>5
      <4> QED
        BY <2>1, <3>2, <4>1
    <3> QED
      BY <2>1, <3>1, <3>5, <3>6, <3>7, Nobodys
  <2> QED
    BY <2>2, <2>3
<1>5. Written' /\ Values' /\ AnswersBear'
  BY <1>1, <1>2 DEF Written, Values, AnswersBear, Types
<1>6. LastOrder' /\ OneAnswer'
  BY <1>0, <1>1, <1>2, <1>4 DEF LastOrder, OneAnswer, Answered
<1>7. OpenFirst'
  BY <1>0, <1>4 DEF OpenFirst
<1> QED
  BY <1>0, <1>5, <1>6, <1>7 DEF LinkInv

\* A request that succeeds had an answer, ...
LEMMA Succeeds ==
    ASSUME NInv, NEW r \in Outcomes, Ok(r)
    PROVE  Value(r) /\ sent = <<>>
<1>1. r # Lost("closed") /\ r # Lost("timeout")
  <2>1. Lost("closed").err = "closed" /\ Lost("timeout").err = "timeout"
    BY DEF Lost
  <2> QED
    BY <2>1, MbimCmAssumption DEF Ok
<1>2. pending # None /\ pending.answer # None /\ r = pending.answer
  BY <1>1, HowItEnds
<1> QED
  BY <1>2 DEF NInv, LinkInv, Values, OneAnswer, Answered

\* ... and as long as the reader is there one that does not was late or refused.
LEMMA Comes ==
    ASSUME NInv, NEW r \in Outcomes, Live, r.err # "timeout"
    PROVE  Bears(r, 0)
<1>1. pending # None
  BY HowItEnds
<1>2. reader /\ pending.written
  BY <1>1 DEF NInv, LinkInv, Written, Live
<1>3. r # Lost("timeout")
  BY DEF Lost
<1>4. pending.answer # None /\ r = pending.answer
  BY <1>2, <1>3, HowItEnds
<1> QED
  BY <1>1, <1>4 DEF NInv, LinkInv, AnswersBear

\* From one request to the next, or to a rest.
Goes(s) == (s \in Requests /\ Ask(s)) \/ (s \in {"idle", "left"} /\ Idles(s))

LEMMA GoesIf ==
    /\ \A s \in {"open", "setup", "sim", "register", "packet", "attach", "query", "connect",
               "address", "disconnect", "close"} : Ask(s) => Goes(s)
    /\ \A s \in {"idle", "left"} : (Idles(s) => Goes(s)) /\ (Rest(s) => Goes(s))
<1>1. ASSUME NEW s \in {"open", "setup", "sim", "register", "packet", "attach", "query", "connect",
                        "address", "disconnect", "close"}, Ask(s)
      PROVE  Goes(s)
  <2>1. s \in Requests
    BY DEF Requests
  <2> QED
    BY <1>1, <2>1 DEF Goes
<1>2. ASSUME NEW s \in {"idle", "left"}, Idles(s) PROVE Goes(s)
  BY <1>2 DEF Goes
<1>3. \A s : Rest(s) => Idles(s)
  BY DEF Rest
<1> QED
  BY <1>1, <1>2, <1>3

LEMMA GoesOn ==
    ASSUME CInv, NInv, NEW s, Goes(s), Kept,
           step \notin {"start", "open", "left"} \/ s \in {"open", "left"} \/ sent = <<>>
    PROVE  /\ LinkInv' /\ step' = s /\ (Live' <=> Live) /\ Types
           /\ \A t, v, k : Agrees(t, v, k) /\ (EventOf(t) \in events => EventOf(t) \in events') =>
                 Agrees(t, v, k)'
<1>1. s \in {"open", "left"} \/ \A i \in 1 .. Len(sent) : sent[i].cmd # "open"
  BY EmptySeq DEF NInv, LinkInv, OpenFirst
<1>2. Types /\ UNCHANGED <<device, reader>> /\ modem' = modem /\ (Live' <=> Live)
  BY DEF CInv, Kept, Live
<1>3. LinkInv' /\ step' = s /\ inbox' = NotMine(inbox)
  BY <1>1, <1>2, Fresh DEF Goes
<1> QED
  BY <1>2, <1>3, NobodysSay

\* The requests of mbim_init and the SIM: nothing is known yet.
LEMMA EarlyNews ==
    ASSUME CInv, NInv, Kept, NEW r, Start \/ Open(r) \/ SetUp(r) \/ Sim(r)
    PROVE  NInv'
<1>1. PICK s \in {"open", "setup", "sim", "register", "left"} :
         Goes(s) /\ (step \notin {"start", "open", "left"} \/ s \in {"open", "left"} \/ sent = <<>>)
  <2>1. CASE Start
    <3>1. Ask("open")
      BY <2>1 DEF Start
    <3> QED
      BY <3>1, GoesIf
  <2>2. CASE Open(r)
    <3>1. Ok(r) => sent = <<>>
      BY <2>2, Succeeds DEF Open, At
    <3>2. (Ask("setup") /\ Ok(r)) \/ Ask("open") \/ Rest("left")
      BY <2>2 DEF Open
    <3> QED
      BY <3>1, <3>2, GoesIf
  <2>3. CASE SetUp(r)
    <3>1. step = "setup" /\ (Ask("setup") \/ Ask("sim") \/ Rest("left"))
      BY <2>3 DEF SetUp, At
    <3> QED
      BY <3>1, GoesIf
  <2>4. CASE Sim(r)
    <3>1. step = "sim" /\ Ask("register")
      BY <2>4 DEF Sim, At
    <3> QED
      BY <3>1, GoesIf
  <2> QED
    BY <2>1, <2>2, <2>3, <2>4
<1>2. step \in {"start", "open", "setup", "sim"} /\ UNCHANGED <<known, attached, status, missed>>
  <2>1. CASE Start
    BY <2>1 DEF Start
  <2>2. CASE Open(r)
    BY <2>2 DEF Open, At
  <2>3. CASE SetUp(r)
    BY <2>3 DEF SetUp, At
  <2>4. CASE Sim(r)
    BY <2>4 DEF Sim, At
  <2> QED
    BY <2>1, <2>2, <2>3, <2>4
<1>3. LinkInv' /\ step' = s
  BY <1>1, GoesOn
<1>4. status = "unknown" /\ known["call"] = None
  BY <1>2 DEF NInv, ToldInv, CallTold
<1>5. NewsTypes' /\ CallTold' /\ NetworkTold'
  BY <1>2, <1>3, <1>4 DEF NInv, ToldInv, NewsTypes, CallTold, NetworkTold
<1> QED
  BY <1>3, <1>5 DEF NInv, ToldInv

\* What is told of the network changes nothing that is told of the call.
LEMMA CallUntouched ==
    ASSUME CInv, NInv, step \in {"idle", "register", "packet", "attach"}, Kept,
           NEW s \in {"idle", "register", "packet", "attach"}, Goes(s),
           "calls" \in events => "calls" \in events',
           known'["call"] = known["call"], status' = status
    PROVE  CallTold'
<1>1. /\ step' = s /\ (Live' <=> Live)
      /\ Agrees("call", TRUE, 0) => Agrees("call", TRUE, 0)'
  BY GoesOn DEF EventOf
<1> QED
  BY <1>1 DEF NInv, ToldInv, CallTold

\* requestRegistrationState.
LEMMA RegisterNews ==
    ASSUME CInv, NInv, Kept, UNCHANGED events, NEW r \in Outcomes, Register(r)
    PROVE  NInv'
<1>1. /\ step = "register" /\ Late(r) /\ Learns("reg", r) /\ attached' = (Ok(r) /\ r.val)
      /\ UNCHANGED <<status, missed>>
  BY DEF Register, At
<1>2. PICK s \in {"packet", "idle"} : Goes(s) /\ (attached' <=> s = "packet")
  <2>1. IF attached' THEN Goes("packet") ELSE Goes("idle")
    BY GoesIf DEF Register
  <2> QED
    BY <2>1
<1>3. /\ LinkInv' /\ step' = s /\ (Live' <=> Live)
      /\ \A t, v, k : Agrees(t, v, k) => Agrees(t, v, k)'
  BY <1>1, <1>2, GoesOn
<1>4. Ok(r) => r.val \in BOOLEAN
  BY <1>1, Succeeds DEF Value, Ok
<1>5. /\ known' \in [Topics -> BOOLEAN \cup {None}] /\ known'["call"] = known["call"]
      /\ Ok(r) => known'["reg"] = r.val
  <2>1. known \in [Topics -> BOOLEAN \cup {None}] /\ {"reg", "call"} \subseteq Topics
    BY DEF NInv, ToldInv, NewsTypes, Topics
  <2>2. known' = IF Ok(r) THEN [known EXCEPT !["reg"] = r.val] ELSE known
    BY <1>1 DEF Learns
  <2> QED
    BY <1>4, <2>1, <2>2
<1>6. NewsTypes'
  BY <1>1, <1>5 DEF NInv, ToldInv, NewsTypes
<1>7. CallTold'
  BY <1>1, <1>2, <1>5, CallUntouched
<1>8. NetworkTold'
  <2> SUFFICES ASSUME Live', ~spoiled', ~missed' PROVE NetworkTold'
    BY DEF NetworkTold
  <2>1. Ok(r) /\ Agrees("reg", r.val, 0)
    BY <1>1, <1>3, Comes DEF Late, Bears, Ok
  <2>2. Agrees("reg", r.val, 0)'
    BY <1>3, <2>1
  <2>3. known'["reg"] = r.val /\ (r.val <=> s = "packet") /\ r.val \in BOOLEAN
    BY <1>1, <1>2, <1>4, <1>5, <2>1
  <2>4. CASE r.val = TRUE
    BY <1>3, <2>2, <2>3, <2>4 DEF NetworkTold
  <2>5. CASE r.val = FALSE
    <3>1. step' = "idle" /\ ~attached' /\ known'["reg"] = FALSE /\ Agrees("reg", FALSE, 0)'
      BY <1>2, <1>3, <2>2, <2>3, <2>5
    <3> QED
      BY <3>1 DEF NetworkTold, Network
  <2> QED
    BY <2>3, <2>4, <2>5
<1> QED
  BY <1>3, <1>6, <1>7, <1>8 DEF NInv, ToldInv

\* The packet service, when the modem is registered.
LEMMA PacketNews ==
    ASSUME CInv, NInv, Kept, UNCHANGED events, NEW r \in Outcomes, Packet(r)
    PROVE  NInv'
<1>1. /\ step = "packet" /\ Late(r) /\ Learns("ps", r) /\ attached' = (Ok(r) => r.val)
      /\ UNCHANGED <<status, missed>>
  BY DEF Packet, At
<1>2. PICK s \in {"attach", "idle"} : Goes(s) /\ (attached' <=> s = "idle")
  <2>1. IF attached' THEN Goes("idle") ELSE Goes("attach")
    BY GoesIf DEF Packet
  <2> QED
    BY <2>1
<1>3. /\ LinkInv' /\ step' = s /\ (Live' <=> Live)
      /\ \A t, v, k : Agrees(t, v, k) => Agrees(t, v, k)'
  BY <1>1, <1>2, GoesOn
<1>4. Ok(r) => r.val \in BOOLEAN
  BY <1>1, Succeeds DEF Value, Ok
<1>5. /\ known' \in [Topics -> BOOLEAN \cup {None}] /\ known'["call"] = known["call"]
      /\ known'["reg"] = known["reg"] /\ (Ok(r) => known'["ps"] = r.val)
  <2>1. known \in [Topics -> BOOLEAN \cup {None}] /\ {"reg", "ps", "call"} \subseteq Topics
    BY DEF NInv, ToldInv, NewsTypes, Topics
  <2>2. known' = IF Ok(r) THEN [known EXCEPT !["ps"] = r.val] ELSE known
    BY <1>1 DEF Learns
  <2> QED
    BY <1>4, <2>1, <2>2
<1>6. NewsTypes'
  BY <1>1, <1>5 DEF NInv, ToldInv, NewsTypes
<1>7. CallTold'
  BY <1>1, <1>2, <1>5, CallUntouched
<1>8. NetworkTold'
  <2> SUFFICES ASSUME Live', ~spoiled', ~missed' PROVE NetworkTold'
    BY DEF NetworkTold
  <2>1. Ok(r) /\ Agrees("ps", r.val, 0)
    BY <1>1, <1>3, Comes DEF Late, Bears, Ok
  <2>2. Agrees("ps", r.val, 0)'
    BY <1>3, <2>1
  <2>3. known'["ps"] = r.val /\ (r.val <=> s = "idle") /\ r.val \in BOOLEAN
    BY <1>1, <1>2, <1>4, <1>5, <2>1
  <2>4. known'["reg"] = TRUE /\ Agrees("reg", TRUE, 0)'
    BY <1>1, <1>3, <1>5 DEF NInv, ToldInv, NetworkTold, Late
  <2>5. CASE r.val = TRUE
    <3>1. step' = "idle" /\ attached' /\ known'["ps"] = TRUE /\ Agrees("ps", TRUE, 0)'
      BY <1>2, <1>3, <2>2, <2>3, <2>5
    <3> QED
      BY <2>4, <3>1 DEF NetworkTold, Network
  <2>6. CASE r.val = FALSE
    <3>1. step' = "attach" /\ ~attached' /\ known'["ps"] = FALSE /\ Agrees("ps", FALSE, 0)'
      BY <1>2, <1>3, <2>2, <2>3, <2>6
    <3> QED
      BY <3>1 DEF NetworkTold
  <2> QED
    BY <2>3, <2>5, <2>6
<1> QED
  BY <1>3, <1>6, <1>7, <1>8 DEF NInv, ToldInv

\* The order to attach, whose answer is not looked at.
LEMMA AttachNews ==
    ASSUME CInv, NInv, Kept, UNCHANGED events, NEW r \in Outcomes, Attach(r)
    PROVE  NInv'
<1>1. /\ step = "attach" /\ Late(r) /\ Learns("ps", r) /\ Goes("idle")
      /\ missed' = (missed \/ r.val = TRUE) /\ UNCHANGED <<attached, status>>
  BY DEF Attach, At, Goes, Rest
<1>2. /\ LinkInv' /\ step' = "idle" /\ (Live' <=> Live)
      /\ \A t, v, k : Agrees(t, v, k) => Agrees(t, v, k)'
  BY <1>1, GoesOn
<1>3. Ok(r) => r.val \in BOOLEAN
  BY <1>1, Succeeds DEF Value, Ok
<1>4. /\ known' \in [Topics -> BOOLEAN \cup {None}] /\ known'["call"] = known["call"]
      /\ known'["ps"] = IF Ok(r) THEN r.val ELSE known["ps"]
  <2>1. known \in [Topics -> BOOLEAN \cup {None}] /\ {"reg", "ps", "call"} \subseteq Topics
    BY DEF NInv, ToldInv, NewsTypes, Topics
  <2>2. known' = IF Ok(r) THEN [known EXCEPT !["ps"] = r.val] ELSE known
    BY <1>1 DEF Learns
  <2> QED
    BY <1>3, <2>1, <2>2
<1>5. NewsTypes'
  BY <1>1, <1>4 DEF NInv, ToldInv, NewsTypes
<1>6. CallTold'
  BY <1>1, <1>4, CallUntouched
<1>7. NetworkTold'
  <2> SUFFICES ASSUME Live', ~spoiled', ~missed' PROVE NetworkTold'
    BY DEF NetworkTold
  <2>1. ~attached /\ known["ps"] = FALSE /\ Agrees("ps", FALSE, 0)
    BY <1>1, <1>2 DEF NInv, ToldInv, NetworkTold, Late
  <2>2. known'["ps"] = FALSE
    BY <1>1, <1>3, <1>4, <2>1
  <2>3. ~attached' /\ Agrees("ps", FALSE, 0)'
    BY <1>1, <1>2, <2>1
  <2> QED
    BY <1>2, <2>2, <2>3 DEF NetworkTold, Network
<1> QED
  BY <1>2, <1>5, <1>6, <1>7 DEF NInv, ToldInv

\* What is told of the call changes nothing that is told of the network.
LEMMA NetworkUntouched ==
    ASSUME CInv, NInv, step \in {"idle", "query", "connect", "address"}, Kept,
           NEW s \in {"idle", "query", "connect", "address"}, Goes(s),
           "registration" \in events => "registration" \in events',
           known'["reg"] = known["reg"], known'["ps"] = known["ps"], attached' = attached,
           spoiled => spoiled', missed => missed'
    PROVE  NetworkTold'
<1>1. /\ step' = s /\ (Live' <=> Live)
      /\ \A t \in Network : \A v \in BOOLEAN : Agrees(t, v, 0) => Agrees(t, v, 0)'
  BY GoesOn DEF EventOf, Network
<1>2. \A t \in Network : known'[t] = known[t]
  BY DEF Network
<1> SUFFICES ASSUME Live', ~spoiled', ~missed' PROVE NetworkTold'
  BY DEF NetworkTold
<1>3. /\ attached => \A t \in Network : known[t] = TRUE /\ Agrees(t, TRUE, 0)
      /\ ~attached => \E t \in Network : known[t] = FALSE /\ Agrees(t, FALSE, 0)
  BY <1>1 DEF NInv, ToldInv, NetworkTold
<1> QED
  BY <1>1, <1>2, <1>3 DEF NetworkTold

\* requestSetupDataCall, requestGetIPAddress and requestQueryDataCall.
LEMMA CallNews ==
    ASSUME CInv, NInv, Kept, UNCHANGED events, NEW r \in Outcomes, Connect(r) \/ Address(r) \/ Query(r)
    PROVE  NInv'
<1>1. /\ step \in {"connect", "address", "query"} /\ Late(r) /\ UNCHANGED <<attached, missed>>
      /\ step # "address" => Learns("call", r)
      /\ step = "address" => known' = known
  BY DEF Connect, Address, Query, At
<1>2. PICK s \in {"address", "idle"} :
        /\ Goes(s)
        /\ step = "connect" => status' = status /\ (s = "address" <=> Ok(r))
        /\ step = "address" => s = "idle" /\ status' = IF Ok(r) THEN "up" ELSE "down"
        /\ step = "query" => status' = (IF Ok(r) /\ r.val THEN "up" ELSE "down")
                             /\ (s = "address" => status' = "up")
  <2>1. CASE Connect(r)
    <3>1. step = "connect" /\ status' = status /\ IF Ok(r) THEN Ask("address") ELSE Rest("idle")
      BY <2>1 DEF Connect, At
    <3> QED
      BY <3>1, GoesIf
  <2>2. CASE Address(r)
    <3>1. step = "address" /\ status' = (IF Ok(r) THEN "up" ELSE "down") /\ Rest("idle")
      BY <2>2 DEF Address, At
    <3> QED
      BY <3>1, GoesIf
  <2>3. CASE Query(r)
    <3>1. /\ step = "query" /\ status' = (IF Ok(r) /\ r.val THEN "up" ELSE "down")
          /\ Rest("idle") \/ (status' = "up" /\ Ask("address"))
      BY <2>3 DEF Query, At
    <3> QED
      BY <3>1, GoesIf
  <2> QED
    BY <2>1, <2>2, <2>3
<1>3. /\ LinkInv' /\ step' = s /\ (Live' <=> Live)
      /\ \A t, v, k : Agrees(t, v, k) => Agrees(t, v, k)'
  BY <1>1, <1>2, GoesOn
<1>4. /\ Ok(r) /\ step = "query" => r.val \in BOOLEAN
      /\ Ok(r) /\ step = "connect" => r.val = TRUE
  BY <1>1, Succeeds DEF Value, Ok
<1>5. /\ known' \in [Topics -> BOOLEAN \cup {None}]
      /\ known'["reg"] = known["reg"] /\ known'["ps"] = known["ps"]
      /\ Ok(r) /\ step # "address" => known'["call"] = r.val
      /\ step = "address" => known'["call"] = known["call"]
  <2>1. known \in [Topics -> BOOLEAN \cup {None}] /\ {"reg", "ps", "call"} \subseteq Topics
    BY DEF NInv, ToldInv, NewsTypes, Topics
  <2>2. step # "address" => known' = IF Ok(r) THEN [known EXCEPT !["call"] = r.val] ELSE known
    BY <1>1 DEF Learns
  <2> QED
    BY <1>1, <1>4, <2>1, <2>2
<1>6. NewsTypes'
  BY <1>1, <1>5 DEF NInv, ToldInv, NewsTypes
<1>7. NetworkTold'
  BY <1>1, <1>2, <1>5, NetworkUntouched DEF Late
<1>8. CallTold'
  <2>1. CASE step = "connect"
    <3>1. status' = "down"
      BY <1>2, <2>1 DEF NInv, ToldInv, CallTold
    <3>2. s = "address" => known'["call"] = TRUE
      BY <1>2, <1>4, <1>5, <2>1
    <3> QED
      BY <1>3, <3>1, <3>2 DEF CallTold
  <2>2. CASE step = "address"
    <3>1. step' = "idle" /\ known'["call"] = TRUE /\ status' \in {"up", "down"}
      BY <1>2, <1>3, <1>5, <2>2 DEF NInv, ToldInv, CallTold
    <3>2. Live' /\ status' = "up" => Agrees("call", TRUE, 0)'
      <4>1. Live /\ Ok(r) => Agrees("call", TRUE, 0)
        <5>1. Ok(r) => r.err # "timeout"
          BY MbimCmAssumption DEF Ok
        <5> QED
          BY <2>2, <5>1, Comes DEF Bears, Ok
      <4> QED
        BY <1>2, <1>3, <2>2, <4>1
    <3> QED
      BY <3>1, <3>2 DEF CallTold
  <2>3. CASE step = "query"
    <3>1. status' \in {"up", "down"} /\ (status' = "up" => Ok(r) /\ r.val = TRUE)
      BY <1>2, <1>4, <2>3
    <3>2. status' = "up" => known'["call"] = TRUE
      BY <1>5, <2>3, <3>1
    <3>3. Live' /\ status' = "up" => Agrees("call", TRUE, 0)'
      <4>1. Live /\ Ok(r) /\ r.val = TRUE => Agrees("call", TRUE, 0)
        <5>1. Ok(r) => r.err # "timeout"
          BY MbimCmAssumption DEF Ok
        <5> QED
          BY <2>3, <5>1, Comes DEF Bears, Ok
      <4> QED
        BY <1>3, <3>1, <4>1
    <3> QED
      BY <1>2, <1>3, <2>3, <3>1, <3>2, <3>3 DEF CallTold
  <2> QED
    BY <1>1, <2>1, <2>2, <2>3
<1> QED
  BY <1>3, <1>6, <1>7, <1>8 DEF NInv, ToldInv

\* The end: nothing is asked of what main() was told any more.
LEMMA LastNews ==
    ASSUME CInv, NInv, Kept, NEW r \in Outcomes, Disconnect(r) \/ Close(r)
    PROVE  NInv'
<1>1. /\ step \in {"disconnect", "close"} /\ UNCHANGED <<attached, status, missed>>
      /\ step = "disconnect" => Learns("call", r) /\ Goes("close")
      /\ step = "close" => known' = known /\ Goes("left")
  <2>1. CASE Disconnect(r)
    <3>1. step = "disconnect" /\ Learns("call", r) /\ Ask("close") /\ UNCHANGED <<attached, status, missed>>
      BY <2>1 DEF Disconnect, At
    <3> QED
      BY <3>1, GoesIf
  <2>2. CASE Close(r)
    <3>1. step = "close" /\ Rest("left") /\ UNCHANGED <<known, attached, status, missed>>
      BY <2>2 DEF Close, At
    <3> QED
      BY <3>1, GoesIf
  <2> QED
    BY <2>1, <2>2
<1>2. LinkInv' /\ step' \in {"close", "left"}
  BY <1>1, GoesOn
<1>3. /\ known' \in [Topics -> BOOLEAN \cup {None}]
      /\ status = "unknown" => known' = known
  <2>1. known \in [Topics -> BOOLEAN \cup {None}] /\ "call" \in Topics
    BY DEF NInv, ToldInv, NewsTypes, Topics
  <2>2. CASE step = "disconnect"
    <3>1. status = "up" /\ known' = IF Ok(r) THEN [known EXCEPT !["call"] = r.val] ELSE known
      BY <1>1, <2>2 DEF NInv, ToldInv, CallTold, Learns
    <3>2. r.val \in BOOLEAN \cup {None} \/ ~Ok(r)
      <4>1. pending # None
        BY HowItEnds
      <4>2. pending \in Pendings
        BY <4>1 DEF CInv, Types
      <4>3. pending.answer \in Replies \cup {None}
        BY <4>2 DEF Pendings
      <4>4. r \in Replies \/ r = Lost("closed") \/ r = Lost("timeout")
        BY <4>3, HowItEnds
      <4> QED
        BY <4>4 DEF Replies, Lost
    <3> QED
      BY <2>1, <3>1, <3>2
  <2>3. CASE step = "close"
    BY <1>1, <2>1, <2>3
  <2> QED
    BY <1>1, <2>2, <2>3
<1>4. NewsTypes' /\ CallTold' /\ NetworkTold'
  BY <1>1, <1>2, <1>3 DEF NInv, ToldInv, NewsTypes, CallTold, NetworkTold
<1> QED
  BY <1>2, <1>4 DEF NInv, ToldInv

LEMMA GetsNews == CInv /\ NInv /\ Gets => NInv'
<1> SUFFICES ASSUME CInv, NInv, NEW r \in Outcomes, Kept,
                    \/ Open(r) \/ SetUp(r) \/ Sim(r) \/ Register(r) \/ Packet(r) \/ Attach(r) \/ Connect(r)
                    \/ Address(r) \/ Query(r) \/ Disconnect(r) \/ Close(r)
             PROVE  NInv'
  BY DEF Gets, Kept
<1>1. CASE Open(r) \/ SetUp(r) \/ Sim(r)
  BY <1>1, EarlyNews
<1>2. CASE Register(r) \/ Packet(r) \/ Attach(r)
  <2>1. UNCHANGED events
    BY <1>2 DEF Register, Packet, Attach
  <2> QED
    BY <1>2, <2>1, RegisterNews, PacketNews, AttachNews
<1>3. CASE Connect(r) \/ Address(r) \/ Query(r)
  <2>1. UNCHANGED events
    BY <1>3 DEF Connect, Address, Query
  <2> QED
    BY <1>3, <2>1, CallNews
<1>4. CASE Disconnect(r) \/ Close(r)
  BY <1>4, LastNews
<1> QED
  BY <1>1, <1>2, <1>3, <1>4
-----------------------------------------------------------------------------
(* The loop of main(). *)

LEMMA StopNews ==
    ASSUME CInv, NInv, Stop
    PROVE  NInv'
<1>1. /\ step = "idle" /\ Kept /\ UNCHANGED <<events, known, attached, status, missed>>
      /\ Ask(IF status = "up" THEN "disconnect" ELSE "close")
  BY DEF Stop, Kept
<1>2. PICK s \in {"disconnect", "close"} : Goes(s) /\ (s = "disconnect" => status = "up")
  BY <1>1, GoesIf
<1>3. LinkInv' /\ step' = s
  BY <1>1, <1>2, GoesOn
<1>4. NewsTypes' /\ CallTold' /\ NetworkTold'
  BY <1>1, <1>2, <1>3 DEF NInv, ToldInv, NewsTypes, CallTold, NetworkTold
<1> QED
  BY <1>3, <1>4 DEF NInv, ToldInv

\* An event is served by asking for what it is about.
LEMMA RoundNews ==
    ASSUME CInv, NInv, SetupDataCall \/ Check \/ \E e \in Events : Serve(e)
    PROVE  NInv'
<1>1. Round
  BY DEF SetupDataCall, Check, Serve
<1>2. /\ step = "idle" /\ Kept /\ UNCHANGED <<known, attached, status, spoiled>>
      /\ missed' = (missed /\ step' # "register")
  BY <1>1 DEF Round, Kept
<1>3. PICK s \in {"register", "query", "connect", "idle", "left"} :
        /\ Goes(s)
        /\ s \in {"query", "connect", "idle"} /\ "registration" \in events => "registration" \in events'
        /\ s = "register" /\ "calls" \in events => "calls" \in events'
        /\ s = "query" => status # "down"
        /\ s \in {"connect", "idle"} => status = "down"
  <2>1. CASE SetupDataCall
    <3>1. Ask("connect") /\ status = "down" /\ events' = events
      BY <2>1 DEF SetupDataCall
    <3> QED
      BY <3>1, GoesIf
  <2>2. CASE Check
    <3>1. Ask("query") /\ status # "down" /\ events' = events
      BY <2>2 DEF Check
    <3> QED
      BY <3>1, GoesIf
  <2>3. ASSUME NEW e \in Events, Serve(e)
        PROVE  \/ e = "registration" /\ Ask("register")
               \/ e = "calls" /\ status # "down" /\ Ask("query")
               \/ e = "calls" /\ status = "down" /\ Idles("idle")
               \/ e = "disconnected" /\ Idles("left")
    BY <2>3 DEF Serve
  <2>4. ASSUME NEW e \in Events, Serve(e) PROVE events' = events \ {e}
    BY <2>4 DEF Serve
  <2>5. CASE \E e \in Events : Serve(e)
    BY <2>3, <2>4, <2>5, GoesIf
  <2> QED
    BY <2>1, <2>2, <2>5
<1>4. LinkInv' /\ step' = s
  BY <1>2, <1>3, GoesOn
<1>5. NewsTypes'
  BY <1>2 DEF NInv, ToldInv, NewsTypes
<1>6. CallTold'
  <2>1. CASE s = "register"
    BY <1>2, <1>3, <2>1, CallUntouched
  <2>2. CASE s # "register"
    BY <1>2, <1>3, <1>4, <2>2 DEF NInv, ToldInv, CallTold
  <2> QED
    BY <2>1, <2>2
<1>7. NetworkTold'
  <2>1. CASE s \in {"register", "left"}
    BY <1>4, <2>1 DEF NetworkTold
  <2>2. CASE s \in {"query", "connect", "idle"}
    BY <1>2, <1>3, <1>4, <2>2, NetworkUntouched
  <2> QED
    BY <2>1, <2>2
<1> QED
  BY <1>4, <1>5, <1>6, <1>7 DEF NInv, ToldInv
-----------------------------------------------------------------------------
(* The reader. *)

\* What is read is told, unless main() has been told so already.
LEMMA ReadSays ==
    ASSUME CInv, Receive, NEW t, NEW v
    PROVE  /\ \A k \in Nat : Agrees(t, v, k + 1) => Agrees(t, v, k)'
           /\ Agrees(t, v, 0) =>
                \/ Agrees(t, v, 0)'
                \/ /\ Head(inbox).kind = "ind" /\ ~IsNews(Head(inbox))
                   /\ Head(inbox).val = modem[t] /\ modem[t] # v /\ known[t] = modem[t]
<1> DEFINE m == Head(inbox)
<1>1. /\ inbox # <<>> /\ inbox' = Tail(inbox) /\ modem' = modem
      /\ events' = IF IsNews(m) THEN events \cup {EventOf(m.topic)} ELSE events
  BY DEF Receive
<1>2. /\ inbox \in Seq(Messages) /\ Len(inbox) \in Nat /\ Len(inbox) > 0 /\ m = inbox[1]
  BY <1>1, HeadTailProperties, LenProperties, EmptySeq DEF CInv, Types
<1>3. /\ Len(inbox') = Len(inbox) - 1
      /\ \A i \in 1 .. Len(inbox') : inbox'[i] = inbox[i + 1]
  BY <1>1, <1>2, HeadTailProperties
<1>4. EventOf(t) \in events => EventOf(t) \in events'
  BY <1>1
<1> HIDE DEF m
<1>5. ASSUME NEW k \in Nat, NEW w, NEW i \in 1 .. Len(inbox), i > k, i # 1,
             inbox[i].kind = "ind", inbox[i].topic = t, inbox[i].val = w
      PROVE  \E j \in 1 .. Len(inbox') : j > k - 1 /\ inbox'[j].kind = "ind" /\ inbox'[j].topic = t
                                         /\ inbox'[j].val = w
  <2>1. i - 1 \in 1 .. Len(inbox') /\ i - 1 > k - 1 /\ i - 1 + 1 = i
    BY <1>2, <1>3, <1>5
  <2>2. inbox'[i - 1] = inbox[i]
    BY <1>3, <2>1
  <2> QED
    BY <1>5, <2>1, <2>2
<1>6. ASSUME NEW k \in Nat, Agrees(t, v, k + 1) PROVE Agrees(t, v, k)'
  <2>1. CASE modem[t] = v \/ EventOf(t) \in events
    BY <1>1, <1>4, <2>1 DEF Agrees
  <2>2. CASE Holds(inbox, t, modem[t], k + 1)
    <3>1. PICK i \in 1 .. Len(inbox) : /\ i > k + 1 /\ inbox[i].kind = "ind" /\ inbox[i].topic = t
                                       /\ inbox[i].val = modem[t]
      BY <2>2 DEF Holds
    <3>2. PICK n \in Nat : n = k + 1
      OBVIOUS
    <3>3. i > n /\ i # 1
      BY <1>2, <3>1, <3>2
    <3>4. PICK j \in 1 .. Len(inbox') : /\ j > n - 1 /\ inbox'[j].kind = "ind"
                                        /\ inbox'[j].topic = t /\ inbox'[j].val = modem[t]
      BY <1>5, <3>1, <3>3
    <3>5. Holds(inbox, t, modem[t], k)'
      BY <1>1, <3>2, <3>4 DEF Holds
    <3> QED
      BY <3>5 DEF Agrees
  <2> QED
    BY <1>6, <2>1, <2>2 DEF Agrees
<1>7. ASSUME Agrees(t, v, 0)
      PROVE  \/ Agrees(t, v, 0)'
             \/ m.kind = "ind" /\ ~IsNews(m) /\ m.val = modem[t] /\ modem[t] # v /\ known[t] = modem[t]
  <2>1. CASE modem[t] = v \/ EventOf(t) \in events
    BY <1>1, <1>4, <2>1 DEF Agrees
  <2>2. CASE modem[t] # v /\ Holds(inbox, t, modem[t], 0)
    <3>1. PICK i \in 1 .. Len(inbox) : /\ i > 0 /\ inbox[i].kind = "ind" /\ inbox[i].topic = t
                                       /\ inbox[i].val = modem[t]
      BY <2>2 DEF Holds
    <3>2. CASE i = 1
      <4>1. m.kind = "ind" /\ m.topic = t /\ m.val = modem[t]
        BY <1>2, <3>1, <3>2
      <4>2. CASE IsNews(m)
        BY <1>1, <4>1, <4>2 DEF Agrees
      <4>3. CASE ~IsNews(m)
        <5>1. known[t] = modem[t]
          BY <4>1, <4>3 DEF IsNews
        <5> QED
          BY <2>2, <4>1, <4>3, <5>1
      <4> QED
        BY <4>2, <4>3
    <3>3. CASE i # 1
      <4>1. i \in Nat /\ i > 1
        BY <1>2, <3>1, <3>3
      <4>2. \E j \in 1 .. Len(inbox') : j > 0 /\ inbox'[j].kind = "ind" /\ inbox'[j].topic = t
                                         /\ inbox'[j].val = modem[t]
        <5>1. i - 1 \in 1 .. Len(inbox') /\ i - 1 > 0 /\ i - 1 + 1 = i
          BY <1>2, <1>3, <4>1
        <5>2. inbox'[i - 1] = inbox[i]
          BY <1>3, <5>1
        <5> QED
          BY <3>1, <5>1, <5>2
      <4>3. Holds(inbox, t, modem[t], 0)'
        BY <1>1, <4>2 DEF Holds
      <4> QED
        BY <4>3 DEF Agrees
    <3> QED
      BY <3>2, <3>3
  <2> QED
    BY <1>7, <2>1, <2>2 DEF Agrees
<1> QED
  BY <1>6, <1>7 DEF m

\* An indication that main() is not told of says what it takes for true, or
\* contradicts the answer that it has yet to take.
LEMMA ReceiveNews ==
    ASSUME CInv, NInv, Receive
    PROVE  NInv'
<1> DEFINE m == Head(inbox)
<1>1. /\ inbox # <<>> /\ inbox' = Tail(inbox)
      /\ pending' = IF ForPending(m) THEN [pending EXCEPT !.answer = [err |-> m.err, val |-> m.val]]
                                     ELSE pending
      /\ missed' = (missed \/ Misses(m))
      /\ UNCHANGED <<device, reader, sent, step, known, attached, status, modem, opened, spoiled>>
  BY DEF Receive
<1>2. /\ inbox \in Seq(Messages) /\ Len(inbox) \in Nat /\ Len(inbox) > 0
      /\ m \in Messages /\ m = inbox[1] /\ 1 \in 1 .. Len(inbox)
  BY <1>1, HeadTailProperties, ElementOfSeq, LenProperties, EmptySeq DEF CInv, Types
<1>3. /\ Len(inbox') = Len(inbox) - 1
      /\ \A k \in 1 .. Len(inbox') : k + 1 \in 1 .. Len(inbox) /\ inbox'[k] = inbox[k + 1]
  BY <1>1, <1>2, HeadTailProperties
<1>4. Live' <=> Live
  BY <1>1 DEF Live
<1>5. /\ \A t, v : \A k \in Nat : Agrees(t, v, k + 1) => Agrees(t, v, k)'
      /\ \A t, v : Agrees(t, v, 0) =>
            \/ Agrees(t, v, 0)'
            \/ m.kind = "ind" /\ ~IsNews(m) /\ m.val = modem[t] /\ modem[t] # v /\ known[t] = modem[t]
  BY ReadSays
<1> HIDE DEF m
<1>6. pending' # None => pending # None /\ pending'.written = pending.written
  <2>1. CASE ForPending(m)
    <3>1. pending # None /\ pending \in Pendings
      BY <2>1 DEF ForPending, CInv, Types
    <3> QED
      BY <1>1, <2>1, <3>1 DEF Pendings
  <2>2. CASE ~ForPending(m)
    BY <1>1, <2>2
  <2> QED
    BY <2>1, <2>2
<1>7. pending' # None /\ pending'.answer # None =>
        \/ pending # None /\ pending.answer # None /\ pending' = pending /\ ~ForPending(m)
        \/ m.mine /\ m.kind = "done" /\ pending'.answer.err = m.err /\ pending'.answer.val = m.val
  <2>1. CASE ForPending(m)
    <3>1. pending # None /\ pending \in Pendings /\ m.mine /\ m.kind = "done"
      BY <2>1 DEF ForPending, CInv, Types
    <3>2. pending'.answer = [err |-> m.err, val |-> m.val]
      BY <1>1, <2>1, <3>1 DEF Pendings
    <3> QED
      BY <3>1, <3>2
  <2>2. CASE ~ForPending(m)
    BY <1>1, <2>2
  <2> QED
    BY <2>1, <2>2
<1>8. Written' /\ LastOrder' /\ OpenFirst'
  BY <1>1, <1>6 DEF NInv, LinkInv, Written, LastOrder, OpenFirst
<1>9. OneAnswer'
  BY <1>1, <1>2, <1>3, <1>7 DEF NInv, LinkInv, OneAnswer, Answered
<1>10. Values'
  <2>1. \A a : Value(a)' <=> Value(a)
    BY <1>1 DEF Value
  <2>2. m.mine => Value(m)
    BY <1>2 DEF NInv, LinkInv, Values
  <2>3. pending' # None /\ pending'.answer # None => Value(pending'.answer)
    BY <1>7, <2>2 DEF NInv, LinkInv, Values, Value
  <2>4. \A k \in 1 .. Len(inbox') : inbox'[k].mine => Value(inbox'[k])
    BY <1>3 DEF NInv, LinkInv, Values
  <2> QED
    BY <2>1, <2>3, <2>4 DEF Values
<1>11. missed => missed'
  BY <1>1
<1>12. ASSUME NEW a, NEW k \in Nat, Bears(a, k + 1) PROVE Bears(a, k)'
  BY <1>1, <1>5, <1>11, <1>12 DEF Bears
<1>13. ASSUME NEW a, pending # None, pending.answer # None, a = pending.answer, Bears(a, 0)
       PROVE  Bears(a, 0)'
  <2>0. ASSUME NEW t, step \in {"register", "packet"}, missed \/ Agrees(t, a.val, 0)
        PROVE  missed' \/ Agrees(t, a.val, 0)'
    <3>1. CASE missed
      BY <1>11, <3>1
    <3>2. CASE Agrees(t, a.val, 0)'
      BY <3>2
    <3>3. CASE m.kind = "ind" /\ ~IsNews(m) /\ m.val = modem[t] /\ modem[t] # a.val
      <4>1. Misses(m)
        BY <1>13, <2>0, <3>3 DEF Misses
      <4> QED
        BY <1>1, <4>1
    <3> QED
      BY <1>5, <2>0, <3>1, <3>2, <3>3
  <2>1. step = "register" => a.err = None /\ (missed' \/ Agrees("reg", a.val, 0)')
    BY <1>13, <2>0 DEF Bears
  <2>2. step = "packet" => a.err = None /\ (missed' \/ Agrees("ps", a.val, 0)')
    BY <1>13, <2>0 DEF Bears
  <2>3. step = "attach" => a.err # "not opened"
    BY <1>13 DEF Bears
  <2>4. step \in {"query", "address"} => known["call"] = TRUE \/ known["call"] = None
    BY DEF NInv, ToldInv, CallTold, CInv, Types
  <2>5. modem["call"] \in BOOLEAN
    BY DEF CInv, Types, Topics
  <2>6. step \in {"query", "address"} /\ Agrees("call", TRUE, 0) => Agrees("call", TRUE, 0)'
    BY <1>5, <2>4, <2>5, MbimCmAssumption
  <2>7. step = "query" /\ a.err = None /\ a.val = TRUE => Agrees("call", TRUE, 0)'
    BY <1>13, <2>6 DEF Bears
  <2>8. step = "address" /\ a.err = None => Agrees("call", TRUE, 0)'
    BY <1>13, <2>6 DEF Bears
  <2> QED
    BY <1>1, <2>1, <2>2, <2>3, <2>7, <2>8 DEF Bears
<1>14. AnswersBear'
  <2> SUFFICES ASSUME Live'
               PROVE  /\ pending' # None /\ pending'.answer # None => Bears(pending.answer, 0)'
                      /\ \A k \in 1 .. Len(inbox') : inbox'[k].mine => Bears(inbox[k], k)'
    BY DEF AnswersBear
  <2>1. /\ pending # None /\ pending.answer # None => Bears(pending.answer, 0)
        /\ \A k \in 1 .. Len(inbox) : inbox[k].mine => Bears(inbox[k], k)
    BY <1>4 DEF NInv, LinkInv, AnswersBear
  <2>2. ASSUME NEW k \in 1 .. Len(inbox'), inbox'[k].mine PROVE Bears(inbox[k], k)'
    <3>1. inbox'[k] = inbox[k + 1] /\ k + 1 \in 1 .. Len(inbox) /\ k \in Nat
      BY <1>2, <1>3
    <3>2. Bears(inbox[k + 1], k + 1)
      BY <2>1, <2>2, <3>1
    <3>3. Bears(inbox'[k], k + 1)
      BY <3>1, <3>2
    <3> QED
      BY <1>12, <3>1, <3>3 DEF Bears
  <2>3. ASSUME pending' # None, pending'.answer # None PROVE Bears(pending.answer, 0)'
    <3>1. CASE pending # None /\ pending.answer # None /\ pending' = pending
      <4>1. PICK a : a = pending.answer
        OBVIOUS
      <4>2. Bears(a, 0)'
        BY <1>13, <2>1, <3>1, <4>1
      <4> QED
        BY <3>1, <4>1, <4>2 DEF Bears
    <3>2. CASE m.mine /\ pending'.answer.err = m.err /\ pending'.answer.val = m.val
      <4>1. PICK a : a = m
        OBVIOUS
      <4>2. Bears(a, 0 + 1)
        BY <1>2, <2>1, <3>2, <4>1
      <4>3. Bears(a, 0)'
        BY <1>12, <4>2
      <4> QED
        BY <3>2, <4>1, <4>3 DEF Bears
    <3> QED
      BY <1>7, <2>3, <3>1, <3>2
  <2> QED
    BY <2>2, <2>3
<1>15. NewsTypes'
  BY <1>1 DEF NInv, ToldInv, NewsTypes, Misses
<1>16. CallTold'
  <2>1. status = "up" /\ step \in {"idle", "register", "packet", "attach"} =>
          (Agrees("call", TRUE, 0) => Agrees("call", TRUE, 0)')
    BY <1>5 DEF NInv, ToldInv, CallTold
  <2> QED
    BY <1>1, <1>4, <2>1 DEF NInv, ToldInv, CallTold
<1>17. NetworkTold'
  <2> SUFFICES ASSUME Live', ~spoiled', ~missed' PROVE NetworkTold'
    BY DEF NetworkTold
  <2>1. Live /\ ~spoiled /\ ~missed
    BY <1>1, <1>4
  <2>2. \A t, v : known[t] = v /\ Agrees(t, v, 0) => Agrees(t, v, 0)'
    BY <1>5
  <2> QED
    BY <1>1, <2>1, <2>2 DEF NInv, ToldInv, NetworkTold
<1> QED
  BY <1>8, <1>9, <1>10, <1>14, <1>15, <1>16, <1>17 DEF NInv, LinkInv, ToldInv
-----------------------------------------------------------------------------
(* The modem. *)

LEMMA HoldsOn ==
    ASSUME NEW p \in Seq(Messages), NEW q \in Seq(Messages), NEW t, NEW v
    PROVE  /\ \A k : Holds(p, t, v, k) => Holds(p \o q, t, v, k)
           /\ \A k \in 0 .. Len(p) : Holds(q, t, v, 0) => Holds(p \o q, t, v, k)
<1>1. /\ Len(p) \in Nat /\ Len(q) \in Nat /\ Len(p \o q) = Len(p) + Len(q)
      /\ \A i \in 1 .. Len(p) + Len(q) : (p \o q)[i] = IF i <= Len(p) THEN p[i] ELSE q[i - Len(p)]
  BY ConcatProperties, LenProperties
<1>2. \A i \in 1 .. Len(p) : i \in 1 .. Len(p \o q) /\ (p \o q)[i] = p[i]
  BY <1>1
<1>3. \A i \in 1 .. Len(q) : Len(p) + i \in 1 .. Len(p \o q) /\ (p \o q)[Len(p) + i] = q[i]
  <2> SUFFICES ASSUME NEW i \in 1 .. Len(q)
               PROVE  Len(p) + i \in 1 .. Len(p \o q) /\ (p \o q)[Len(p) + i] = q[i]
    OBVIOUS
  <2>1. Len(p) + i \in 1 .. Len(p) + Len(q) /\ ~(Len(p) + i <= Len(p)) /\ Len(p) + i - Len(p) = i
    BY <1>1
  <2>2. (p \o q)[Len(p) + i] = q[Len(p) + i - Len(p)]
    BY <1>1, <2>1
  <2> QED
    BY <1>1, <2>1, <2>2
<1>4. ASSUME NEW k, Holds(p, t, v, k) PROVE Holds(p \o q, t, v, k)
  BY <1>2, <1>4 DEF Holds
<1>5. ASSUME NEW k \in 0 .. Len(p), Holds(q, t, v, 0) PROVE Holds(p \o q, t, v, k)
  <2>1. PICK i \in 1 .. Len(q) : q[i].kind = "ind" /\ q[i].topic = t /\ q[i].val = v
    BY <1>5 DEF Holds
  <2>2. Len(p) + i > k
    BY <1>1
  <2> QED
    BY <1>3, <2>1, <2>2 DEF Holds
<1> QED
  BY <1>4, <1>5

\* Every change is reported.
LEMMA Reported ==
    ASSUME modem \in [Topics -> BOOLEAN], NEW new \in [Topics -> BOOLEAN], NEW t \in Topics, new[t] # modem[t]
    PROVE  Holds(Reports(new), t, new[t], 0)
<1>1. ASSUME NEW u \in Topics PROVE Report(u, new) \in Seq(Messages)
  <2>1. Ind(u, new[u]) \in Messages
    BY DEF Ind, Messages
  <2>2. <<Ind(u, new[u])>> \in Seq(Messages) /\ <<>> \in Seq(Messages)
    BY <2>1, EmptySeq
  <2> QED
    BY <2>2 DEF Report
<1>2. /\ Report("reg", new) \in Seq(Messages) /\ Report("ps", new) \in Seq(Messages)
      /\ Report("call", new) \in Seq(Messages)
  BY <1>1 DEF Topics
<1>3. Holds(Report(t, new), t, new[t], 0)
  <2> DEFINE m == Ind(t, new[t])
  <2>1. m.kind = "ind" /\ m.topic = t /\ m.val = new[t]
    BY DEF Ind
  <2>2. Report(t, new) = <<m>>
    BY DEF Report
  <2> HIDE DEF m
  <2>3. Len(<<m>>) = 1 /\ <<m>>[1] = m
    OBVIOUS
  <2> QED
    BY <2>1, <2>2, <2>3 DEF Holds
<1>4. PICK both : both = Report("reg", new) \o Report("ps", new)
  OBVIOUS
<1>5. both \in Seq(Messages) /\ Reports(new) = both \o Report("call", new)
  BY <1>2, <1>4, ConcatProperties DEF Reports
<1>6. CASE t = "reg"
  <2>1. Holds(both, t, new[t], 0)
    BY <1>2, <1>3, <1>4, <1>6, HoldsOn
  <2> QED
    BY <1>2, <1>5, <2>1, HoldsOn
<1>7. CASE t = "ps"
  <2>1. 0 \in 0 .. Len(Report("reg", new))
    BY <1>2, LenProperties
  <2>2. Holds(both, t, new[t], 0)
    BY <1>2, <1>3, <1>4, <1>7, <2>1, HoldsOn
  <2> QED
    BY <1>2, <1>5, <2>2, HoldsOn
<1>8. CASE t = "call"
  <2>1. 0 \in 0 .. Len(both)
    BY <1>5, LenProperties
  <2> QED
    BY <1>2, <1>3, <1>5, <1>8, <2>1, HoldsOn
<1> QED
  BY <1>6, <1>7, <1>8 DEF Topics

\* What main() was told, or will be, stays true when the modem changes and says so.
LEMMA MoreSaid ==
    ASSUME CInv, modem' \in [Topics -> BOOLEAN], events' = events,
           NEW more \in Seq(Messages), inbox' = inbox \o more,
           \A t \in Topics : modem'[t] # modem[t] => Holds(more, t, modem'[t], 0),
           NEW t \in Topics, NEW v \in BOOLEAN, NEW k \in 0 .. Len(inbox), Agrees(t, v, k)
    PROVE  Agrees(t, v, k)'
<1>1. inbox \in Seq(Messages)
  BY DEF CInv, Types
<1>2. CASE modem'[t] # modem[t]
  <2>1. Holds(inbox \o more, t, modem'[t], k)
    BY <1>1, <1>2, HoldsOn
  <2>2. Holds(inbox, t, modem[t], k)'
    BY <2>1 DEF Holds
  <2> QED
    BY <2>2 DEF Agrees
<1>3. CASE modem'[t] = modem[t]
  <2>1. Holds(inbox, t, modem[t], k) => Holds(inbox \o more, t, modem[t], k)
    BY <1>1, HoldsOn
  <2>2. Holds(inbox, t, modem[t], k) => Holds(inbox, t, modem[t], k)'
    BY <1>3, <2>1 DEF Holds
  <2> QED
    BY <1>3, <2>2 DEF Agrees
<1> QED
  BY <1>2, <1>3

\* What the modem says more, an answer to main() or none.
LEMMA MoreNews ==
    ASSUME CInv, NInv, modem' \in [Topics -> BOOLEAN],
           NEW more \in Seq(Messages), inbox' = inbox \o more,
           Live' /\ Live => \A t \in Topics : modem'[t] # modem[t] => Holds(more, t, modem'[t], 0),
           UNCHANGED <<device, reader, pending, step, known, attached, status, events, spoiled, missed>>,
           LastOrder', OneAnswer', OpenFirst', step \in {"start", "open", "left"} \/ (Live' => Live),
           \A k \in 1 .. Len(more) : more[k].mine =>
               Value(more[k]) /\ \A n \in Nat : Live' => Bears(more[k], n)'
    PROVE  NInv'
<1>1. \A a : Value(a)' <=> Value(a)
  BY DEF Value
<1>2. /\ Len(inbox) \in Nat /\ Len(more) \in Nat /\ Len(inbox') = Len(inbox) + Len(more)
      /\ \A k \in 1 .. Len(inbox') :
            inbox'[k] = IF k <= Len(inbox) THEN inbox[k] ELSE more[k - Len(inbox)]
  <2>1. inbox \in Seq(Messages)
    BY DEF CInv, Types
  <2> QED
    BY <2>1, ConcatProperties, LenProperties
<1>3. ASSUME NEW k \in 1 .. Len(inbox'), ~(k <= Len(inbox))
      PROVE  \E j \in 1 .. Len(more) : inbox'[k] = more[j]
  <2>1. k - Len(inbox) \in 1 .. Len(more) /\ inbox'[k] = more[k - Len(inbox)]
    BY <1>2, <1>3
  <2> QED
    BY <2>1
<1>4. Values'
  <2>1. ASSUME NEW k \in 1 .. Len(inbox'), inbox'[k].mine PROVE Value(inbox'[k])
    <3>1. CASE k <= Len(inbox)
      BY <1>2, <2>1, <3>1 DEF NInv, LinkInv, Values
    <3>2. CASE ~(k <= Len(inbox))
      BY <1>3, <2>1, <3>2
    <3> QED
      BY <3>1, <3>2
  <2>2. pending' # None /\ pending'.answer # None => Value(pending'.answer)
    BY DEF NInv, LinkInv, Values
  <2> QED
    BY <1>1, <2>1, <2>2 DEF Values
<1>5. CASE step \in {"start", "open", "left"}
  <2>1. \A a, k : Bears(a, k)'
    BY <1>5 DEF Bears
  <2>2. Written' /\ AnswersBear'
    BY <2>1 DEF NInv, LinkInv, Written, AnswersBear
  <2>3. NewsTypes' /\ CallTold' /\ NetworkTold'
    BY <1>5 DEF NInv, ToldInv, NewsTypes, CallTold, NetworkTold
  <2> QED
    BY <1>4, <2>2, <2>3 DEF NInv, LinkInv, ToldInv
<1>6. CASE step \notin {"start", "open", "left"}
  <2>1. ASSUME Live', NEW t \in Topics, NEW v \in BOOLEAN, NEW k \in 0 .. Len(inbox), Agrees(t, v, k)
        PROVE  Agrees(t, v, k)'
    BY <1>6, <2>1, MoreSaid
  <2>2. {"reg", "ps", "call"} \subseteq Topics /\ TRUE \in BOOLEAN /\ 0 \in 0 .. Len(inbox)
    BY <1>2 DEF Topics
  <2>3. ASSUME Live', NEW a, NEW k \in 0 .. Len(inbox), Value(a), Bears(a, k) PROVE Bears(a, k)'
    BY <2>1, <2>2, <2>3 DEF Bears, Value
  <2>4. AnswersBear'
    <3> SUFFICES ASSUME Live'
                 PROVE  /\ pending' # None /\ pending'.answer # None => Bears(pending.answer, 0)'
                        /\ \A k \in 1 .. Len(inbox') : inbox'[k].mine => Bears(inbox[k], k)'
      BY DEF AnswersBear
    <3>1. Live
      BY <1>6
    <3>2. ASSUME pending' # None, pending'.answer # None PROVE Bears(pending.answer, 0)'
      <4>1. PICK a : a = pending.answer
        OBVIOUS
      <4>2. Value(a) /\ Bears(a, 0)
        BY <3>1, <3>2, <4>1 DEF NInv, LinkInv, Values, AnswersBear
      <4>3. Bears(a, 0)'
        BY <2>2, <2>3, <4>2
      <4> QED
        BY <4>1, <4>3 DEF Bears
    <3>3. ASSUME NEW k \in 1 .. Len(inbox'), inbox'[k].mine PROVE Bears(inbox[k], k)'
      <4>1. PICK a : a = inbox'[k]
        OBVIOUS
      <4>2. CASE k <= Len(inbox)
        <5>1. k \in 1 .. Len(inbox) /\ k \in 0 .. Len(inbox) /\ a = inbox[k]
          BY <1>2, <4>1, <4>2
        <5>2. Value(a) /\ Bears(a, k)
          BY <3>1, <3>3, <4>1, <5>1 DEF NInv, LinkInv, Values, AnswersBear
        <5> QED
          BY <2>3, <4>1, <5>1, <5>2 DEF Bears
      <4>3. CASE ~(k <= Len(inbox))
        <5>1. PICK j \in 1 .. Len(more) : a = more[j]
          BY <1>3, <4>1, <4>3
        <5>2. a.mine /\ k \in Nat
          BY <1>2, <3>3, <4>1
        <5>3. Bears(a, k)'
          BY <5>1, <5>2
        <5> QED
          BY <4>1, <5>3 DEF Bears
      <4> QED
        BY <4>2, <4>3
    <3> QED
      BY <3>2, <3>3
  <2>5. Written' /\ NewsTypes'
    BY DEF NInv, LinkInv, ToldInv, Written, NewsTypes
  <2>6. CallTold'
    BY <1>6, <2>1, <2>2 DEF NInv, ToldInv, CallTold
  <2>7. NetworkTold'
    <3> SUFFICES ASSUME Live', ~spoiled', ~missed' PROVE NetworkTold'
      BY DEF NetworkTold
    <3>1. \A t \in Network : \A v \in BOOLEAN : Agrees(t, v, 0) => Agrees(t, v, 0)'
      BY <2>1, <2>2 DEF Network
    <3>2. Live /\ ~spoiled /\ ~missed
      BY <1>6
    <3> QED
      BY <3>1, <3>2 DEF NInv, ToldInv, NetworkTold, Network
  <2> QED
    BY <1>4, <2>4, <2>5, <2>6, <2>7 DEF NInv, LinkInv, ToldInv
<1> QED
  BY <1>5, <1>6

LEMMA HappensNews ==
    ASSUME CInv, CInv', NInv, Happens
    PROVE  NInv'
<1>1. UNCHANGED <<device, reader, pending, sent, step, known, attached, status, events, opened,
                  spoiled, missed>>
  BY DEF Happens
<1>2. modem \in [Topics -> BOOLEAN] /\ modem' \in [Topics -> BOOLEAN]
  BY DEF CInv, Types
<1>3. PICK more : more = IF opened THEN Reports(modem') ELSE <<>>
  OBVIOUS
<1>4. inbox' = inbox \o more
  BY <1>3 DEF Happens
<1>5. Arrives(more)
  BY <1>2, <1>3, ReportsArrive, EmptySeq DEF Arrives
<1>6. more \in Seq(Messages) /\ \A k \in 1 .. Len(more) : ~more[k].mine
  BY <1>5 DEF Arrives
<1>7. ASSUME NEW new, new = modem', Live, NEW t \in Topics, new[t] # modem[t]
      PROVE  Holds(more, t, new[t], 0)
  <2>1. more = Reports(new) /\ new \in [Topics -> BOOLEAN]
    BY <1>2, <1>3, <1>7 DEF Live, Reports, Report
  <2> QED
    BY <1>2, <1>7, <2>1, Reported
<1>8. Live => \A t \in Topics : modem'[t] # modem[t] => Holds(more, t, modem'[t], 0)
  BY <1>7
<1>9. LastOrder' /\ OpenFirst'
  BY <1>1 DEF NInv, LinkInv, LastOrder, OpenFirst
<1>10. OneAnswer'
  <2>1. \A k \in 1 .. Len(inbox') : inbox'[k].mine => \E j \in 1 .. Len(inbox) : inbox'[k] = inbox[j]
    BY <1>4, <1>5, ArriveNobodys DEF CInv, Types
  <2> QED
    BY <1>1, <2>1 DEF NInv, LinkInv, OneAnswer, Answered
<1>11. Live' => Live
  BY <1>1 DEF Live
<1> QED
  BY <1>1, <1>2, <1>4, <1>6, <1>8, <1>9, <1>10, <1>11, MoreNews

\* What an answer is worth to main(), if it is for the request it waits for.
LEMMA AnswerBears ==
    ASSUME CInv, NEW c \in Requests, NEW a \in Answers(c)
    PROVE  /\ c \in {"register", "packet", "attach", "query"} /\ a[2] = None => a[3] \in BOOLEAN
           /\ c = "connect" /\ a[2] = None => a[3] = TRUE
           /\ opened /\ c \notin {"open"} => a[2] # "not opened"
           /\ opened /\ c \in {"register", "packet", "query"} => a[2] = None
           /\ opened /\ c = "register" => a[1]["reg"] = a[3]
           /\ opened /\ c = "packet" => a[1]["ps"] = a[3]
           /\ opened /\ c = "query" => a[1]["call"] = a[3]
           /\ opened /\ c = "address" /\ a[2] = None => a[1]["call"] = TRUE
           /\ c # "open" /\ ~opened => a[2] = "not opened"
<1>0. modem \in [Topics -> BOOLEAN] /\ {"reg", "ps", "call"} \subseteq Topics
  BY DEF CInv, Types, Topics
<1>1. None # "not opened" /\ None # "refused"
  BY MbimCmAssumption
<1> DEFINE S(x, y, z) == a = <<x, y, z>>
<1>2. \A x, y, z : S(x, y, z) => a[1] = x /\ a[2] = y /\ a[3] = z
  BY Components
<1>3. CASE c = "open"
  BY <1>3
<1>4. CASE c # "open" /\ ~opened
  <2>1. S(modem, "not opened", None)
    BY <1>4 DEF Answers
  <2> HIDE DEF S
  <2>2. a[2] = "not opened"
    BY <1>2, <2>1
  <2> QED
    BY <1>1, <1>4, <2>2
<1>5. CASE opened /\ c \in {"setup", "sim", "close"}
  <2>1. S(modem, None, None)
    BY <1>5 DEF Answers
  <2> HIDE DEF S
  <2>2. a[2] = None
    BY <1>2, <2>1
  <2> QED
    BY <1>1, <1>5, <2>2
<1>6. CASE opened /\ c = "register"
  <2>1. S(modem, None, modem["reg"])
    BY <1>6 DEF Answers
  <2> HIDE DEF S
  <2>2. a[1] = modem /\ a[2] = None /\ a[3] = modem["reg"]
    BY <1>2, <2>1
  <2> QED
    BY <1>0, <1>1, <1>6, <2>2
<1>7. CASE opened /\ c = "packet"
  <2>1. S(modem, None, modem["ps"])
    BY <1>7 DEF Answers
  <2> HIDE DEF S
  <2>2. a[1] = modem /\ a[2] = None /\ a[3] = modem["ps"]
    BY <1>2, <2>1
  <2> QED
    BY <1>0, <1>1, <1>7, <2>2
<1>8. CASE opened /\ c = "query"
  <2>1. S(modem, None, modem["call"])
    BY <1>8 DEF Answers
  <2> HIDE DEF S
  <2>2. a[1] = modem /\ a[2] = None /\ a[3] = modem["call"]
    BY <1>2, <2>1
  <2> QED
    BY <1>0, <1>1, <1>8, <2>2
<1>9. CASE opened /\ c = "attach"
  <2>1. S([modem EXCEPT !["ps"] = TRUE], None, TRUE) \/ S(modem, None, FALSE) \/ S(modem, "refused", None)
    BY <1>9 DEF Answers
  <2> HIDE DEF S
  <2>2. (a[2] = None /\ a[3] \in BOOLEAN) \/ a[2] = "refused"
    BY <1>2, <2>1
  <2> QED
    BY <1>1, <1>9, <2>2
<1>10. CASE opened /\ c = "connect"
  <2>1. S([modem EXCEPT !["call"] = TRUE], None, TRUE) \/ S(modem, "refused", None)
    BY <1>10 DEF Answers
  <2> HIDE DEF S
  <2>2. (a[2] = None /\ a[3] = TRUE) \/ a[2] = "refused"
    BY <1>2, <2>1
  <2> QED
    BY <1>1, <1>10, <2>2
<1>11. CASE opened /\ c = "disconnect"
  <2>1. S([modem EXCEPT !["call"] = FALSE], None, FALSE)
    BY <1>11 DEF Answers
  <2> HIDE DEF S
  <2>2. a[2] = None
    BY <1>2, <2>1
  <2> QED
    BY <1>1, <1>11, <2>2
<1>12. CASE opened /\ c = "address"
  <2>1. S(modem, IF modem["call"] THEN None ELSE "refused", None)
    BY <1>12 DEF Answers
  <2> HIDE DEF S
  <2>2. a[1] = modem /\ a[2] = IF modem["call"] THEN None ELSE "refused"
    BY <1>2, <2>1
  <2> QED
    BY <1>0, <1>1, <1>12, <2>2
<1> QED
  BY <1>3, <1>4, <1>5, <1>6, <1>7, <1>8, <1>9, <1>10, <1>11, <1>12 DEF Requests, CInv, Types

LEMMA ModemAnswersNews ==
    ASSUME CInv, CInv', NInv, ModemAnswers
    PROVE  NInv'
<1>0. PICK s : s = Head(sent)
  OBVIOUS
<1>1. /\ sent # <<>> /\ sent' = Tail(sent)
      /\ UNCHANGED <<device, reader, pending, step, known, attached, status, events, spoiled, missed>>
  BY DEF ModemAnswers
<1>2. /\ sent' \in Seq(Orders) /\ s \in Orders /\ s = sent[1] /\ 1 \in 1 .. Len(sent)
      /\ \A i \in 1 .. Len(sent') : i + 1 \in 1 .. Len(sent) /\ sent'[i] = sent[i + 1]
  BY <1>0, <1>1, OrderTaken
<1>3. PICK a \in Answers(s.cmd) :
        /\ modem' = a[1]
        /\ inbox' \in {inbox \o <<Done(s, a[2], a[3])>> \o Reports(a[1]),
                      inbox \o Reports(a[1]) \o <<Done(s, a[2], a[3])>>}
        /\ opened' = (s.cmd = "open" \/ (opened /\ s.cmd # "close"))
  BY <1>0 DEF ModemAnswers
<1>4. PICK d : d = Done(s, a[2], a[3])
  OBVIOUS
<1>5. s.cmd \in Requests /\ s.mine \in BOOLEAN
  BY <1>2 DEF Orders
<1>6. /\ modem \in [Topics -> BOOLEAN] /\ opened \in BOOLEAN /\ modem' \in [Topics -> BOOLEAN]
      /\ inbox \in Seq(Messages) /\ sent \in Seq(Orders)
  BY DEF CInv, Types
<1>7. Says(s.cmd, modem', a[2], a[3])
  BY <1>3, <1>5, <1>6, AnswerOf
<1>8. d \in Messages /\ d.mine = s.mine /\ d.err = a[2] /\ d.val = a[3]
  BY <1>4, <1>5, <1>7 DEF Done, Messages, Says, Errors, Topics
<1>9. PICK rep : rep = Reports(a[1])
  OBVIOUS
<1>10. /\ Arrives(rep) /\ rep \in Seq(Messages) /\ Len(rep) \in Nat /\ \A i \in 1 .. Len(rep) : ~rep[i].mine
       /\ <<d>> \in Seq(Messages) /\ Len(<<d>>) = 1 /\ <<d>>[1] = d
  <2>1. Arrives(rep)
    BY <1>3, <1>6, <1>9, ReportsArrive
  <2>2. <<d>> \in Seq(Messages) /\ Len(<<d>>) = 1 /\ <<d>>[1] = d
    BY <1>8
  <2> QED
    BY <2>1, <2>2, LenProperties DEF Arrives
<1>11. \A t \in Topics : modem'[t] # modem[t] => Holds(rep, t, modem'[t], 0)
  <2>1. a[1] \in [Topics -> BOOLEAN]
    BY <1>3, <1>6
  <2>2. \A t \in Topics : a[1][t] # modem[t] => Holds(rep, t, a[1][t], 0)
    BY <1>6, <1>9, <2>1, Reported
  <2> QED
    BY <1>3, <2>2
<1>12. PICK more \in {<<d>> \o rep, rep \o <<d>>} : inbox' = inbox \o more
  <2>1. inbox' = (inbox \o <<d>>) \o rep \/ inbox' = (inbox \o rep) \o <<d>>
    BY <1>3, <1>4, <1>9
  <2>2. (inbox \o <<d>>) \o rep = inbox \o (<<d>> \o rep) /\ (inbox \o rep) \o <<d>> = inbox \o (rep \o <<d>>)
    BY <1>6, <1>10, ConcatAssociative
  <2> QED
    BY <2>1, <2>2
<1>13. /\ more \in Seq(Messages)
       /\ \A t, v : Holds(rep, t, v, 0) => Holds(more, t, v, 0)
       /\ \A k \in 1 .. Len(more) : more[k].mine => more[k] = d
  <2>1. CASE more = <<d>> \o rep
    <3>1. \A t, v : Holds(rep, t, v, 0) => Holds(more, t, v, 0)
      <4>1. 0 \in 0 .. Len(<<d>>)
        BY <1>10
      <4> QED
        BY <1>10, <2>1, <4>1, HoldsOn
    <3>2. more \in Seq(Messages) /\ Len(more) = 1 + Len(rep)
      BY <1>10, <2>1, ConcatProperties
    <3>3. ASSUME NEW k \in 1 .. Len(more), more[k].mine PROVE more[k] = d
      <4>1. more[k] = IF k <= 1 THEN <<d>>[k] ELSE rep[k - 1]
        BY <1>10, <2>1, <3>2, ConcatProperties
      <4>2. CASE k = 1
        BY <1>10, <4>1, <4>2
      <4>3. CASE k # 1
        <5>1. more[k] = rep[k - 1] /\ k - 1 \in 1 .. Len(rep)
          BY <1>10, <3>2, <4>1, <4>3
        <5> QED
          BY <1>10, <3>3, <5>1
      <4> QED
        BY <4>2, <4>3
    <3> QED
      BY <3>1, <3>2, <3>3
  <2>2. CASE more = rep \o <<d>>
    <3>1. \A t, v : Holds(rep, t, v, 0) => Holds(more, t, v, 0)
      BY <1>10, <2>2, HoldsOn
    <3>2. more \in Seq(Messages)
      BY <1>10, <2>2, ConcatProperties
    <3>3. ASSUME NEW k \in 1 .. Len(more), more[k].mine PROVE more[k] = d
      <4>1. Len(more) = Len(rep) + 1 /\ more[k] = IF k <= Len(rep) THEN rep[k] ELSE <<d>>[k - Len(rep)]
        BY <1>10, <2>2, ConcatProperties
      <4>2. CASE k <= Len(rep)
        BY <1>10, <3>3, <4>1, <4>2
      <4>3. CASE ~(k <= Len(rep))
        <5>1. k - Len(rep) = 1 /\ more[k] = <<d>>[k - Len(rep)]
          BY <1>10, <4>1, <4>3
        <5> QED
          BY <1>10, <5>1
      <4> QED
        BY <4>2, <4>3
    <3> QED
      BY <3>1, <3>2, <3>3
  <2> QED
    BY <1>12, <2>1, <2>2
<1>14. s.mine => s.cmd = step /\ sent' = <<>>
  <2>1. s.mine => s.cmd = step /\ Len(sent) = 1
    BY <1>2 DEF NInv, LinkInv, LastOrder
  <2>2. Len(sent) = 1 => Len(sent') = 0
    BY <1>1, <1>6, HeadTailProperties
  <2> QED
    BY <1>2, <2>1, <2>2, EmptySeq
<1>15. LastOrder' /\ OpenFirst'
  <2>1. Len(sent') = Len(sent) - 1 /\ Len(sent) \in Nat
    BY <1>1, <1>6, HeadTailProperties, LenProperties
  <2>2. LastOrder'
    <3> SUFFICES ASSUME NEW i \in 1 .. Len(sent'), sent'[i].mine PROVE i = Len(sent') /\ sent'[i].cmd = step
      BY <1>1 DEF LastOrder
    <3>1. i + 1 = Len(sent) /\ sent[i + 1].cmd = step
      BY <1>2 DEF NInv, LinkInv, LastOrder
    <3> QED
      BY <1>2, <2>1, <3>1
  <2>3. OpenFirst'
    BY <1>1, <1>2 DEF NInv, LinkInv, OpenFirst
  <2> QED
    BY <2>2, <2>3
<1>16. OneAnswer'
  <2>1. ~Answered
    BY <1>1 DEF NInv, LinkInv, OneAnswer
  <2>2. ASSUME NEW k \in 1 .. Len(inbox'), inbox'[k].mine PROVE s.mine
    <3>1. /\ inbox' = inbox \o more /\ Len(inbox) \in Nat /\ Len(more) \in Nat
          /\ Len(inbox') = Len(inbox) + Len(more)
          /\ inbox'[k] = IF k <= Len(inbox) THEN inbox[k] ELSE more[k - Len(inbox)]
      BY <1>6, <1>12, <1>13, ConcatProperties, LenProperties
    <3>2. CASE k <= Len(inbox)
      BY <2>1, <2>2, <3>1, <3>2 DEF Answered
    <3>3. CASE ~(k <= Len(inbox))
      <4>1. k - Len(inbox) \in 1 .. Len(more) /\ inbox'[k] = more[k - Len(inbox)]
        BY <3>1, <3>3
      <4> QED
        BY <1>8, <1>13, <2>2, <4>1
    <3> QED
      BY <3>2, <3>3
  <2> QED
    BY <1>1, <1>14, <2>1, <2>2 DEF OneAnswer, Answered
<1>17. step \in {"start", "open", "left"} \/ (Live' => Live)
  <2>1. step \notin {"start", "open", "left"} => s.cmd # "open"
    BY <1>2 DEF NInv, LinkInv, OpenFirst
  <2> QED
    BY <1>1, <1>3, <1>6, <2>1 DEF Live
<1>18. ASSUME d.mine PROVE Value(d) /\ \A n \in Nat : Live' => Bears(d, n)'
  <2>1. s.mine /\ s.cmd = step
    BY <1>8, <1>14, <1>18
  <2>2. Value(d)
    BY <1>3, <1>5, <1>8, <2>1, AnswerBears DEF Value
  <2>3. ASSUME Live', NEW n \in Nat PROVE Bears(d, n)'
    <3>1. CASE step = "open"
      BY <1>1, <3>1 DEF Bears
    <3>2. CASE step # "open"
      <4>1. opened
        BY <1>3, <1>6, <2>1, <2>3, <3>2 DEF Live
      <4>2. /\ step \in {"register", "packet", "query"} => d.err = None
            /\ step = "register" => modem'["reg"] = d.val
            /\ step = "packet" => modem'["ps"] = d.val
            /\ step = "query" => modem'["call"] = d.val
            /\ step = "address" /\ d.err = None => modem'["call"] = TRUE
            /\ d.err # "not opened"
        BY <1>3, <1>5, <1>8, <2>1, <3>2, <4>1, AnswerBears
      <4> QED
        BY <1>1, <4>2 DEF Bears, Agrees
    <3> QED
      BY <3>1, <3>2
  <2> QED
    BY <2>2, <2>3
<1>19. \A k \in 1 .. Len(more) : more[k].mine =>
           Value(more[k]) /\ \A n \in Nat : Live' => Bears(more[k], n)'
  BY <1>13, <1>18
<1>20. \A t \in Topics : modem'[t] # modem[t] => Holds(more, t, modem'[t], 0)
  BY <1>11, <1>13
<1> QED
  BY <1>1, <1>6, <1>12, <1>13, <1>15, <1>16, <1>17, <1>19, <1>20, MoreNews
-----------------------------------------------------------------------------
LEMMA NextNInv == CInv /\ CInv' /\ NInv /\ [Next]_vars => NInv'
<1> SUFFICES ASSUME CInv, CInv', NInv, [Next]_vars PROVE NInv'
  OBVIOUS
<1>1. CASE Receive
  BY <1>1, ReceiveNews
<1>2. CASE ModemAnswers \/ Happens
  BY <1>2, ModemAnswersNews, HappensNews
<1>3. CASE ReaderEnds \/ Resumes \/ Busy \/ Ready \/ HangsUp \/ Sigint \/ UNCHANGED vars
  BY <1>3, SilentSteps
<1>4. CASE Main
  <2>1. CASE Start /\ UNCHANGED <<device, reader, busy, stopping, modemVars>>
    <3>1. Kept
      BY <2>1 DEF Kept
    <3> QED
      BY <2>1, <3>1, EarlyNews
  <2>2. CASE Gets \/ Stop
    BY <2>2, GetsNews, StopNews
  <2>3. CASE (\E e \in Events : Serve(e)) \/ Check \/ SetupDataCall
    BY <2>3, RoundNews
  <2> QED
    BY <1>4, <2>1, <2>2, <2>3 DEF Main
<1> QED
  BY <1>1, <1>2, <1>3, <1>4 DEF Next

\* Whenever main() rests and is wrong about the modem, news of that is on its
\* way: NewsComes.
THEOREM NewsIsComing == Spec => []NewsComes
<1>1. CInv /\ NInv => NewsComes
  <2> SUFFICES ASSUME CInv, NInv, step = "idle", device = "up", reader, opened
               PROVE  /\ AttachedRight \/ spoiled \/ missed \/ Coming("registration")
                      /\ status = "up" => modem["call"] \/ Coming("calls")
    BY DEF NewsComes
  <2>1. Live /\ modem \in [Topics -> BOOLEAN] /\ {"reg", "ps", "call"} \subseteq Topics
    BY DEF Live, CInv, Types, Topics
  <2>2. ASSUME NEW t \in Topics, NEW v, known[t] = v, modem[t] # v, Agrees(t, v, 0)
        PROVE  Coming(EventOf(t))
    <3>1. CASE EventOf(t) \in events
      BY <3>1 DEF Coming
    <3>2. CASE Holds(inbox, t, modem[t], 0)
      <4>1. PICK i \in 1 .. Len(inbox) : inbox[i].kind = "ind" /\ inbox[i].topic = t /\ inbox[i].val = modem[t]
        BY <3>2 DEF Holds
      <4>2. i \in DOMAIN inbox
        BY LenProperties DEF CInv, Types
      <4> QED
        BY <2>2, <4>1, <4>2 DEF Coming
    <3> QED
      BY <2>2, <3>1, <3>2 DEF Agrees
  <2>3. AttachedRight \/ spoiled \/ missed \/ Coming("registration")
    <3> SUFFICES ASSUME ~spoiled, ~missed, ~Coming("registration") PROVE AttachedRight
      OBVIOUS
    <3>1. \A t \in Network : \A v : known[t] = v /\ Agrees(t, v, 0) => modem[t] = v
      BY <2>1, <2>2 DEF EventOf, Network
    <3>2. CASE attached
      <4>1. \A t \in Network : modem[t] = TRUE
        BY <2>1, <3>1, <3>2 DEF NInv, ToldInv, NetworkTold
      <4> QED
        BY <3>2, <4>1 DEF AttachedRight, Network
    <3>3. CASE ~attached
      <4>1. \E t \in Network : modem[t] = FALSE
        BY <2>1, <3>1, <3>3 DEF NInv, ToldInv, NetworkTold
      <4> QED
        BY <2>1, <3>3, <4>1 DEF AttachedRight, Network, NInv, ToldInv, NewsTypes
    <3> QED
      BY <3>2, <3>3
  <2>4. status = "up" => modem["call"] \/ Coming("calls")
    <3> SUFFICES ASSUME status = "up", ~Coming("calls") PROVE modem["call"] = TRUE
      OBVIOUS
    <3>1. known["call"] = TRUE /\ Agrees("call", TRUE, 0)
      BY <2>1 DEF NInv, ToldInv, CallTold
    <3> QED
      BY <2>1, <2>2, <3>1 DEF EventOf
  <2> QED
    BY <2>3, <2>4
<1> QED
  BY <1>1, InitCInv, NextCInv, InitNInv, NextNInv, PTL DEF Spec
=============================================================================
