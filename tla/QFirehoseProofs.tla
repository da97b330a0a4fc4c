--------------------------- MODULE QFirehoseProofs ---------------------------
(***************************************************************************)
(* Proofs about QFirehose, for any package, any number of blocks, ranges,  *)
(* time-outs, attempts and reboots: no late answer makes the tool take a   *)
(* download for whole, begin an image the module does not wait for, or     *)
(* program the SBL before the rest. What is on its way at each place of    *)
(* the protocols decides, so the invariant says so.                        *)
(***************************************************************************)
EXTENDS QFirehose, SequenceTheorems, TLAPS

USE DEF wire, usbVars, sahVars, strVars, fhVars, mainVars, vars

\* A sequence, whatever messages it has, and what they are called.
ASeq(q) == q \in Seq(Range(q))
Ops(q) == {q[i].op : i \in DOMAIN q}

\* Firehose has not begun.
Before == ctl \in {"sahara", "stream"} \/ (ctl \in {"main", "end"} /\ ret.by # "firehose")

WireInv ==
    /\ mod \in [usb : UsbModes, runs : {"app", "boot", "loader"}]
    /\ ASeq(toMod) /\ ASeq(toHost)
    /\ mod.usb = "absent" => toMod = <<>> /\ toHost = <<>> /\ raw = None

AllWritten == \A b \in 1 .. Blocks : part[b] # 0

\* stream_download and firehose_main begin with nothing on its way.
RetInv ==
    /\ ctl \in {"main", "sahara", "stream", "firehose", "end", "crashed"}
    /\ ctl \in {"stream", "firehose", "crashed"} => ret = [by |-> "sahara", ok |-> TRUE]
    /\ ctl = "sahara" => ret.by \in {"none", "stream"}
    /\ ret = [by |-> "stream", ok |-> TRUE] => AllWritten
    /\ ctl = "main" /\ ret = [by |-> "sahara", ok |-> TRUE] => toMod = <<>> /\ toHost = <<>>
    /\ ret = [by |-> "firehose", ok |-> TRUE] => pass = "reset"

LoaderRuns ==
    \/ ctl \in {"stream", "firehose", "crashed"} \/ ret.by = "firehose"
    \/ ctl = "main" /\ ret = [by |-> "sahara", ok |-> TRUE]
    => mod.usb = "absent" \/ mod.runs = "loader"

\* Nothing is left over that could touch the flash.
BeforeInv ==
    Before => /\ on = "read" /\ pass = "configure" /\ row = 1 /\ raw = None
              /\ flash = [p \in Parts |-> "old"]
              /\ Ops(toMod) \cap {"erase", "eraseAll", "program"} = {}

\* DONE is the last word of the host and its answer that of the boot ROM.
SaharaInv ==
    ctl = "sahara" \/ Searching =>
        /\ \A i \in DOMAIN toMod : toMod[i].op = "done" =>
              ctl = "sahara" /\ sah = "done" /\ i = Len(toMod)
        /\ \A i \in DOMAIN toHost : toHost[i].op = "doneResp" =>
              /\ ctl = "sahara" /\ sah = "done" /\ i = Len(toHost) /\ toMod = <<>>
              /\ mod.runs = "loader"
-----------------------------------------------------------------------------
(* stream_download. *)

Early == {"hello", "trust", "table", "override", "flag"}
StreamOps == Early \cup {"open", "write", "close", "reset"}

StreamTypes ==
    /\ str.op \in StreamOps /\ str.blk \in Nat /\ str.sent \in BOOLEAN
    /\ DOMAIN str = {"op", "blk", "waits", "sends", "sent"}
    /\ str.op = "write" => str.blk \in 1 .. Blocks
    /\ \A i \in DOMAIN toMod : toMod[i].op = "write" => toMod[i].from = 1

BeforeOpen ==
    str.op \in Early =>
        Ops(toMod) \subseteq Early /\ Ops(toHost) \subseteq Early \cup {"log"}

\* The answer to open comes after all others.
AtOpen ==
    str.op = "open" =>
        /\ Ops(toMod) \subseteq Early \cup {"open"}
        /\ Ops(toHost) \subseteq Early \cup {"open", "log"}
        /\ \A i \in DOMAIN toMod : toMod[i].op = "open" => str.sent /\ i = Len(toMod)
        /\ \A i \in DOMAIN toHost : toHost[i].op = "open" =>
              /\ str.sent /\ toMod = <<>>
              /\ \A j \in DOMAIN toHost : i < j => toHost[j].op = "log"

\* One write is on its way, the last one; or none is.
WriteInStep ==
    /\ \A b \in 1 .. str.blk - 1 : part[b] # 0
    /\ ~str.sent => toMod = <<>> /\ "write" \notin Ops(toHost)
    /\ str.sent =>
         \/ Len(toMod) = 1 /\ toMod[1].blk = str.blk /\ "write" \notin Ops(toHost)
         \/ toMod = <<>> /\ \E i \in DOMAIN toHost :
               /\ toHost[i].op = "write" /\ (toHost[i].ok => part[str.blk] # 0)
               /\ \A j \in DOMAIN toHost : toHost[j].op = "write" => i = j

\* An answer too many is on its way, and so it stays.
WriteLags ==
    /\ ~str.sent => toMod # <<>> \/ "write" \in Ops(toHost)
    /\ str.sent =>
         \/ Len(toMod) >= 2
         \/ toMod # <<>> /\ "write" \in Ops(toHost)
         \/ \E i, j \in DOMAIN toHost : i < j /\ toHost[i].op = "write" /\ toHost[j].op = "write"

AtWrite ==
    str.op = "write" =>
        /\ Ops(toMod) \subseteq {"write"} /\ Ops(toHost) \subseteq {"write", "log"}
        /\ mod.usb = "absent" \/ WriteInStep \/ WriteLags

\* A write that is still to be answered comes before close.
WriteFirst ==
    \/ \E i \in DOMAIN toMod :
         /\ toMod[i].op = "write" /\ "close" \notin Ops(toHost)
         /\ \A j \in DOMAIN toMod : toMod[j].op = "close" => i < j
    \/ \E i \in DOMAIN toHost :
         toHost[i].op = "write" /\ \A j \in DOMAIN toHost : toHost[j].op = "close" => i < j

AtClose ==
    str.op \in {"close", "reset"} =>
        /\ Ops(toMod) \subseteq {"write", "close"} /\ Ops(toHost) \subseteq {"write", "close", "log"}
        /\ AllWritten \/ (str.op = "close" /\ (mod.usb = "absent" \/ WriteFirst))

StreamInv ==
    /\ DOMAIN part = 1 .. Blocks
    /\ ctl = "stream" => StreamTypes /\ BeforeOpen /\ AtOpen /\ AtWrite /\ AtClose
-----------------------------------------------------------------------------
(* firehose_main. *)

FhTypes ==
    /\ flash \in [Parts -> {"old", "erased", "some", "junk", "new"}]
    /\ sent \in Nat /\ on \in {"read", "send", "wait", "data", "end"}
    /\ ~Before => job \in Jobs /\ pass \in DOMAIN NextPass
    /\ ctl = "firehose" => IF on = "read" THEN row = 1 /\ pass = "configure"
                                        ELSE row \in 1 .. Len(job.table)
    /\ ctl = "firehose" /\ on \in {"data", "end"} => pass \in {"program", "sblProgram"}

\* An image under way is that of the step, or of the SBL to the end.
Programs(p) ==
    \/ pass = "program" /\ on \in {"wait", "data", "end"} /\ Wanted /\ p = Cmd.part
    \/ pass \in {"sblProgram", "reset"} /\ p = Sbl

RawKnown ==
    ~Before =>
        /\ raw # None => Programs(raw) /\ raw \in Parts
        /\ \A i \in DOMAIN toMod : toMod[i].op = "program" =>
              Programs(toMod[i].part) /\ toMod[i].part \in Parts

NoRawAnswer == \A i \in DOMAIN toHost : ~(toHost[i].ack /\ toHost[i].raw)
NoRaw == raw = None /\ "program" \notin Ops(toMod) /\ NoRawAnswer

\* The word to begin is still to come, or has come, and is the last.
ToBegin ==
    \/ /\ raw = None /\ NoRawAnswer
       /\ \A i \in DOMAIN toMod : toMod[i].op = "program" =>
             i = Len(toMod) /\ toMod[i].part = Now.part
    \/ /\ raw = Now.part /\ toMod = <<>> /\ flash[raw] = "some" /\ sent = 0
       /\ toHost # <<>>
       /\ \A i \in DOMAIN toHost : toHost[i].ack /\ toHost[i].raw => i = Len(toHost)

Begun == raw = Now.part /\ toHost = <<>> /\ flash[raw] = "some"

RawInStep ==
    ctl = "firehose" /\ pass # "reset" =>
        /\ on = "read" => toMod = <<>> /\ toHost = <<>> /\ raw = None
        /\ on \in {"read", "send"} \/ (on = "wait" /\ Now.op # "program") => NoRaw
        /\ on = "wait" /\ Now.op = "program" => ToBegin
        /\ on \in {"data", "end"} => Now.op = "program" /\ toMod = <<>>
        /\ on \in {"wait", "data", "end"} => Wanted
        /\ on = "data" => /\ mod.usb = "absent" \/ Begun
                          /\ sent < Size[Now.part]
        /\ on = "end" => \/ Begun
                         \/ /\ raw = None /\ Len(toHost) <= 1
                            /\ \A i \in DOMAIN toHost : toHost[i].ack => flash[Now.part] = "new"

\* What the loop has come past.
Over(k) ==
    /\ job.table[k].op = "program" /\ Selected(job.table[k].part) /\ job.table[k].part # Sbl
    /\ (pass = "program" /\ k < row) \/ pass \in {"sblProgram", "reset"}

Programmed ==
    ~Before => \A k \in DOMAIN job.table : Over(k) =>
        /\ Ops(toMod) \cap {"erase", "eraseAll"} = {}
        /\ \/ flash[job.table[k].part] = "new"
           \/ pass = "program" /\ on # "send" /\ Wanted /\ job.table[k].part = Cmd.part

\* Until the SBL is erased nothing else is.
First ==
    ~Before /\ pass \in {"configure", "sblErase"} =>
        /\ \A p \in Parts \ {Sbl} : flash[p] = "old"
        /\ pass = "configure" => flash[Sbl] = "old" /\ Ops(toMod) \subseteq {"configure"}
        /\ pass = "sblErase" =>
              /\ \A i \in DOMAIN toMod : toMod[i].op = "erase" /\ toMod[i].part = Sbl
              /\ \A i \in DOMAIN toHost : toHost[i].ack => flash[Sbl] # "old"
        /\ on \in {"read", "send", "wait"}
        /\ on # "wait" => toMod = <<>> /\ toHost = <<>>
        /\ Len(toMod) + Len(toHost) <= 1

SblErased ==
    ~Before /\ pass \notin {"configure", "sblErase"} /\ Has("erase", Sbl) /\ "erase" \notin ignored
        => flash[Sbl] # "old"

SblLast == flash[Sbl] = "new" => ~Before /\ pass \in {"sblProgram", "reset"}

FhInv ==
    FhTypes /\ RawKnown /\ RawInStep /\ Programmed /\ First /\ SblErased /\ SblLast

IInv ==
    WireInv /\ RetInv /\ LoaderRuns /\ BeforeInv /\ SaharaInv /\ StreamInv /\ FhInv
-----------------------------------------------------------------------------
(* The channels. *)

\* A sequence is a function on 1 .. Len, and empty if its length is 0.
LEMMA SeqFacts ==
    ASSUME NEW q, ASeq(q)
    PROVE  /\ Len(q) \in Nat /\ DOMAIN q = 1 .. Len(q) /\ q \o <<>> = q
           /\ q = <<>> <=> Len(q) = 0
           /\ q = <<>> => Ops(q) = {}
  BY DEF ASeq, Ops

\* What its elements are decides what it is a sequence of.
LEMMA ItsElements ==
    ASSUME NEW S, NEW T, NEW q \in Seq(S), \A i \in 1 .. Len(q) : q[i] \in T
    PROVE  q \in Seq(T)
  OBVIOUS

\* What a message more on its way is.
LEMMA AppendFacts ==
    ASSUME NEW q, ASeq(q), NEW m
    PROVE  /\ ASeq(Append(q, m)) /\ q \o <<m>> = Append(q, m)
           /\ Append(q, m) # <<>>
           /\ Len(Append(q, m)) = Len(q) + 1
           /\ \A i \in DOMAIN Append(q, m) :
                 Append(q, m)[i] = IF i = Len(q) + 1 THEN m ELSE q[i]
           /\ Ops(Append(q, m)) = Ops(q) \cup {m.op}
<1> DEFINE S == Range(q) \cup {m}
           a == Append(q, m)
<1>1. q \in Seq(S) /\ m \in S
  <2>1. Range(q) \subseteq S
    OBVIOUS
  <2>2. q \in Seq(Range(q))
    BY DEF ASeq
  <2>. QED  BY <2>1, <2>2, SeqMonotonic
<1> HIDE DEF S
<1>2. /\ a \in Seq(S) /\ Len(a) = Len(q) + 1 /\ DOMAIN a = 1 .. Len(q) + 1
      /\ \A i \in 1 .. Len(q) : a[i] = q[i]
      /\ a[Len(q) + 1] = m
  BY <1>1, AppendProperties
<1>3. Len(q) \in Nat /\ DOMAIN q = 1 .. Len(q)
  BY <1>1
<1>4. a \in Seq(Range(a))
  <2>1. \A i \in 1 .. Len(a) : a[i] \in Range(a)
    BY <1>2, <1>3 DEF Range
  <2>. QED  BY <2>1, <1>2, ItsElements
<1>5. q \o <<m>> = a
  BY <1>1
<1>6. a # <<>>
  BY <1>2, <1>3
<1>7. Ops(a) = Ops(q) \cup {m.op}
  BY <1>2, <1>3 DEF Ops
<1> QED  BY <1>2, <1>3, <1>4, <1>5, <1>6, <1>7 DEF ASeq

\* What a message less is.
LEMMA TailFacts ==
    ASSUME NEW q, ASeq(q), q # <<>>
    PROVE  /\ ASeq(Tail(q)) /\ Len(q) >= 1 /\ Head(q) = q[1]
           /\ Len(Tail(q)) = Len(q) - 1
           /\ \A i \in DOMAIN Tail(q) : i + 1 \in DOMAIN q /\ Tail(q)[i] = q[i + 1]
           /\ \A i \in DOMAIN q : i = 1 \/ (i - 1 \in DOMAIN Tail(q) /\ Tail(q)[i - 1] = q[i])
           /\ Ops(q) = Ops(Tail(q)) \cup {q[1].op}
<1> DEFINE t == Tail(q)
<1>1. /\ q \in Seq(Range(q)) /\ Len(q) \in Nat /\ Len(q) >= 1 /\ DOMAIN q = 1 .. Len(q)
      /\ t \in Seq(Range(q)) /\ Len(t) = Len(q) - 1 /\ DOMAIN t = 1 .. Len(q) - 1
      /\ Head(q) = q[1]
  BY DEF ASeq
<1>2. \A i \in 1 .. Len(q) - 1 : t[i] = q[i + 1]
  BY <1>1
<1>3. t \in Seq(Range(t))
  <2>1. \A i \in 1 .. Len(t) : t[i] \in Range(t)
    BY <1>1 DEF Range
  <2>. QED  BY <2>1, <1>1, ItsElements
<1>4. \A i \in DOMAIN q : i = 1 \/ (i - 1 \in DOMAIN t /\ t[i - 1] = q[i])
  BY <1>1, <1>2
<1>5. Ops(q) = Ops(t) \cup {q[1].op}
  <2>1. \A i \in DOMAIN t : t[i].op \in Ops(q)
    BY <1>1, <1>2 DEF Ops
  <2>2. q[1].op \in Ops(q)
    BY <1>1 DEF Ops
  <2>3. \A i \in DOMAIN q : q[i].op \in Ops(t) \cup {q[1].op}
    BY <1>4 DEF Ops
  <2>. QED  BY <2>1, <2>2, <2>3 DEF Ops
<1> QED  BY <1>1, <1>2, <1>3, <1>4, <1>5 DEF ASeq

\* Nothing on its way.
LEMMA EmptyASeq == ASeq(<<>>) /\ Ops(<<>>) = {}
  BY DEF ASeq, Ops

\* One message.
LEMMA OneASeq ==
    ASSUME NEW m
    PROVE  ASeq(<<m>>) /\ Len(<<m>>) = 1 /\ <<m>>[1] = m /\ Ops(<<m>>) = {m.op}
  BY DEF ASeq, Ops, Range
-----------------------------------------------------------------------------
\* Nothing has begun.
LEMMA InitInv == Init => IInv
<1> SUFFICES ASSUME Init PROVE IInv
  OBVIOUS
<1> USE DEF Init, SaharaInit, StreamInit, FirehoseInit
<1>1. /\ toMod = <<>> /\ toHost = <<>> /\ ctl = "main" /\ ret = [by |-> "none", ok |-> TRUE]
      /\ Before /\ Searching
  BY DEF Before, Searching
<1>2. WireInv /\ RetInv /\ LoaderRuns
  BY <1>1, EmptyASeq DEF WireInv, RetInv, LoaderRuns, UsbModes
<1>3. BeforeInv /\ SaharaInv /\ StreamInv
  BY <1>1, EmptyASeq DEF BeforeInv, SaharaInv, StreamInv, Unwritten
<1>4. FhInv
  <2>1. Sbl \in Parts
    BY FirehoseAssumption
  <2>. QED  BY <1>1, <2>1 DEF FhInv, FhTypes, RawKnown, RawInStep, Programmed, First, SblErased, SblLast
<1> QED  BY <1>2, <1>3, <1>4 DEF IInv

-----------------------------------------------------------------------------
(* What is on its way is a sequence of messages, and nothing if the module *)
(* is gone.                                                                *)

\* qusb_noblock_write leaves a sequence of messages.
LEMMA WriteASeq ==
    ASSUME ASeq(toMod), NEW m, NEW ok, Write(m, ok)
    PROVE  ASeq(toMod') /\ (mod.usb = "absent" => toMod' = toMod)
  BY AppendFacts DEF Write

\* So does qusb_noblock_read.
LEMMA ConsumeASeq ==
    ASSUME ASeq(toHost), Incoming, Consume
    PROVE  ASeq(toHost') /\ toHost # <<>>
  BY TailFacts DEF Incoming, Consume

\* What the module takes and answers.
LEMMA AnswersFacts ==
    ASSUME ASeq(toMod), ASeq(toHost), NEW r, Takes(r), NEW m, Answers(<<m>>)
    PROVE  /\ toMod # <<>> /\ Order = toMod[1] /\ mod.usb # "absent"
           /\ toMod' = Tail(toMod) /\ toHost' = Append(toHost, m)
<1>1. toMod # <<>> /\ toMod' = Tail(toMod) /\ toHost' = toHost \o <<m>> /\ mod.usb # "absent"
  BY DEF Takes, Answers
<1>2. toHost \o <<m>> = Append(toHost, m)
  BY AppendFacts
<1> QED  BY <1>1, <1>2, TailFacts DEF Order

\* The answer is one of a sequence.
LEMMA AnswersASeq ==
    ASSUME ASeq(toMod), ASeq(toHost), NEW r, Takes(r), NEW m, Answers(<<m>>)
    PROVE  ASeq(toMod') /\ ASeq(toHost') /\ mod.usb # "absent"
<1>1. toMod # <<>> /\ mod.usb # "absent" /\ toMod' = Tail(toMod) /\ toHost' = Append(toHost, m)
  BY AnswersFacts
<1>2. ASeq(Tail(toMod)) /\ ASeq(Append(toHost, m))
  BY <1>1, TailFacts, AppendFacts
<1> QED  BY <1>1, <1>2

\* A module that is gone has nothing on its way.
LEMMA WireKept == IInv /\ [Next]_vars => WireInv'
<1> SUFFICES ASSUME IInv, [Next]_vars PROVE WireInv'
  OBVIOUS
<1>w. /\ ASeq(toMod) /\ ASeq(toHost) /\ mod \in [usb : UsbModes, runs : {"app", "boot", "loader"}]
      /\ mod.usb = "absent" => toMod = <<>> /\ toHost = <<>> /\ raw = None
  BY DEF IInv, WireInv
<1>0. CASE UNCHANGED <<wire, mod, raw>>
  BY <1>0, <1>w DEF WireInv
<1>b. ASSUME NEW what, Boots(what), raw' = None,
             what \subseteq [usb : UsbModes, runs : {"app", "boot", "loader"}]
      PROVE  WireInv'
  BY <1>b, EmptyASeq DEF WireInv, Boots
<1>1. CASE MainNext
  <2>1. CASE FoundReady \/ NotFound \/ GivesUp \/ AfterSahara \/ Finish
    <3>1. UNCHANGED <<wire, mod, raw>>
      BY <2>1 DEF FoundReady, NotFound, GivesUp, AfterSahara, Finish, SaharaStart, FirehoseStart, StreamStart
    <3>. QED  BY <3>1, <1>0
  <2>2. CASE SentToEdl
    <3>1. CASE UNCHANGED <<wire, mod>>
      BY <3>1, <2>2, <1>0 DEF SentToEdl
    <3>2. CASE Boots([usb : {"dload", "edl"}, runs : {"boot"}])
      BY <3>2, <2>2, EmptyASeq DEF SentToEdl, Boots, WireInv, UsbModes
    <3>. QED  BY <2>2, <3>1, <3>2 DEF SentToEdl
  <2>. QED  BY <1>1, <2>1, <2>2 DEF MainNext
<1>2. CASE SaharaNext /\ UNCHANGED <<strVars, fhVars, mainVars>>
  <2>1. CASE HelloLate
    <3>1. toHost = <<>> /\ UNCHANGED <<toHost, mod, raw>>
      BY <1>2, <2>1 DEF HelloLate, NothingRead
    <3>2. UNCHANGED toMod \/ \E ok \in BOOLEAN : Write([op |-> "nudge"], ok)
      BY <2>1 DEF HelloLate
    <3>. QED  BY <3>1, <3>2, <1>w, WriteASeq DEF WireInv
  <2>2. CASE Hello
    <3>1. Incoming /\ Consume /\ UNCHANGED <<mod, raw>>
      BY <1>2, <2>2 DEF Hello
    <3>2. \E ok \in BOOLEAN : Write([op |-> "reset"], ok) \/ Write([op |-> "helloResp"], ok)
      BY <2>2 DEF Hello
    <3>. QED  BY <3>1, <3>2, <1>w, WriteASeq, ConsumeASeq DEF WireInv
  <2>3. CASE Command
    <3>1. Incoming /\ Consume /\ UNCHANGED <<mod, raw>>
      BY <1>2, <2>3 DEF Command
    <3>2. \/ UNCHANGED toMod
          \/ \E ok \in BOOLEAN, m \in {[op |-> "data", range |-> Msg.range], [op |-> "done"], [op |-> "reset"]} :
                Write(m, ok)
      BY <2>3 DEF Command
    <3>. QED  BY <3>1, <3>2, <1>w, WriteASeq, ConsumeASeq DEF WireInv
  <2>4. CASE Done \/ CommandLate
    <3>1. UNCHANGED <<toMod, mod, raw>> /\ (UNCHANGED toHost \/ (Incoming /\ Consume))
      BY <1>2, <2>4 DEF Done, CommandLate, NothingRead
    <3>. QED  BY <3>1, <1>w, ConsumeASeq DEF WireInv
  <2>5. CASE RomHello
    <3>1. UNCHANGED <<toMod, mod, raw>> /\ toHost' = <<[op |-> "hello"]>> /\ mod.usb # "absent"
      BY <1>2, <2>5 DEF RomHello
    <3>. QED  BY <3>1, <1>w, OneASeq DEF WireInv
  <2>6. CASE RomTakes
    <3>1. /\ Takes("boot") /\ UNCHANGED raw /\ raw = None
          /\ (\E m : Answers(<<m>>)) \/ Boots({Gone})
      <4>1. raw = None
        BY <2>6, <1>w DEF IInv, RomTakes, RetInv, LoaderRuns, Takes, BeforeInv, Before
      <4>2. CASE Order.op \in {"nudge", "helloResp", "data", "done"}
        <5>1. \E m : Answers(<<m>>)
          BY <2>6, <4>2 DEF RomTakes
        <5>. QED  BY <5>1, <1>2, <2>6, <4>1 DEF RomTakes
      <4>3. CASE Order.op \notin {"nudge", "helloResp", "data", "done"}
        BY <1>2, <2>6, <4>1, <4>3 DEF RomTakes
      <4>. QED  BY <4>2, <4>3
    <3>2. CASE \E m : Answers(<<m>>)
      <4>1. ASeq(toMod') /\ ASeq(toHost') /\ mod.usb # "absent"
        BY <3>1, <3>2, <1>w, AnswersASeq
      <4>2. CASE mod' = mod \/ mod' = [mod EXCEPT !.runs = "loader"]
        BY <4>1, <4>2, <3>1, <1>w DEF WireInv
      <4>3. CASE Boots({Gone})
        BY <4>3, <3>1, <1>b DEF Gone, UsbModes
      <4>. QED  BY <2>6, <4>2, <4>3 DEF RomTakes
    <3>3. CASE Boots({Gone})
      BY <3>3, <3>1, <1>b DEF Gone, UsbModes
    <3>. QED  BY <3>1, <3>2, <3>3
  <2>. QED  BY <1>2, <2>1, <2>2, <2>3, <2>4, <2>5, <2>6 DEF SaharaNext
<1>3. CASE StreamNext /\ UNCHANGED <<sahVars, fhVars, mainVars>>
  <2>1. CASE NoFile
    BY <2>1, <1>3, <1>0 DEF NoFile
  <2>2. CASE SendRequest
    <3>1. UNCHANGED <<toHost, mod, raw>> /\ \E ok \in BOOLEAN : Write(Packet, ok)
      BY <1>3, <2>2 DEF SendRequest
    <3>. QED  BY <3>1, <1>w, WriteASeq DEF WireInv
  <2>3. CASE ReadAnswer \/ AnswerLate
    <3>1. UNCHANGED <<toMod, mod, raw>> /\ (UNCHANGED toHost \/ (Incoming /\ Consume))
      BY <1>3, <2>3 DEF ReadAnswer, AnswerLate, NothingRead
    <3>. QED  BY <3>1, <1>w, ConsumeASeq DEF WireInv
  <2>4. CASE StreamTakes
    <3>1. Takes("loader") /\ UNCHANGED <<mod, raw>> /\ \E m : Answers(<<m>>)
      BY <1>3, <2>4 DEF StreamTakes
    <3>. QED  BY <3>1, <1>w, AnswersASeq DEF WireInv
  <2>5. CASE StreamLog
    <3>1. mod.usb # "absent" /\ UNCHANGED <<toMod, mod, raw>> /\ \E m : toHost' = Append(toHost, m)
      BY <1>3, <2>5 DEF StreamLog
    <3>. QED  BY <3>1, <1>w, AppendFacts DEF WireInv
  <2>. QED  BY <1>3, <2>1, <2>2, <2>3, <2>4, <2>5 DEF StreamNext
<1>4. CASE FirehoseNext /\ UNCHANGED <<sahVars, strVars, mainVars>>
  <2>1. CASE Fixup
    BY <2>1, <1>4, <1>w, EmptyASeq DEF Fixup, WireInv
  <2>2. CASE NextRound \/ SendChunk
    BY <2>2, <1>4, <1>0 DEF NextRound, SendChunk
  <2>3. CASE SendCommand
    <3>1. UNCHANGED <<toHost, mod, raw>> /\ \E ok \in BOOLEAN : Write(Now, ok)
      BY <1>4, <2>3 DEF SendCommand
    <3>. QED  BY <3>1, <1>w, WriteASeq DEF WireInv
  <2>4. CASE ReadResponse \/ NoResponse
    <3>1. UNCHANGED <<toMod, mod, raw>> /\ (UNCHANGED toHost \/ (Incoming /\ Consume))
      BY <1>4, <2>4 DEF ReadResponse, NoResponse, NothingRead
    <3>. QED  BY <3>1, <1>w, ConsumeASeq DEF WireInv
  <2>5. CASE LoaderTakes
    <3>1. Takes("loader") /\ UNCHANGED mod /\ mod.usb # "absent"
      BY <1>4, <2>5 DEF LoaderTakes, Takes
    <3>2. (\E m : Answers(<<m>>)) \/ Answers(<<>>)
      BY <2>5 DEF LoaderTakes
    <3>3. CASE Answers(<<>>)
      BY <3>1, <3>3, <1>w, TailFacts, SeqFacts DEF WireInv, Answers, Takes
    <3>. QED  BY <3>1, <3>2, <3>3, <1>w, AnswersASeq DEF WireInv
  <2>6. CASE LoaderHasImage
    <3>1. mod.usb # "absent" /\ UNCHANGED <<toMod, mod>> /\ \E m : toHost' = Append(toHost, m)
      BY <1>4, <2>6 DEF LoaderHasImage
    <3>. QED  BY <3>1, <1>w, AppendFacts DEF WireInv
  <2>. QED  BY <1>4, <2>1, <2>2, <2>3, <2>4, <2>5, <2>6 DEF FirehoseNext
<1>5. CASE ModuleBoots
  <2>1. raw' = None /\ \E what \in {{Gone}, [usb : UsbModes \ {"absent"}, runs : {"boot"}]} : Boots(what)
    BY <1>5 DEF ModuleBoots
  <2>2. Gone \in [usb : UsbModes, runs : {"app", "boot", "loader"}]
    BY DEF Gone, UsbModes
  <2>. QED  BY <2>1, <2>2, <1>b
<1>6. CASE Terminated \/ UNCHANGED vars
  BY <1>6, <1>0 DEF Terminated
<1> QED  BY <1>1, <1>2, <1>3, <1>4, <1>5, <1>6 DEF Next
-----------------------------------------------------------------------------
(* What the functions return, and what is on its way then.                 *)

\* A function returns once, with what is true then.
LEMMA RetKept == IInv /\ [Next]_vars => RetInv'
<1> SUFFICES ASSUME IInv, [Next]_vars PROVE RetInv'
  OBVIOUS
<1>w. WireInv /\ RetInv
  BY DEF IInv
<1>0. CASE UNCHANGED <<ctl, ret, toMod, toHost, part, pass>>
  BY <1>0, <1>w DEF RetInv, AllWritten
<1>1. CASE MainNext
  <2>1. CASE FoundReady \/ SentToEdl \/ NotFound \/ GivesUp
    BY <2>1, <1>w DEF FoundReady, SentToEdl, NotFound, GivesUp, Searching, SaharaStart, Return, RetInv, AllWritten
  <2>2. CASE AfterSahara \/ Finish
    BY <2>2, <1>w DEF AfterSahara, Finish, FirehoseStart, StreamStart, RetInv, AllWritten
  <2>. QED  BY <1>1, <2>1, <2>2 DEF MainNext
<1>2. CASE SaharaNext /\ UNCHANGED <<strVars, fhVars, mainVars>>
  <2>1. CASE HelloLate \/ Hello \/ CommandLate
    BY <1>2, <2>1, <1>w DEF HelloLate, Hello, CommandLate, Running, Stay, Return, RetInv, AllWritten
  <2>2. CASE Command
    <3>1. ctl = "sahara" /\ ((UNCHANGED ctl /\ UNCHANGED ret) \/ Return("sahara", FALSE))
      BY <2>2 DEF Command, Running, Stay
    <3>. QED  BY <1>2, <3>1, <1>w DEF Return, RetInv, AllWritten
  <2>3. CASE Done
    <3>1. ctl = "sahara" /\ toHost # <<>> /\ toHost' = Tail(toHost) /\ toMod' = toMod
      BY <2>3 DEF Done, Running, Incoming, Consume
    <3>2. Msg.op # "doneResp" => Return("sahara", FALSE)
      BY <2>3 DEF Done
    <3>3. CASE Msg.op # "doneResp"
      BY <1>2, <3>1, <3>2, <3>3, <1>w DEF Return, RetInv, AllWritten
    <3>4. CASE Msg.op = "doneResp"
      <4>1. 1 \in DOMAIN toHost /\ toHost[1].op = "doneResp" /\ ASeq(Tail(toHost))
            /\ Len(Tail(toHost)) = Len(toHost) - 1
        BY <3>1, <3>4, <1>w, TailFacts, SeqFacts DEF WireInv, Msg
      <4>2. Len(toHost) = 1 /\ toMod = <<>>
        BY <4>1, <3>1 DEF IInv, SaharaInv
      <4>3. toMod' = <<>> /\ toHost' = <<>>
        <5>1. Len(Tail(toHost)) = 0
          BY <4>1, <4>2
        <5>2. Tail(toHost) = <<>>
          BY <5>1, <4>1, SeqFacts
        <5>. QED  BY <5>2, <4>2, <3>1
      <4>. QED  BY <1>2, <2>3, <4>3, <1>w DEF Done, Return, RetInv, AllWritten
    <3>. QED  BY <3>3, <3>4
  <2>4. CASE RomHello
    BY <1>2, <2>4, <1>w DEF RomHello, Running, RetInv, AllWritten
  <2>5. CASE RomTakes
    <3>1. UNCHANGED <<ctl, ret, part, pass>> /\ toMod # <<>>
      BY <1>2, <2>5 DEF RomTakes, Takes
    <3>. QED  BY <3>1, <1>w DEF RetInv, AllWritten
  <2>. QED  BY <1>2, <2>1, <2>2, <2>3, <2>4, <2>5 DEF SaharaNext
<1>3. CASE StreamNext /\ UNCHANGED <<sahVars, fhVars, mainVars>>
  <2>1. CASE NoFile \/ ReadAnswer \/ AnswerLate
    BY <1>3, <2>1, <1>w DEF NoFile, ReadAnswer, AnswerLate, Failed, Running, Stay, Return, RetInv, AllWritten
  <2>2. CASE SendRequest
    <3>1. str.op = "reset" => AllWritten
      BY <2>2 DEF IInv, StreamInv, AtClose, SendRequest, Running
    <3>2. str.op # "reset" => Stay \/ Return("stream", FALSE)
      BY <2>2 DEF SendRequest
    <3>3. str.op = "reset" => Return("stream", TRUE)
      BY <2>2 DEF SendRequest
    <3>4. ctl = "stream" /\ UNCHANGED <<part, pass>>
      BY <2>2, <1>3 DEF SendRequest, Running
    <3>. QED  BY <3>1, <3>2, <3>3, <3>4, <1>w DEF RetInv, AllWritten, Return, Stay
  <2>3. CASE StreamTakes \/ StreamLog
    BY <1>3, <2>3, <1>w DEF StreamTakes, StreamLog, Running, RetInv
  <2>. QED  BY <1>3, <2>1, <2>2, <2>3 DEF StreamNext
<1>4. CASE FirehoseNext /\ UNCHANGED <<sahVars, strVars, mainVars>>
  <2>1. CASE Fixup \/ NextRound \/ SendCommand \/ SendChunk \/ NoResponse
    <3>1. ctl = "firehose" /\ ((UNCHANGED ctl /\ UNCHANGED ret) \/ Return("firehose", FALSE)
                               \/ (ctl' = "crashed" /\ UNCHANGED ret))
      BY <2>1 DEF Fixup, NextRound, StepDone, SendCommand, SendChunk, NoResponse, StepFails, Stay, Running
    <3>. QED  BY <3>1, <1>4, <1>w DEF RetInv, Return, AllWritten
  <2>2. CASE ReadResponse
    <3>1. ctl = "firehose"
      BY <2>2 DEF ReadResponse, Running
    <3>2. CASE Now.op = "reset"
      <4>1. Return("firehose", TRUE) /\ UNCHANGED pass
        BY <2>2, <3>2 DEF ReadResponse
      <4>2. pass = "reset"
        BY <3>2 DEF Now
      <4>. QED  BY <4>1, <4>2, <3>1, <1>4, <1>w DEF RetInv, Return, AllWritten
    <3>3. CASE Now.op # "reset"
      <4>1. (UNCHANGED ctl /\ UNCHANGED ret) \/ Return("firehose", FALSE)
        BY <2>2, <3>3 DEF ReadResponse, StepFails, StepDone, Stay
      <4>. QED  BY <4>1, <3>1, <1>4, <1>w DEF RetInv, Return, AllWritten
    <3>. QED  BY <3>2, <3>3
  <2>3. CASE LoaderTakes
    BY <1>4, <2>3, <1>w DEF LoaderTakes, RetInv, AllWritten
  <2>4. CASE LoaderHasImage
    <3>1. ~Before
      BY <2>4 DEF LoaderHasImage, IInv, BeforeInv
    <3>2. UNCHANGED <<ctl, ret, part, pass>>
      BY <1>4, <2>4 DEF LoaderHasImage
    <3>. QED  BY <3>1, <3>2, <1>w DEF Before, RetInv, AllWritten
  <2>. QED  BY <1>4, <2>1, <2>2, <2>3, <2>4 DEF FirehoseNext
<1>5. CASE ModuleBoots
  BY <1>5, <1>w DEF ModuleBoots, Boots, RetInv, AllWritten
<1>6. CASE Terminated \/ UNCHANGED vars
  BY <1>6, <1>0 DEF Terminated
<1> QED  BY <1>1, <1>2, <1>3, <1>4, <1>5, <1>6 DEF Next

\* No way leads out of a download but with its result.
LEMMA LoaderKept == IInv /\ [Next]_vars => LoaderRuns'
<1> SUFFICES ASSUME IInv, [Next]_vars PROVE LoaderRuns'
  OBVIOUS
<1>w. WireInv /\ RetInv /\ LoaderRuns
  BY DEF IInv
<1>0. CASE UNCHANGED <<ctl, ret, mod>>
  BY <1>0, <1>w DEF LoaderRuns
<1>1. CASE MainNext
  <2>1. CASE FoundReady \/ SentToEdl \/ NotFound \/ GivesUp
    BY <2>1, <1>w DEF FoundReady, SentToEdl, NotFound, GivesUp, Searching, SaharaStart, Return,
                    Boots, LoaderRuns, RetInv
  <2>2. CASE AfterSahara \/ Finish
    BY <2>2, <1>w DEF AfterSahara, Finish, FirehoseStart, StreamStart, LoaderRuns
  <2>. QED  BY <1>1, <2>1, <2>2 DEF MainNext
<1>2. CASE SaharaNext /\ UNCHANGED <<strVars, fhVars, mainVars>>
  <2>1. CASE HelloLate \/ Hello \/ CommandLate
    BY <1>2, <2>1, <1>w DEF HelloLate, Hello, CommandLate, Running, Stay, Return, LoaderRuns, RetInv
  <2>2. CASE Command
    <3>1. ctl = "sahara" /\ UNCHANGED mod /\ ((UNCHANGED ctl /\ UNCHANGED ret) \/ Return("sahara", FALSE))
      BY <2>2 DEF Command, Running, Stay
    <3>. QED  BY <3>1, <1>w DEF Return, LoaderRuns, RetInv
  <2>3. CASE Done
    <3>1. ctl = "sahara" /\ toHost # <<>> /\ UNCHANGED mod
      BY <2>3 DEF Done, Running, Incoming
    <3>2. CASE Msg.op # "doneResp"
      BY <3>1, <3>2, <2>3 DEF Done, Return, LoaderRuns
    <3>3. CASE Msg.op = "doneResp"
      <4>1. 1 \in DOMAIN toHost /\ toHost[1].op = "doneResp"
        BY <3>1, <3>3, <1>w, TailFacts, SeqFacts DEF WireInv, Msg
      <4>. QED  BY <4>1, <3>1 DEF IInv, SaharaInv, LoaderRuns
    <3>. QED  BY <3>2, <3>3
  <2>4. CASE RomHello
    BY <1>2, <2>4, <1>0 DEF RomHello
  <2>5. CASE RomTakes
    BY <2>5, <1>w DEF RomTakes, Takes, LoaderRuns
  <2>. QED  BY <1>2, <2>1, <2>2, <2>3, <2>4, <2>5 DEF SaharaNext
<1>3. CASE StreamNext /\ UNCHANGED <<sahVars, fhVars, mainVars>>
  <2>1. /\ ctl = "stream" /\ UNCHANGED mod
        /\ (UNCHANGED ctl /\ UNCHANGED ret) \/ \E ok \in BOOLEAN : Return("stream", ok)
    BY <1>3 DEF StreamNext, NoFile, SendRequest, ReadAnswer, AnswerLate, StreamTakes, StreamLog, Failed, Running, Stay
  <2>. QED  BY <2>1, <1>w DEF Return, LoaderRuns, RetInv
<1>4. CASE FirehoseNext /\ UNCHANGED <<sahVars, strVars, mainVars>>
  <2>1. CASE Fixup \/ NextRound \/ SendCommand \/ SendChunk \/ NoResponse \/ ReadResponse
    <3>1. ctl = "firehose" /\ UNCHANGED mod
      BY <2>1 DEF Fixup, NextRound, SendCommand, SendChunk, NoResponse, ReadResponse, Running
    <3>. QED  BY <3>1, <1>w DEF LoaderRuns
  <2>2. CASE LoaderTakes \/ LoaderHasImage
    BY <2>2, <1>0 DEF LoaderTakes, LoaderHasImage
  <2>. QED  BY <1>4, <2>1, <2>2 DEF FirehoseNext
<1>5. CASE ModuleBoots
  BY <1>5, <1>w DEF ModuleBoots, Boots, Gone, Searching, LoaderRuns, RetInv
<1>6. CASE Terminated \/ UNCHANGED vars
  BY <1>6, <1>0 DEF Terminated
<1> QED  BY <1>1, <1>2, <1>3, <1>4, <1>5, <1>6 DEF Next
-----------------------------------------------------------------------------
(* Before Firehose.                                                        *)

\* Only what is written is added.
LEMMA WriteOps ==
    ASSUME ASeq(toMod), NEW m, NEW ok, Write(m, ok)
    PROVE  Ops(toMod') \subseteq Ops(toMod) \cup {m.op}
<1>1. toMod' = toMod \/ toMod' = Append(toMod, m)
  BY DEF Write
<1> QED  BY <1>1, AppendFacts

\* sahara_main writes nothing that touches the flash.
LEMMA SaharaOps ==
    ASSUME WireInv, HelloLate \/ Hello \/ Command \/ Done \/ CommandLate \/ RomHello
    PROVE  Ops(toMod') \subseteq Ops(toMod) \cup {"nudge", "reset", "helloResp", "data", "done"}
<1>1. CASE UNCHANGED toMod
  BY <1>1
<1>2. ASSUME ~UNCHANGED toMod
      PROVE  \E ok \in BOOLEAN, m \in {[op |-> "nudge"], [op |-> "reset"], [op |-> "helloResp"],
                [op |-> "data", range |-> Msg.range], [op |-> "done"]} : Write(m, ok)
  BY <1>2 DEF HelloLate, Hello, Command, Done, CommandLate, RomHello, NothingRead
<1> QED  BY <1>1, <1>2, WriteOps DEF WireInv

\* The flash is left alone until Firehose.
LEMMA BeforeKept == IInv /\ [Next]_vars => BeforeInv'
<1> SUFFICES ASSUME IInv, [Next]_vars, Before' PROVE BeforeInv'
  BY DEF BeforeInv
<1>w. WireInv /\ RetInv /\ BeforeInv /\ LoaderRuns
  BY DEF IInv
<1>0. ASSUME Before, UNCHANGED fhVars, Ops(toMod') \cap {"erase", "eraseAll", "program"} = {}
      PROVE  BeforeInv'
  BY <1>0, <1>w DEF BeforeInv
<1>1. CASE MainNext
  <2>1. Before
    <3>1. CASE FoundReady \/ SentToEdl \/ NotFound
      BY <3>1 DEF FoundReady, SentToEdl, NotFound, Searching, Before
    <3>3. CASE GivesUp
      BY <3>3 DEF GivesUp, Searching, Before
    <3>4. CASE AfterSahara
      <4>1. ctl = "main" /\ ret = [by |-> "sahara", ok |-> TRUE]
        BY <3>4 DEF AfterSahara
      <4>. QED  BY <4>1 DEF Before
    <3>2. CASE Finish
      BY <3>2 DEF Finish, Before
    <3>. QED  BY <1>1, <3>1, <3>2, <3>3, <3>4 DEF MainNext
  <2>2. CASE FoundReady \/ NotFound \/ GivesUp
    BY <2>1, <2>2, <1>0, <1>w DEF FoundReady, NotFound, GivesUp, SaharaStart, BeforeInv
  <2>3. CASE SentToEdl
    <3>1. toMod' = toMod \/ toMod' = <<>>
      BY <2>3 DEF SentToEdl, Boots
    <3>. QED  BY <3>1, <2>1, <2>3, <1>0, <1>w, EmptyASeq DEF SentToEdl, BeforeInv
  <2>4. CASE AfterSahara
    <3>1. ctl' # "firehose"
      BY DEF Before
    <3>. QED  BY <3>1, <2>1, <2>4, <1>0, <1>w DEF AfterSahara, StreamStart, FirehoseStart, BeforeInv
  <2>5. CASE Finish
    BY <2>1, <2>5, <1>w DEF Finish, BeforeInv
  <2>. QED  BY <1>1, <2>2, <2>3, <2>4, <2>5 DEF MainNext
<1>2. CASE SaharaNext /\ UNCHANGED <<strVars, fhVars, mainVars>>
  <2>1. CASE RomTakes
    <3>1. Before /\ UNCHANGED fhVars
      BY <2>1, <1>2 DEF RomTakes, Before
    <3>2. toMod' = Tail(toMod) \/ toMod' = <<>>
      BY <2>1 DEF RomTakes, Answers, Boots
    <3>3. toMod # <<>>
      BY <2>1 DEF RomTakes, Takes
    <3>4. Ops(toMod') \subseteq Ops(toMod)
      BY <3>2, <3>3, <1>w, TailFacts, EmptyASeq DEF WireInv
    <3>. QED  BY <3>1, <3>4, <1>0, <1>w DEF BeforeInv
  <2>2. CASE HelloLate \/ Hello \/ Command \/ Done \/ CommandLate \/ RomHello
    <3>1. Before
      BY <2>2 DEF HelloLate, Hello, Command, Done, CommandLate, RomHello, Running, Before
    <3>. QED  BY <3>1, <2>2, <1>2, <1>0, <1>w, SaharaOps DEF BeforeInv
  <2>. QED  BY <1>2, <2>1, <2>2 DEF SaharaNext
<1>3. CASE StreamNext /\ UNCHANGED <<sahVars, fhVars, mainVars>>
  <2>1. ctl = "stream" /\ Before
    BY <1>3 DEF StreamNext, NoFile, SendRequest, ReadAnswer, AnswerLate, StreamTakes, StreamLog, Running, Before
  <2>2. CASE UNCHANGED toMod
    BY <2>1, <2>2, <1>0, <1>3, <1>w DEF BeforeInv
  <2>3. CASE SendRequest
    <3>1. str.op \in StreamOps
      BY <2>1 DEF IInv, StreamInv, StreamTypes
    <3>2. \E ok \in BOOLEAN : Write(Packet, ok)
      BY <2>3 DEF SendRequest
    <3>3. Packet.op = str.op
      BY DEF Packet
    <3>4. Ops(toMod') \subseteq Ops(toMod) \cup {str.op}
      BY <3>2, <3>3, <1>w, WriteOps DEF WireInv
    <3>. QED  BY <3>1, <3>4, <2>1, <1>0, <1>3, <1>w DEF BeforeInv, StreamOps, Early
  <2>4. CASE StreamTakes
    <3>1. toMod' = Tail(toMod) /\ toMod # <<>>
      BY <2>4 DEF StreamTakes, Takes, Answers
    <3>2. Ops(toMod') \subseteq Ops(toMod)
      BY <3>1, <1>w, TailFacts DEF WireInv
    <3>. QED  BY <3>2, <2>1, <1>0, <1>3, <1>w DEF BeforeInv
  <2>. QED  BY <1>3, <2>2, <2>3, <2>4 DEF StreamNext, NoFile, ReadAnswer, AnswerLate, StreamLog, NothingRead
<1>4. CASE FirehoseNext /\ UNCHANGED <<sahVars, strVars, mainVars>>
  <2>1. CASE Fixup \/ NextRound \/ SendCommand \/ SendChunk \/ NoResponse \/ ReadResponse
    <3>1. ctl = "firehose"
      BY <2>1 DEF Fixup, NextRound, SendCommand, SendChunk, NoResponse, ReadResponse, Running
    <3>2. ctl' \in {"firehose", "crashed"} \/ \E ok \in BOOLEAN : Return("firehose", ok)
      BY <3>1, <2>1 DEF Fixup, NextRound, StepDone, SendCommand, SendChunk, NoResponse, ReadResponse, StepFails, Stay
    <3>. QED  BY <3>2 DEF Before, Return
  <2>2. CASE LoaderTakes
    <3>1. toMod # <<>> /\ toMod' = Tail(toMod)
      BY <2>2 DEF LoaderTakes, Takes, Answers
    <3>2. toMod # <<>> /\ toMod' = Tail(toMod) /\ Before
      BY <2>2, <3>1 DEF LoaderTakes, Before
    <3>3. Order.op \in Ops(toMod) /\ Ops(toMod') \subseteq Ops(toMod)
      BY <3>2, <1>w, TailFacts DEF WireInv, Order
    <3>4. Order.op \notin {"erase", "eraseAll", "program"} /\ raw = None
      BY <3>2, <3>3, <1>w DEF BeforeInv
    <3>5. UNCHANGED <<raw, flash, pass, row, on>>
      BY <2>2, <3>4 DEF LoaderTakes
    <3>. QED  BY <3>2, <3>3, <3>5, <1>w DEF BeforeInv
  <2>3. CASE LoaderHasImage
    <3>1. ~Before
      BY <2>3, <1>w DEF LoaderHasImage, BeforeInv
    <3>2. UNCHANGED <<ctl, ret>>
      BY <2>3 DEF LoaderHasImage
    <3>. QED  BY <3>1, <3>2 DEF Before
  <2>. QED  BY <1>4, <2>1, <2>2, <2>3 DEF FirehoseNext
<1>5. CASE ModuleBoots
  BY <1>5, <1>w, EmptyASeq DEF ModuleBoots, Boots, Before, BeforeInv
<1>6. CASE Terminated \/ UNCHANGED vars
  BY <1>6, <1>0, <1>w DEF Terminated, Before, BeforeInv
<1> QED  BY <1>1, <1>2, <1>3, <1>4, <1>5, <1>6 DEF Next

\* The answer to DONE is the last of sahara_main.
LEMMA SaharaKept == IInv /\ [Next]_vars => SaharaInv'
<1> SUFFICES ASSUME IInv, [Next]_vars, ctl' = "sahara" \/ Searching' PROVE SaharaInv'
  BY DEF SaharaInv
<1>w. WireInv /\ RetInv /\ SaharaInv /\ LoaderRuns
  BY DEF IInv
<1>f. /\ DOMAIN toMod = 1 .. Len(toMod) /\ DOMAIN toHost = 1 .. Len(toHost)
      /\ Len(toMod) \in Nat /\ Len(toHost) \in Nat
  BY <1>w, SeqFacts DEF WireInv
<1>o. (\A i \in DOMAIN toMod : toMod[i].op # "done") <=> "done" \notin Ops(toMod)
  BY DEF Ops
<1>h. (\A i \in DOMAIN toHost : toHost[i].op # "doneResp") <=> "doneResp" \notin Ops(toHost)
  BY DEF Ops
<1>p. /\ (\A i \in DOMAIN toMod' : (toMod')[i].op # "done") <=> "done" \notin Ops(toMod')
      /\ (\A i \in DOMAIN toHost' : (toHost')[i].op # "doneResp") <=> "doneResp" \notin Ops(toHost')
  BY DEF Ops
<1>c. ASSUME "done" \notin Ops(toMod'), "doneResp" \notin Ops(toHost') PROVE SaharaInv'
  BY <1>c, <1>p DEF SaharaInv
<1>s. Searching => "done" \notin Ops(toMod) /\ "doneResp" \notin Ops(toHost)
  BY <1>w, <1>o, <1>h DEF SaharaInv, Searching
<1>e. Ops(<<>>) = {}
  BY EmptyASeq
<1>1. CASE MainNext
  <2>1. Searching
    BY <1>1 DEF MainNext, FoundReady, SentToEdl, NotFound, GivesUp, AfterSahara, FirehoseStart, StreamStart,
                Finish, Searching
  <2>2. UNCHANGED wire \/ (toMod' = <<>> /\ toHost' = <<>>)
    BY <1>1, <2>1 DEF MainNext, FoundReady, SaharaStart, SentToEdl, NotFound, GivesUp, AfterSahara,
                       Finish, Searching, Boots, FirehoseStart, StreamStart
  <2>. QED  BY <2>1, <2>2, <1>c, <1>s, <1>e
<1>2. CASE SaharaNext /\ UNCHANGED <<strVars, fhVars, mainVars>>
  <2>1. CASE HelloLate \/ Hello
    <3>1. ctl = "sahara" /\ sah \in {"hello", "again"}
      BY <2>1 DEF HelloLate, Hello, Running
    <3>2. "done" \notin Ops(toMod) /\ "doneResp" \notin Ops(toHost)
      BY <3>1, <1>w, <1>o, <1>h DEF SaharaInv
    <3>3. \/ UNCHANGED toMod
          \/ \E ok \in BOOLEAN, m \in {[op |-> "nudge"], [op |-> "reset"], [op |-> "helloResp"]} : Write(m, ok)
      BY <2>1 DEF HelloLate, Hello, NothingRead
    <3>4. "done" \notin Ops(toMod')
      BY <3>2, <3>3, <1>w, WriteOps DEF WireInv
    <3>5. toHost' = toHost \/ (toHost # <<>> /\ toHost' = Tail(toHost))
      BY <2>1 DEF HelloLate, Hello, NothingRead, Incoming, Consume
    <3>6. "doneResp" \notin Ops(toHost')
      BY <3>2, <3>5, <1>w, TailFacts DEF WireInv
    <3>. QED  BY <3>4, <3>6, <1>c
  <2>2. CASE Command
    <3>1. /\ ctl = "sahara" /\ sah = "command" /\ toHost # <<>> /\ toHost' = Tail(toHost)
      BY <2>2 DEF Command, Running, Incoming, Consume
    <3>2. "done" \notin Ops(toMod) /\ "doneResp" \notin Ops(toHost)
      BY <3>1, <1>w, <1>o, <1>h DEF SaharaInv
    <3>3. "doneResp" \notin Ops(toHost')
      BY <3>2, <3>1, <1>w, TailFacts DEF WireInv
    <3>4. CASE Msg.op = "end"
      <4>1. Msg.ok
        BY <2>2, <3>4, <3>1 DEF Command, Return, Searching
      <4>2. sah' = "done" /\ ctl' = "sahara" /\ \E ok \in BOOLEAN : Write([op |-> "done"], ok)
        BY <2>2, <3>1, <3>4, <4>1 DEF Command, Stay
      <4>3. toMod' = toMod \/ toMod' = Append(toMod, [op |-> "done"])
        BY <4>2 DEF Write
      <4>4. CASE toMod' = toMod
        BY <4>4, <3>2, <3>3, <1>c
      <4>5. CASE toMod' = Append(toMod, [op |-> "done"])
        <5>1. \A i \in DOMAIN toMod' : (toMod')[i].op = "done" => i = Len(toMod')
          <6>1. /\ Len(toMod') = Len(toMod) + 1 /\ ASeq(toMod')
                /\ \A i \in DOMAIN toMod' : (toMod')[i] = IF i = Len(toMod) + 1 THEN [op |-> "done"] ELSE toMod[i]
            BY <4>5, <1>w, AppendFacts DEF WireInv
          <6>2. DOMAIN toMod' = 1 .. Len(toMod')
            BY <6>1, SeqFacts
          <6>3. \A i \in DOMAIN toMod : toMod[i].op # "done"
            BY <3>2, <1>o
          <6>. QED  BY <6>1, <6>2, <6>3, <1>f
        <5>2. \A i \in DOMAIN toHost' : (toHost')[i].op # "doneResp"
          BY <3>3, <1>p
        <5>. QED  BY <5>1, <5>2, <4>2 DEF SaharaInv
      <4>. QED  BY <4>3, <4>4, <4>5
    <3>5. CASE Msg.op # "end"
      <4>1. \/ UNCHANGED toMod
            \/ \E ok \in BOOLEAN, m \in {[op |-> "data", range |-> Msg.range], [op |-> "reset"]} : Write(m, ok)
        BY <2>2, <3>5 DEF Command
      <4>2. "done" \notin Ops(toMod')
        BY <3>2, <4>1, <1>w, WriteOps DEF WireInv
      <4>. QED  BY <4>2, <3>3, <1>c
    <3>. QED  BY <3>4, <3>5
  <2>3. CASE Done \/ CommandLate
    <3>1. ctl' = "main" /\ ret'.by = "sahara"
      BY <2>3 DEF Done, CommandLate, Return
    <3>. QED  BY <3>1 DEF Searching
  <2>4. CASE RomHello
    <3>1. ctl = "sahara" /\ sah \in {"hello", "again"} /\ UNCHANGED toMod /\ toHost' = <<[op |-> "hello"]>>
      BY <2>4 DEF RomHello, Running
    <3>2. "done" \notin Ops(toMod)
      BY <3>1, <1>w, <1>o DEF SaharaInv
    <3>3. Ops(toHost') = {"hello"}
      BY <3>1, OneASeq
    <3>. QED  BY <3>1, <3>2, <3>3, <1>c
  <2>5. CASE RomTakes
    <3>1. toMod # <<>> /\ UNCHANGED <<ctl, ret, sah>>
      BY <2>5, <1>2 DEF RomTakes, Takes
    <3>2. "doneResp" \notin Ops(toHost)
      BY <3>1, <1>w, <1>h DEF SaharaInv, Searching
    <3>t. toMod' = Tail(toMod) \/ (toMod' = <<>> /\ toHost' = <<>>)
      BY <2>5 DEF RomTakes, Answers, Boots
    <3>3. CASE toMod' = <<>> /\ toHost' = <<>>
      BY <3>3, <1>c, <1>e
    <3>4. CASE toMod' = Tail(toMod) /\ Order.op # "done"
      <4>1. (toHost' = <<>>) \/ \E m : m.op # "doneResp" /\ Answers(<<m>>)
        BY <2>5, <3>4 DEF RomTakes, Boots, Ended
      <4>2. (toHost' = <<>>) \/ \E m : m.op # "doneResp" /\ toHost' = Append(toHost, m)
        BY <4>1, <1>w, AnswersFacts, <2>5 DEF WireInv, RomTakes
      <4>3. "doneResp" \notin Ops(toHost')
        <5>1. CASE toHost' = <<>>
          BY <5>1, <1>e
        <5>2. ASSUME NEW m, m.op # "doneResp", toHost' = Append(toHost, m) PROVE "doneResp" \notin Ops(toHost')
          BY <5>2, <3>2, <1>w, AppendFacts DEF WireInv
        <5>. QED  BY <4>2, <5>1, <5>2
      <4>4. \A i \in DOMAIN toMod' : (toMod')[i].op = "done" => ctl' = "sahara" /\ sah' = "done" /\ i = Len(toMod')
        <5>1. \A i \in DOMAIN toMod : toMod[i].op = "done" => ctl = "sahara" /\ sah = "done" /\ i = Len(toMod)
          BY <1>w, <3>1 DEF SaharaInv, Searching
        <5>2. /\ Len(Tail(toMod)) = Len(toMod) - 1
              /\ \A i \in DOMAIN Tail(toMod) : i + 1 \in DOMAIN toMod /\ Tail(toMod)[i] = toMod[i + 1]
              /\ DOMAIN Tail(toMod) = 1 .. Len(Tail(toMod))
          BY <3>1, <1>w, TailFacts, SeqFacts DEF WireInv
        <5>3. \A i \in DOMAIN Tail(toMod) : Tail(toMod)[i].op = "done" =>
                ctl = "sahara" /\ sah = "done" /\ i = Len(Tail(toMod))
          BY <5>1, <5>2, <1>f
        <5>. QED  BY <5>3, <3>1, <3>4
      <4>. QED  BY <4>3, <4>4, <1>p DEF SaharaInv
    <3>5. CASE toMod' = Tail(toMod) /\ Order.op = "done"
      <4>1. Order = toMod[1] /\ 1 \in DOMAIN toMod
        BY <3>1, <1>w, <1>f, TailFacts DEF WireInv, Order
      <4>2. ctl = "sahara" /\ sah = "done" /\ 1 = Len(toMod)
        BY <4>1, <3>5, <3>1, <1>w DEF SaharaInv, Searching
      <4>3. toMod' = <<>>
        <5>1. ASeq(Tail(toMod)) /\ Len(Tail(toMod)) = Len(toMod) - 1
          BY <3>1, <1>w, TailFacts DEF WireInv
        <5>2. Len(Tail(toMod)) = 0
          BY <5>1, <4>2
        <5>3. Tail(toMod) = <<>>
          BY <5>1, <5>2, SeqFacts
        <5>. QED  BY <5>3, <3>5
      <4>4. PICK s \in {"complete", "pending"} :
              Answers(<<[op |-> "doneResp", status |-> s]>>) /\ mod' = [mod EXCEPT !.runs = "loader"]
        BY <2>5, <3>5 DEF RomTakes
      <4>5. toHost' = Append(toHost, [op |-> "doneResp", status |-> s])
        BY <4>4, <1>w, <2>5, AnswersFacts DEF WireInv, RomTakes
      <4>6. \A i \in DOMAIN toHost' : (toHost')[i].op = "doneResp" => i = Len(toHost')
        <5>1. /\ Len(toHost') = Len(toHost) + 1 /\ ASeq(toHost')
              /\ \A i \in DOMAIN toHost' :
                    (toHost')[i] = IF i = Len(toHost) + 1 THEN [op |-> "doneResp", status |-> s] ELSE toHost[i]
          BY <4>5, <1>w, AppendFacts DEF WireInv
        <5>2. DOMAIN toHost' = 1 .. Len(toHost')
          BY <5>1, SeqFacts
        <5>. QED  BY <5>1, <5>2, <3>2, <1>h, <1>f
      <4>7. mod'.runs = "loader"
        BY <4>4, <1>w DEF WireInv
      <4>8. "done" \notin Ops(toMod')
        BY <4>3, <1>e
      <4>. QED  BY <4>2, <4>3, <4>6, <4>7, <4>8, <3>1, <1>p DEF SaharaInv
    <3>. QED  BY <3>t, <3>3, <3>4, <3>5
  <2>. QED  BY <1>2, <2>1, <2>2, <2>3, <2>4, <2>5 DEF SaharaNext
<1>3. CASE StreamNext /\ UNCHANGED <<sahVars, fhVars, mainVars>>
  <2>1. ctl = "stream"
    BY <1>3 DEF StreamNext, NoFile, SendRequest, ReadAnswer, AnswerLate, StreamTakes, StreamLog, Running
  <2>2. Ops(toMod) \subseteq StreamOps /\ Ops(toHost) \subseteq StreamOps \cup {"log"} /\ str.op \in StreamOps
    BY <2>1 DEF IInv, StreamInv, StreamTypes, BeforeOpen, AtOpen, AtWrite, AtClose, StreamOps, Early
  <2>3. "done" \notin StreamOps /\ "doneResp" \notin StreamOps
    BY DEF StreamOps, Early
  <2>4. CASE SendRequest
    <3>1. UNCHANGED toHost /\ \E ok \in BOOLEAN : Write(Packet, ok)
      BY <2>4 DEF SendRequest
    <3>2. Packet.op = str.op
      BY DEF Packet
    <3>3. Ops(toMod') \subseteq StreamOps
      BY <3>1, <3>2, <2>2, <1>w, WriteOps DEF WireInv
    <3>. QED  BY <3>1, <3>3, <2>2, <2>3, <1>c
  <2>5. CASE NoFile \/ ReadAnswer \/ AnswerLate
    <3>1. UNCHANGED toMod /\ (UNCHANGED toHost \/ (toHost # <<>> /\ toHost' = Tail(toHost)))
      BY <2>5 DEF NoFile, ReadAnswer, AnswerLate, NothingRead, Incoming, Consume
    <3>2. Ops(toHost') \subseteq Ops(toHost)
      BY <3>1, <1>w, TailFacts DEF WireInv
    <3>. QED  BY <3>1, <3>2, <2>2, <2>3, <1>c
  <2>6. CASE StreamTakes \/ StreamLog
    <3>1. ctl' = "stream"
      BY <2>6, <2>1 DEF StreamTakes, StreamLog
    <3>. QED  BY <3>1 DEF Searching
  <2>. QED  BY <1>3, <2>4, <2>5, <2>6 DEF StreamNext
<1>4. CASE FirehoseNext /\ UNCHANGED <<sahVars, strVars, mainVars>>
  <2>1. CASE Fixup \/ NextRound \/ SendCommand \/ SendChunk \/ NoResponse \/ ReadResponse
    <3>1. ctl = "firehose"
      BY <2>1 DEF Fixup, NextRound, SendCommand, SendChunk, NoResponse, ReadResponse, Running
    <3>2. ctl' \in {"firehose", "crashed"} \/ \E ok \in BOOLEAN : Return("firehose", ok)
      BY <3>1, <2>1 DEF Fixup, NextRound, StepDone, SendCommand, SendChunk, NoResponse, ReadResponse, StepFails, Stay
    <3>. QED  BY <3>2 DEF Return, Searching
  <2>2. CASE LoaderTakes
    BY <2>2 DEF LoaderTakes, Searching
  <2>3. CASE LoaderHasImage
    <3>1. ~Before
      BY <2>3 DEF LoaderHasImage, IInv, BeforeInv
    <3>2. UNCHANGED <<ctl, ret>>
      BY <2>3 DEF LoaderHasImage
    <3>. QED  BY <3>1, <3>2, <1>w DEF Before, Searching, RetInv
  <2>. QED  BY <1>4, <2>1, <2>2, <2>3 DEF FirehoseNext
<1>5. CASE ModuleBoots
  BY <1>5, <1>c, <1>e DEF ModuleBoots, Boots
<1>6. CASE Terminated \/ UNCHANGED vars
  BY <1>6, <1>w DEF Terminated, SaharaInv, Searching
<1> QED  BY <1>1, <1>2, <1>3, <1>4, <1>5, <1>6 DEF Next
-----------------------------------------------------------------------------
(* stream_download.                                                        *)

\* The states a step of the protocol starts from, and what it keeps.
StreamFrom ==
    /\ WireInv /\ ctl = "stream" /\ ctl' = "stream"
    /\ StreamInv /\ WireInv' /\ DOMAIN part' = 1 .. Blocks

\* The request has its place, and it is sent or is another.
StrTypes ==
    /\ str.op \in StreamOps /\ str.blk \in Nat /\ str.sent \in BOOLEAN
    /\ DOMAIN str = {"op", "blk", "waits", "sends", "sent"}
    /\ str.op = "write" => str.blk \in 1 .. Blocks

\* A request that has not been sent.
LEMMA NewRequest ==
    ASSUME NEW op \in StreamOps, NEW blk \in Nat, NEW sends, op = "write" => blk \in 1 .. Blocks,
           str' = Request(op, blk, sends)
    PROVE  StrTypes' /\ str'.op = op /\ str'.blk = blk /\ str'.sent = FALSE
<1>1. /\ str'.op = op /\ str'.blk = blk /\ str'.sent = FALSE
      /\ DOMAIN str' = {"op", "blk", "waits", "sends", "sent"}
  BY DEF Request
<1> QED  BY <1>1 DEF StrTypes

\* Before the request to open nothing of what comes later is on its way.
LEMMA EarlyStays ==
    ASSUME DOMAIN part' = 1 .. Blocks, StrTypes', str'.op \in Early \cup {"open"},
           Ops(toMod') \subseteq Early, Ops(toHost') \subseteq Early \cup {"log"}
    PROVE  StreamInv'
<1>1. /\ \A i \in DOMAIN toMod' : (toMod')[i].op \in Early
      /\ \A i \in DOMAIN toHost' : (toHost')[i].op \in Early \cup {"log"}
  BY DEF Ops
<1>2. StreamTypes'
  BY <1>1 DEF StreamTypes, StrTypes, Early
<1>3. BeforeOpen' /\ AtOpen'
  BY <1>1 DEF BeforeOpen, AtOpen, Early
<1>4. AtWrite' /\ AtClose'
  BY DEF AtWrite, AtClose, Early
<1> QED  BY <1>2, <1>3, <1>4 DEF StreamInv

\* The loader answers a request with its code.
LEMMA StreamAnswer ==
    ASSUME ASeq(toMod), ASeq(toHost), StreamTakes
    PROVE  /\ toMod # <<>> /\ toMod' = Tail(toMod) /\ mod.usb # "absent" /\ UNCHANGED <<mod, ctl, ret, str>>
           /\ \E m : /\ toHost' = Append(toHost, m) /\ m.op = Code(toMod[1].op)
                    /\ part' = CASE m.ok /\ toMod[1].op = "open" -> Unwritten
                                 [] m.ok /\ toMod[1].op = "write" -> [part EXCEPT ![toMod[1].blk] = toMod[1].from]
                                 [] OTHER -> part
<1>1. PICK ok \in BOOLEAN :
        /\ Answers(<<[op |-> Code(Order.op), ok |-> ok]>>)
        /\ part' = CASE ok /\ Order.op = "open" -> Unwritten
                     [] ok /\ Order.op = "write" -> [part EXCEPT ![Order.blk] = Order.from]
                     [] OTHER -> part
  BY DEF StreamTakes
<1>2. Takes("loader") /\ UNCHANGED <<mod, ctl, ret, str>>
  BY DEF StreamTakes
<1> DEFINE m == [op |-> Code(Order.op), ok |-> ok]
<1>3. m.op = Code(Order.op) /\ m.ok = ok
  OBVIOUS
<1>4. Answers(<<m>>)
  BY <1>1
<1> HIDE DEF m
<1>5. toMod # <<>> /\ Order = toMod[1] /\ toMod' = Tail(toMod) /\ toHost' = Append(toHost, m) /\ mod.usb # "absent"
  BY <1>2, <1>4, AnswersFacts
<1> QED  BY <1>1, <1>2, <1>3, <1>5

\* The steps before open.
LEMMA EarlyKept ==
    ASSUME StreamFrom, StreamNext, str.op \in Early
    PROVE  StreamInv'
<1>w. /\ ASeq(toMod) /\ ASeq(toHost) /\ StrTypes
      /\ Ops(toMod) \subseteq Early /\ Ops(toHost) \subseteq Early \cup {"log"}
      /\ DOMAIN part' = 1 .. Blocks
  BY DEF StreamFrom, WireInv, StreamInv, StreamTypes, StrTypes, BeforeOpen
<1>1. StrTypes' /\ str'.op \in Early \cup {"open"}
  <2>1. CASE UNCHANGED str \/ str' = [str EXCEPT !.sent = TRUE] \/ str' = [str EXCEPT !.waits = @ - 1]
    BY <2>1, <1>w DEF StrTypes
  <2>2. CASE \E op \in Early \cup {"open"}, sends \in {Resends} : str' = Request(op, 0, sends)
    <3>1. PICK op \in Early \cup {"open"} : str' = Request(op, 0, Resends)
      BY <2>2
    <3>2. op \in StreamOps /\ op # "write"
      BY DEF StreamOps, Early
    <3>. QED  BY <3>1, <3>2, NewRequest
  <2>3. Following \in {Request(op, 0, Resends) : op \in Early \cup {"open"}}
    BY DEF Following, Early
  <2>4. ctl' # "main"
    BY DEF StreamFrom
  <2>5. ASSUME Failed PROVE str' \in {Request(op, 0, Resends) : op \in Early \cup {"open"}}
    <3>1. CASE str.op = "table"
      BY <3>1, <2>5 DEF Failed, Early
    <3>2. CASE str.op = "flag"
      BY <3>2, <2>3, <2>5 DEF Failed
    <3>3. CASE str.op \notin {"table", "flag"}
      BY <3>3, <2>5, <2>4 DEF Failed, Early, Return
    <3>. QED  BY <3>1, <3>2, <3>3
  <2>6. \/ UNCHANGED str \/ str' = [str EXCEPT !.sent = TRUE] \/ str' = [str EXCEPT !.waits = @ - 1]
        \/ str' = Following \/ Failed
    BY <2>4 DEF StreamNext, NoFile, SendRequest, ReadAnswer, AnswerLate, StreamTakes, StreamLog, Return
  <2>. QED  BY <2>1, <2>2, <2>3, <2>5, <2>6
<1>2. Ops(toMod') \subseteq Early /\ Ops(toHost') \subseteq Early \cup {"log"}
  <2>1. CASE NoFile \/ ReadAnswer \/ AnswerLate
    <3>1. UNCHANGED toMod /\ (UNCHANGED toHost \/ (toHost # <<>> /\ toHost' = Tail(toHost)))
      BY <2>1 DEF NoFile, ReadAnswer, AnswerLate, NothingRead, Incoming, Consume
    <3>. QED  BY <3>1, <1>w, TailFacts
  <2>2. CASE SendRequest
    <3>1. UNCHANGED toHost /\ \E ok \in BOOLEAN : Write(Packet, ok)
      BY <2>2 DEF SendRequest
    <3>2. Packet.op \in Early
      BY DEF Packet
    <3>. QED  BY <3>1, <3>2, <1>w, WriteOps
  <2>3. CASE StreamTakes
    <3>1. toMod # <<>> /\ toMod' = Tail(toMod)
      BY <2>3, <1>w, StreamAnswer
    <3>2. PICK m : toHost' = Append(toHost, m) /\ m.op = Code(toMod[1].op)
      BY <2>3, <1>w, StreamAnswer
    <3>3. toMod[1].op \in Early /\ Ops(toMod') \subseteq Early
      BY <3>1, <1>w, TailFacts
    <3>4. m.op \in Early
      BY <3>2, <3>3 DEF Code, Early
    <3>5. Ops(toHost') = Ops(toHost) \cup {m.op}
      BY <3>2, <1>w, AppendFacts
    <3>. QED  BY <3>3, <3>4, <3>5, <1>w
  <2>4. CASE StreamLog
    <3>1. UNCHANGED toMod /\ toHost' = Append(toHost, [op |-> "log", ok |-> TRUE])
      BY <2>4 DEF StreamLog
    <3>. QED  BY <3>1, <1>w, AppendFacts
  <2>. QED  BY <2>1, <2>2, <2>3, <2>4 DEF StreamNext
<1> QED  BY <1>1, <1>2, <1>w, EarlyStays
\* The answer that is read is the first.
LEMMA ReadOne ==
    ASSUME ASeq(toHost), ReadAnswer \/ AnswerLate
    PROVE  /\ str.sent /\ UNCHANGED <<toMod, mod, part>>
           /\ \/ UNCHANGED toHost /\ AnswerLate
              \/ /\ ReadAnswer /\ toHost # <<>> /\ toHost' = Tail(toHost)
                 /\ Msg = toHost[1] /\ 1 \in DOMAIN toHost
<1>1. CASE ReadAnswer
  <2>1. toHost # <<>> /\ toHost' = Tail(toHost) /\ str.sent /\ UNCHANGED <<toMod, mod, part>>
    BY <1>1 DEF ReadAnswer, Incoming, Consume
  <2>2. Msg = toHost[1] /\ 1 \in DOMAIN toHost
    BY <2>1, TailFacts, SeqFacts DEF Msg
  <2>. QED  BY <1>1, <2>1, <2>2
<1>2. CASE AnswerLate
  BY <1>2 DEF AnswerLate, NothingRead
<1> QED  BY <1>1, <1>2

\* From open to the first block: nothing of the requests before it is left.
LEMMA OpenKept ==
    ASSUME StreamFrom, StreamNext, str.op = "open"
    PROVE  StreamInv'
<1>w. /\ ASeq(toMod) /\ ASeq(toHost) /\ StrTypes /\ AtOpen
      /\ ASeq(toMod') /\ ASeq(toHost')
      /\ DOMAIN part' = 1 .. Blocks /\ ctl' = "stream"
  BY DEF StreamFrom, WireInv, StreamInv, StreamTypes, StrTypes
<1>f. /\ DOMAIN toMod = 1 .. Len(toMod) /\ Len(toMod) \in Nat
      /\ DOMAIN toHost = 1 .. Len(toHost) /\ Len(toHost) \in Nat
      /\ DOMAIN toMod' = 1 .. Len(toMod') /\ Len(toMod') \in Nat
      /\ DOMAIN toHost' = 1 .. Len(toHost') /\ Len(toHost') \in Nat
  BY <1>w, SeqFacts
<1>o. /\ Ops(toMod) \subseteq Early \cup {"open"}
      /\ Ops(toHost) \subseteq Early \cup {"open", "log"}
      /\ \A i \in DOMAIN toMod : toMod[i].op = "open" => str.sent /\ i = Len(toMod)
      /\ \A i \in DOMAIN toHost : toHost[i].op = "open" =>
            /\ str.sent /\ toMod = <<>>
            /\ \A j \in DOMAIN toHost : i < j => toHost[j].op = "log"
  BY <1>w DEF AtOpen
<1>g. ASSUME AtOpen', str'.op = "open", StrTypes' PROVE StreamInv'
  <2>1. Ops(toMod') \subseteq Early \cup {"open"}
    BY <1>g DEF AtOpen
  <2>2. \A i \in DOMAIN toMod' : (toMod')[i].op # "write"
    BY <2>1 DEF Ops, Early
  <2>3. StreamTypes'
    BY <1>g, <2>2 DEF StreamTypes, StrTypes
  <2>4. BeforeOpen' /\ AtWrite' /\ AtClose'
    BY <1>g DEF BeforeOpen, AtWrite, AtClose, Early
  <2>. QED  BY <1>g, <1>w, <2>3, <2>4 DEF StreamInv
<1>x. ~Failed
  BY <1>w DEF Failed, Return
<1>1. CASE NoFile
  BY <1>1, <1>w DEF NoFile, Return
<1>2. CASE SendRequest
  <2>1. /\ ~str.sent /\ UNCHANGED toHost /\ str' = [str EXCEPT !.sent = TRUE]
        /\ \E ok \in BOOLEAN : Write(Packet, ok)
    BY <1>2, <1>w DEF SendRequest
  <2>2. str'.op = "open" /\ str'.sent /\ StrTypes'
    BY <2>1, <1>w DEF StrTypes
  <2>3. (\A i \in DOMAIN toMod : toMod[i].op # "open") /\ (\A i \in DOMAIN toHost : toHost[i].op # "open")
    BY <2>1, <1>o
  <2>4. toMod' = toMod \/ toMod' = Append(toMod, Packet)
    BY <2>1 DEF Write
  <2>5. Packet.op = "open"
    BY DEF Packet
  <2>6. /\ Ops(toMod') \subseteq Early \cup {"open"}
        /\ \A i \in DOMAIN toMod' : (toMod')[i].op = "open" => i = Len(toMod')
    <3>1. CASE toMod' = toMod
      BY <3>1, <2>3, <1>o
    <3>2. CASE toMod' = Append(toMod, Packet)
      <4>1. /\ Len(toMod') = Len(toMod) + 1 /\ Ops(toMod') = Ops(toMod) \cup {Packet.op}
            /\ \A i \in DOMAIN toMod' : (toMod')[i] = IF i = Len(toMod) + 1 THEN Packet ELSE toMod[i]
        BY <3>2, <1>w, AppendFacts
      <4>. QED  BY <4>1, <2>3, <2>5, <1>o, <1>f
    <3>. QED  BY <2>4, <3>1, <3>2
  <2>7. AtOpen'
    BY <2>1, <2>2, <2>3, <2>6, <1>o DEF AtOpen
  <2>. QED  BY <2>2, <2>7, <1>g
<1>3. CASE ReadAnswer \/ AnswerLate
  <2>0. str.sent /\ UNCHANGED <<toMod, mod, part>>
    BY <1>3, <1>w, ReadOne
  <2>1. CASE UNCHANGED toHost /\ AnswerLate
    <3>1. str' = [str EXCEPT !.waits = @ - 1]
      BY <2>1, <1>x DEF AnswerLate
    <3>2. str'.op = "open" /\ str'.sent = str.sent /\ StrTypes'
      BY <3>1, <1>w DEF StrTypes
    <3>3. AtOpen'
      BY <3>2, <2>0, <2>1, <1>w DEF AtOpen
    <3>. QED  BY <3>2, <3>3, <1>g
  <2>2. CASE ReadAnswer /\ toHost # <<>> /\ toHost' = Tail(toHost) /\ Msg = toHost[1] /\ 1 \in DOMAIN toHost
    <3>t. /\ Len(toHost') = Len(toHost) - 1 /\ Ops(toHost') \subseteq Ops(toHost)
          /\ \A i \in DOMAIN toHost' : i + 1 \in DOMAIN toHost /\ (toHost')[i] = toHost[i + 1]
      BY <2>2, <1>w, TailFacts
    <3>1. CASE Expected
      <4>1. toHost[1].op = "open"
        BY <3>1, <2>2 DEF Expected, Code
      <4>2. toMod = <<>> /\ \A i \in DOMAIN toHost' : (toHost')[i].op = "log"
        BY <4>1, <3>t, <2>2, <1>o, <1>f
      <4>3. Ops(toMod') = {} /\ Ops(toHost') \subseteq {"log"}
        BY <4>2, <2>0, EmptyASeq DEF Ops
      <4>4. str' = Request("write", 1, Resends)
        BY <2>2, <3>1 DEF ReadAnswer, Following
      <4>5. StrTypes' /\ str'.op = "write" /\ str'.blk = 1 /\ ~str'.sent
        <5>1. 1 \in 1 .. Blocks /\ "write" \in StreamOps
          BY StreamAssumption DEF StreamOps
        <5>. QED  BY <4>4, <5>1, NewRequest
      <4>6. WriteInStep'
        BY <4>2, <4>3, <4>5, <2>0 DEF WriteInStep
      <4>7. StreamTypes'
        BY <4>2, <4>5, <2>0, <1>w, <1>f, SeqFacts DEF StreamTypes, StrTypes
      <4>8. AtWrite' /\ BeforeOpen' /\ AtOpen' /\ AtClose'
        BY <4>3, <4>5, <4>6 DEF AtWrite, BeforeOpen, AtOpen, AtClose, Early
      <4>. QED  BY <4>7, <4>8, <1>w DEF StreamInv
    <3>2. CASE ~Expected
      <4>1. UNCHANGED str
        BY <2>2, <3>2, <1>x DEF ReadAnswer
      <4>2. \A i \in DOMAIN toHost' : (toHost')[i].op = "open" =>
              /\ str.sent /\ toMod = <<>>
              /\ \A j \in DOMAIN toHost' : i < j => (toHost')[j].op = "log"
        BY <3>t, <1>o, <1>f
      <4>3. AtOpen'
        BY <4>1, <4>2, <3>t, <2>0, <1>o DEF AtOpen
      <4>4. str'.op = "open" /\ StrTypes'
        BY <4>1, <1>w DEF StrTypes
      <4>. QED  BY <4>3, <4>4, <1>g
    <3>. QED  BY <3>1, <3>2
  <2>. QED  BY <1>3, <1>w, <2>1, <2>2, ReadOne
<1>4. CASE StreamTakes
  <2>1. toMod # <<>> /\ toMod' = Tail(toMod) /\ UNCHANGED str
    BY <1>4, <1>w, StreamAnswer
  <2>2. PICK m : toHost' = Append(toHost, m) /\ m.op = Code(toMod[1].op)
    BY <1>4, <1>w, StreamAnswer
  <2>3. /\ Len(toMod') = Len(toMod) - 1 /\ Ops(toMod') \subseteq Ops(toMod)
        /\ toMod[1].op \in Ops(toMod) /\ 1 \in DOMAIN toMod
        /\ \A i \in DOMAIN toMod' : i + 1 \in DOMAIN toMod /\ (toMod')[i] = toMod[i + 1]
    BY <2>1, <1>w, <1>f, TailFacts
  <2>4. /\ Len(toHost') = Len(toHost) + 1 /\ Ops(toHost') = Ops(toHost) \cup {m.op}
        /\ \A i \in DOMAIN toHost' : (toHost')[i] = IF i = Len(toHost) + 1 THEN m ELSE toHost[i]
    BY <2>2, <1>w, AppendFacts
  <2>5. \A i \in DOMAIN toHost : toHost[i].op # "open"
    BY <2>1, <1>o
  <2>6. m.op \in Early \cup {"open"} /\ (m.op = "open" => toMod[1].op = "open")
    BY <2>2, <2>3, <1>o DEF Code, Early
  <2>7. m.op = "open" => str.sent /\ toMod' = <<>>
    <3>1. m.op = "open" => str.sent /\ Len(toMod) = 1
      BY <2>6, <2>3, <1>o
    <3>2. Len(toMod) = 1 => Len(toMod') = 0
      BY <2>3
    <3>. QED  BY <3>1, <3>2, <1>w, SeqFacts
  <2>8. \A i \in DOMAIN toMod' : (toMod')[i].op = "open" => str.sent /\ i = Len(toMod')
    BY <2>3, <1>o, <1>f
  <2>9. \A i \in DOMAIN toHost' : (toHost')[i].op = "open" =>
          /\ str.sent /\ toMod' = <<>>
          /\ \A j \in DOMAIN toHost' : i < j => (toHost')[j].op = "log"
    BY <2>4, <2>5, <2>7, <1>f
  <2>10. AtOpen'
    BY <2>1, <2>3, <2>4, <2>6, <2>8, <2>9, <1>o DEF AtOpen
  <2>. QED  BY <2>1, <2>10, <1>g, <1>w DEF StrTypes
<1>5. CASE StreamLog
  <2> DEFINE m == [op |-> "log", ok |-> TRUE]
  <2>1. UNCHANGED <<toMod, str>> /\ toHost' = Append(toHost, m) /\ m.op = "log"
    BY <1>5 DEF StreamLog
  <2> HIDE DEF m
  <2>2. /\ Len(toHost') = Len(toHost) + 1 /\ Ops(toHost') = Ops(toHost) \cup {"log"}
        /\ \A i \in DOMAIN toHost' : (toHost')[i] = IF i = Len(toHost) + 1 THEN m ELSE toHost[i]
    BY <2>1, <1>w, AppendFacts
  <2>3. \A i \in DOMAIN toHost' : (toHost')[i].op = "open" =>
          /\ str.sent /\ toMod' = <<>>
          /\ \A j \in DOMAIN toHost' : i < j => (toHost')[j].op = "log"
    BY <2>1, <2>2, <1>o, <1>f
  <2>4. AtOpen'
    BY <2>1, <2>2, <2>3, <1>o DEF AtOpen
  <2>. QED  BY <2>1, <2>4, <1>g, <1>w DEF StrTypes
<1> QED  BY <1>1, <1>2, <1>3, <1>4, <1>5 DEF StreamNext

\* What is on its way after the step that reads an answer, or gives up waiting:
\* nothing of the block if all was in step, else an answer too many.
LEMMA WriteRead ==
    ASSUME StreamFrom, str.op = "write", ReadAnswer \/ AnswerLate, WriteInStep \/ WriteLags
    PROVE  /\ str.sent /\ UNCHANGED <<toMod, mod, part>>
           /\ Ops(toHost') \subseteq Ops(toHost)
           /\ \/ toMod # <<>> \/ "write" \in Ops(toHost')
              \/ /\ toMod = <<>> /\ "write" \notin Ops(toHost')
                 /\ \A b \in 1 .. str.blk - 1 : part[b] # 0
                 /\ ReadAnswer /\ (Expected => part[str.blk] # 0)
<1>w. ASeq(toMod) /\ ASeq(toHost)
  BY DEF StreamFrom, WireInv
<1>0. str.sent /\ UNCHANGED <<toMod, mod, part>>
  BY <1>w, ReadOne
<1>f. /\ DOMAIN toHost = 1 .. Len(toHost) /\ Len(toHost) \in Nat
      /\ Len(toMod) \in Nat /\ (toMod = <<>> <=> Len(toMod) = 0)
      /\ toHost = <<>> <=> Len(toHost) = 0
  BY <1>w, SeqFacts
<1>1. CASE UNCHANGED toHost /\ AnswerLate
  <2>1. toHost = <<>> /\ Ops(toHost) = {}
    BY <1>1, EmptyASeq DEF AnswerLate, NothingRead
  <2>2. toMod # <<>>
    <3>1. CASE WriteInStep
      BY <3>1, <1>0, <1>f, <2>1 DEF WriteInStep
    <3>2. CASE WriteLags
      BY <3>2, <1>0, <1>f, <2>1 DEF WriteLags
    <3>. QED  BY <3>1, <3>2
  <2>. QED  BY <1>0, <1>1, <2>2
<1>2. CASE ReadAnswer /\ toHost # <<>> /\ toHost' = Tail(toHost) /\ Msg = toHost[1] /\ 1 \in DOMAIN toHost
  <2> DEFINE t == Tail(toHost)
  <2>t. /\ Ops(t) \subseteq Ops(toHost)
        /\ \A i \in DOMAIN t : i + 1 \in DOMAIN toHost /\ t[i] = toHost[i + 1]
        /\ \A i \in DOMAIN toHost : i = 1 \/ (i - 1 \in DOMAIN t /\ t[i - 1] = toHost[i])
        /\ ASeq(t)
    BY <1>2, <1>w, TailFacts
  <2>d. DOMAIN t = 1 .. Len(t) /\ Len(t) \in Nat
    BY <2>t, SeqFacts
  <2>u. t = toHost'
    BY <1>2
  <2> HIDE DEF t
  <2>1. CASE WriteInStep /\ toMod = <<>>
    <3>1. PICK i \in DOMAIN toHost :
            /\ toHost[i].op = "write" /\ (toHost[i].ok => part[str.blk] # 0)
            /\ \A j \in DOMAIN toHost : toHost[j].op = "write" => i = j
      BY <2>1, <1>0, <1>f DEF WriteInStep
    <3>2. CASE i = 1
      <4>1. \A j \in DOMAIN t : t[j].op # "write"
        BY <3>1, <3>2, <2>t, <2>d
      <4>2. "write" \notin Ops(t)
        BY <4>1 DEF Ops
      <4>3. Expected => part[str.blk] # 0
        BY <3>1, <3>2, <1>2 DEF Expected
      <4>. QED  BY <1>0, <1>2, <2>1, <2>t, <2>u, <4>2, <4>3 DEF WriteInStep
    <3>3. CASE i # 1
      <4>1. i - 1 \in DOMAIN t /\ t[i - 1].op = "write"
        BY <3>1, <3>3, <2>t
      <4>2. "write" \in Ops(t)
        BY <4>1 DEF Ops
      <4>. QED  BY <1>0, <2>t, <2>u, <4>2
    <3>. QED  BY <3>2, <3>3
  <2>2. CASE toMod # <<>>
    BY <2>2, <1>0, <2>t, <2>u
  <2>3. CASE WriteLags /\ toMod = <<>>
    <3>1. PICK i \in DOMAIN toHost, j \in DOMAIN toHost : i < j /\ toHost[j].op = "write"
      BY <2>3, <1>0, <1>f DEF WriteLags
    <3>2. j # 1
      BY <3>1, <1>f
    <3>3. j - 1 \in DOMAIN t /\ t[j - 1].op = "write"
      BY <3>1, <3>2, <2>t
    <3>4. "write" \in Ops(t)
      BY <3>3 DEF Ops
    <3>. QED  BY <1>0, <2>t, <2>u, <3>4
  <2>. QED  BY <2>1, <2>2, <2>3
<1> QED  BY <1>1, <1>2, <1>w, ReadOne

\* Either one write is on its way and it is the block of the request, or an
\* answer too many is.
LEMMA WriteKept ==
    ASSUME StreamFrom, StreamNext, str.op = "write"
    PROVE  StreamInv'
<1>w. /\ ASeq(toMod) /\ ASeq(toHost) /\ StrTypes /\ UNCHANGED mod
      /\ ASeq(toMod') /\ ASeq(toHost')
      /\ mod.usb = "absent" \/ WriteInStep \/ WriteLags
      /\ Ops(toMod) \subseteq {"write"} /\ Ops(toHost) \subseteq {"write", "log"}
      /\ \A i \in DOMAIN toMod : toMod[i].op = "write" /\ toMod[i].from = 1
      /\ DOMAIN part = 1 .. Blocks /\ DOMAIN part' = 1 .. Blocks /\ ctl' = "stream"
  <2>1. UNCHANGED mod
    BY DEF StreamNext, NoFile, SendRequest, ReadAnswer, AnswerLate, StreamTakes, StreamLog
  <2>2. StreamTypes /\ AtWrite /\ DOMAIN part = 1 .. Blocks
    BY DEF StreamFrom, StreamInv
  <2>3. Ops(toMod) \subseteq {"write"}
    BY <2>2 DEF AtWrite
  <2>4. \A i \in DOMAIN toMod : toMod[i].op = "write" /\ toMod[i].from = 1
    BY <2>2, <2>3 DEF StreamTypes, Ops
  <2>. QED  BY <2>1, <2>2, <2>3, <2>4 DEF StreamFrom, WireInv, StreamTypes, StrTypes, AtWrite
<1>f. /\ DOMAIN toMod = 1 .. Len(toMod) /\ Len(toMod) \in Nat /\ (toMod = <<>> <=> Len(toMod) = 0)
      /\ DOMAIN toHost = 1 .. Len(toHost) /\ Len(toHost) \in Nat
  BY <1>w, SeqFacts
<1>b. str.blk \in 1 .. Blocks /\ str.blk \in Nat /\ Blocks \in Nat
  BY <1>w, StreamAssumption DEF StrTypes
<1>g. ASSUME mod.usb = "absent" \/ WriteInStep' \/ WriteLags', str'.op = "write", StrTypes',
             Ops(toMod') \subseteq {"write"}, Ops(toHost') \subseteq {"write", "log"},
             \A i \in DOMAIN toMod' : (toMod')[i].from = 1
      PROVE  StreamInv'
  <2>1. StreamTypes'
    BY <1>g DEF StreamTypes, StrTypes
  <2>2. AtWrite' /\ BeforeOpen' /\ AtOpen' /\ AtClose'
    BY <1>g, <1>w DEF AtWrite, BeforeOpen, AtOpen, AtClose, Early
  <2>. QED  BY <2>1, <2>2, <1>w DEF StreamInv
<1>1. CASE NoFile
  BY <1>1 DEF NoFile
<1>2. CASE SendRequest
  <2>1. /\ ~str.sent /\ UNCHANGED <<toHost, part>> /\ str' = [str EXCEPT !.sent = TRUE]
        /\ \E ok \in BOOLEAN : ok /\ Write(Packet, ok)
    BY <1>2, <1>w DEF SendRequest, Return
  <2>2. str'.op = "write" /\ str'.sent /\ str'.blk = str.blk /\ StrTypes'
    BY <2>1, <1>w DEF StrTypes
  <2>3. CASE mod.usb = "absent"
    <3>1. UNCHANGED <<toMod, toHost>>
      BY <2>1, <2>3 DEF Write
    <3>. QED  BY <3>1, <2>2, <2>3, <1>w, <1>g
  <2>4. CASE mod.usb # "absent"
    <3> DEFINE p == Packet
    <3>1. p.op = "write" /\ p.blk = str.blk /\ p.from = 1
      BY DEF Packet
    <3>2. toMod' = Append(toMod, p)
      BY <2>1, <2>4 DEF Write
    <3> HIDE DEF p
    <3>3. /\ Len(toMod') = Len(toMod) + 1 /\ Ops(toMod') = Ops(toMod) \cup {"write"}
          /\ \A i \in DOMAIN toMod' : (toMod')[i] = IF i = Len(toMod) + 1 THEN p ELSE toMod[i]
      <4>1. /\ Len(Append(toMod, p)) = Len(toMod) + 1 /\ Ops(Append(toMod, p)) = Ops(toMod) \cup {p.op}
            /\ \A i \in DOMAIN Append(toMod, p) : Append(toMod, p)[i] = IF i = Len(toMod) + 1 THEN p ELSE toMod[i]
        BY <1>w, AppendFacts
      <4>. QED  BY <4>1, <3>1, <3>2
    <3>4. DOMAIN toMod' = 1 .. Len(toMod) + 1
      BY <3>3, <1>w, SeqFacts
    <3>5. \A i \in DOMAIN toMod' : (toMod')[i].from = 1
      BY <3>1, <3>3, <3>4, <1>w, <1>f
    <3>6. CASE WriteInStep
      <4>1. Len(toMod) = 0 /\ "write" \notin Ops(toHost)
        BY <3>6, <2>1, <1>f DEF WriteInStep
      <4>2. Len(toMod') = 1 /\ (toMod')[1] = p
        BY <4>1, <3>3, <3>4
      <4>3. WriteInStep'
        BY <4>1, <4>2, <3>1, <3>6, <2>1, <2>2 DEF WriteInStep
      <4>. QED  BY <4>3, <3>3, <3>5, <2>1, <2>2, <1>w, <1>g
    <3>7. CASE WriteLags
      <4>1. Len(toMod') >= 2 \/ (toMod' # <<>> /\ "write" \in Ops(toHost'))
        <5>1. toMod' # <<>>
          BY <3>2, <1>w, AppendFacts
        <5>. QED  BY <5>1, <3>7, <3>3, <2>1, <1>f DEF WriteLags
      <4>2. WriteLags'
        BY <4>1, <2>2 DEF WriteLags
      <4>. QED  BY <4>2, <3>3, <3>5, <2>1, <2>2, <1>w, <1>g
    <3>. QED  BY <3>6, <3>7, <2>4, <1>w
  <2>. QED  BY <2>3, <2>4
<1>3. CASE ReadAnswer \/ AnswerLate
  <2>0. /\ str.sent /\ UNCHANGED <<toMod, mod, part>> /\ Ops(toHost') \subseteq Ops(toHost)
    <3>1. str.sent /\ UNCHANGED <<toMod, mod, part>>
      BY <1>3, <1>w, ReadOne
    <3>2. toHost' = toHost \/ (toHost # <<>> /\ toHost' = Tail(toHost))
      BY <1>3, <1>w, ReadOne
    <3>3. toHost # <<>> => Ops(Tail(toHost)) \subseteq Ops(toHost)
      BY <1>w, TailFacts
    <3>. QED  BY <3>1, <3>2, <3>3
  <2>1. \A i \in DOMAIN toMod' : (toMod')[i].from = 1
    BY <2>0, <1>w
  <2>2. \/ ReadAnswer /\ Expected /\ str' = Following
        \/ (ReadAnswer => ~Expected) /\ str' = Request("write", str.blk, str.sends - 1)
    <3>1. ASSUME Failed PROVE str' = Request("write", str.blk, str.sends - 1)
      BY <3>1, <1>w DEF Failed, Return
    <3>2. CASE AnswerLate
      <4>1. Failed /\ ~ReadAnswer
        BY <3>2 DEF AnswerLate, NothingRead, ReadAnswer, Incoming
      <4>. QED  BY <4>1, <3>1
    <3>3. CASE ReadAnswer
      BY <3>3, <3>1 DEF ReadAnswer
    <3>. QED  BY <1>3, <3>2, <3>3
  <2>3. "write" \in StreamOps /\ "close" \in StreamOps
    BY DEF StreamOps
  <2>4. CASE (ReadAnswer => ~Expected) /\ str' = Request("write", str.blk, str.sends - 1)
    <3>1. StrTypes' /\ str'.op = "write" /\ str'.blk = str.blk /\ ~str'.sent
      BY <2>4, <2>3, <1>b, NewRequest
    <3>2. mod.usb = "absent" \/ WriteInStep' \/ WriteLags'
      <4> SUFFICES ASSUME mod.usb # "absent" PROVE WriteInStep' \/ WriteLags'
        OBVIOUS
      <4>1. CASE toMod # <<>> \/ "write" \in Ops(toHost')
        BY <4>1, <3>1, <2>0 DEF WriteLags
      <4>2. CASE toMod = <<>> /\ "write" \notin Ops(toHost') /\ \A b \in 1 .. str.blk - 1 : part[b] # 0
        BY <4>2, <3>1, <2>0 DEF WriteInStep
      <4>. QED  BY <4>1, <4>2, <1>3, <1>w, WriteRead
    <3>. QED  BY <3>1, <3>2, <2>0, <2>1, <1>w, <1>g
  <2>5. CASE ReadAnswer /\ Expected /\ str' = Following /\ str.blk < Blocks
    <3>1. str' = Request("write", str.blk + 1, str.sends)
      BY <2>5, <1>b DEF Following
    <3>2. StrTypes' /\ str'.op = "write" /\ str'.blk = str.blk + 1 /\ ~str'.sent
      <4>1. str.blk + 1 \in 1 .. Blocks /\ str.blk + 1 \in Nat
        BY <2>5, <1>b
      <4>. QED  BY <4>1, <3>1, <2>3, NewRequest
    <3>3. mod.usb = "absent" \/ WriteInStep' \/ WriteLags'
      <4> SUFFICES ASSUME mod.usb # "absent" PROVE WriteInStep' \/ WriteLags'
        OBVIOUS
      <4>1. CASE toMod # <<>> \/ "write" \in Ops(toHost')
        BY <4>1, <3>2, <2>0 DEF WriteLags
      <4>2. CASE /\ toMod = <<>> /\ "write" \notin Ops(toHost') /\ (\A b \in 1 .. str.blk - 1 : part[b] # 0)
                 /\ part[str.blk] # 0
        <5>1. \A b \in 1 .. str'.blk - 1 : part'[b] # 0
          BY <4>2, <3>2, <2>0, <1>b
        <5>. QED  BY <5>1, <4>2, <3>2, <2>0 DEF WriteInStep
      <4>. QED  BY <4>1, <4>2, <2>5, <1>3, <1>w, WriteRead
    <3>. QED  BY <3>2, <3>3, <2>0, <2>1, <1>w, <1>g
  <2>6. CASE ReadAnswer /\ Expected /\ str' = Following /\ ~(str.blk < Blocks)
    <3>0. str.blk = Blocks
      BY <2>6, <1>b
    <3>1. str' = Request("close", 0, Resends)
      BY <2>6, <3>0, <1>b DEF Following
    <3>2. StrTypes' /\ str'.op = "close"
      BY <3>1, <2>3, NewRequest
    <3>3. mod.usb = "absent" \/ AllWritten' \/ WriteFirst'
      <4> SUFFICES ASSUME mod.usb # "absent" PROVE AllWritten' \/ WriteFirst'
        OBVIOUS
      <4>1. CASE toMod # <<>>
        <5>1. 1 \in DOMAIN toMod' /\ (toMod')[1].op = "write"
          BY <4>1, <2>0, <1>f, <1>w
        <5>2. \A j \in DOMAIN toMod' : (toMod')[j].op # "close"
          BY <2>0, <1>w
        <5>. QED  BY <5>1, <5>2, <2>0, <1>w DEF WriteFirst
      <4>2. CASE "write" \in Ops(toHost')
        <5>1. \A j \in DOMAIN toHost' : (toHost')[j].op # "close"
          BY <2>0, <1>w DEF Ops
        <5>. QED  BY <5>1, <4>2 DEF WriteFirst, Ops
      <4>3. CASE (\A b \in 1 .. str.blk - 1 : part[b] # 0) /\ part[str.blk] # 0
        BY <4>3, <3>0, <2>0, <1>b DEF AllWritten
      <4>. QED  BY <4>1, <4>2, <4>3, <2>6, <1>3, <1>w, WriteRead
    <3>4. StreamTypes'
      BY <3>2, <2>1 DEF StreamTypes, StrTypes
    <3>5. AtWrite' /\ BeforeOpen' /\ AtOpen' /\ AtClose'
      BY <3>2, <3>3, <2>0, <1>w DEF AtWrite, BeforeOpen, AtOpen, AtClose, Early
    <3>. QED  BY <3>4, <3>5, <1>w DEF StreamInv
  <2>. QED  BY <2>2, <2>4, <2>5, <2>6
<1>4. CASE StreamTakes
  <2>1. toMod # <<>> /\ toMod' = Tail(toMod) /\ UNCHANGED str /\ mod.usb # "absent"
    BY <1>4, <1>w, StreamAnswer
  <2>2. PICK m : /\ toHost' = Append(toHost, m) /\ m.op = Code(toMod[1].op)
                 /\ part' = CASE m.ok /\ toMod[1].op = "open" -> Unwritten
                              [] m.ok /\ toMod[1].op = "write" -> [part EXCEPT ![toMod[1].blk] = toMod[1].from]
                              [] OTHER -> part
    BY <1>4, <1>w, StreamAnswer
  <2>3. /\ Len(toMod') = Len(toMod) - 1 /\ Ops(toMod') \subseteq Ops(toMod) /\ 1 \in DOMAIN toMod
        /\ \A i \in DOMAIN toMod' : i + 1 \in DOMAIN toMod /\ (toMod')[i] = toMod[i + 1]
    BY <2>1, <1>w, <1>f, TailFacts
  <2>4. m.op = "write" /\ part' = IF m.ok THEN [part EXCEPT ![toMod[1].blk] = 1] ELSE part
    <3>1. toMod[1].op = "write" /\ toMod[1].from = 1
      BY <2>3, <1>w
    <3>2. m.op = "write"
      BY <3>1, <2>2 DEF Code
    <3>. QED  BY <3>1, <3>2, <2>2
  <2>5. /\ Len(toHost') = Len(toHost) + 1 /\ Ops(toHost') = Ops(toHost) \cup {"write"}
        /\ \A i \in DOMAIN toHost' : (toHost')[i] = IF i = Len(toHost) + 1 THEN m ELSE toHost[i]
    BY <2>2, <2>4, <1>w, AppendFacts
  <2>6. DOMAIN toHost' = 1 .. Len(toHost) + 1 /\ (toMod' = <<>> <=> Len(toMod') = 0)
    BY <2>5, <1>w, SeqFacts
  <2>7. StrTypes' /\ str'.op = "write" /\ \A i \in DOMAIN toMod' : (toMod')[i].from = 1
    BY <2>1, <2>3, <1>w DEF StrTypes
  <2>8. CASE WriteInStep
    <3>1. /\ str.sent /\ Len(toMod) = 1 /\ toMod[1].blk = str.blk /\ "write" \notin Ops(toHost)
          /\ \A b \in 1 .. str.blk - 1 : part[b] # 0
      BY <2>8, <2>1, <1>f DEF WriteInStep
    <3>2. \A i \in DOMAIN toHost : toHost[i].op # "write"
      BY <3>1 DEF Ops
    <3>3. toMod' = <<>>
      BY <3>1, <2>3, <2>6
    <3>4. m.ok => part'[str.blk] # 0
      BY <3>1, <2>4, <1>b, <1>w
    <3>5. \A b \in 1 .. str.blk - 1 : part'[b] # 0
      BY <3>1, <2>4, <1>b, <1>w
    <3>6. \A j \in DOMAIN toHost' : (toHost')[j].op = "write" => Len(toHost) + 1 = j
      BY <3>2, <2>5, <2>6, <1>f
    <3>7. Len(toHost) + 1 \in DOMAIN toHost' /\ (toHost')[Len(toHost) + 1] = m
      BY <2>5, <2>6, <1>f
    <3>8. WriteInStep'
      BY <3>1, <3>3, <3>4, <3>5, <3>6, <3>7, <2>1, <2>4 DEF WriteInStep
    <3>. QED  BY <3>8, <2>3, <2>5, <2>7, <1>w, <1>g
  <2>9. CASE WriteLags
    <3>1. CASE ~str.sent
      BY <3>1, <2>1, <2>3, <2>5, <2>7, <1>w, <1>g DEF WriteLags
    <3>2. CASE str.sent /\ Len(toMod) >= 2
      <4>1. toMod' # <<>> /\ "write" \in Ops(toHost')
        BY <3>2, <2>3, <2>5, <2>6, <1>f
      <4>. QED  BY <4>1, <3>2, <2>1, <2>3, <2>5, <2>7, <1>w, <1>g DEF WriteLags
    <3>3. CASE str.sent /\ "write" \in Ops(toHost)
      <4>1. PICK i \in DOMAIN toHost : toHost[i].op = "write"
        BY <3>3 DEF Ops
      <4>2. /\ i \in DOMAIN toHost' /\ Len(toHost) + 1 \in DOMAIN toHost' /\ i < Len(toHost) + 1
            /\ (toHost')[i].op = "write" /\ (toHost')[Len(toHost) + 1].op = "write"
        BY <4>1, <2>4, <2>5, <2>6, <1>f
      <4>3. WriteLags'
        BY <4>2, <3>3, <2>1 DEF WriteLags
      <4>. QED  BY <4>3, <2>3, <2>5, <2>7, <1>w, <1>g
    <3>4. CASE str.sent /\ \E i, j \in DOMAIN toHost : i < j /\ toHost[i].op = "write" /\ toHost[j].op = "write"
      BY <3>3, <3>4 DEF Ops
    <3>. QED  BY <2>9, <3>1, <3>2, <3>3, <3>4 DEF WriteLags
  <2>. QED  BY <2>1, <2>8, <2>9, <1>w
<1>5. CASE StreamLog
  <2> DEFINE m == [op |-> "log", ok |-> TRUE]
  <2>1. UNCHANGED <<toMod, str, part>> /\ toHost' = Append(toHost, m) /\ m.op = "log" /\ mod.usb # "absent"
    BY <1>5 DEF StreamLog
  <2> HIDE DEF m
  <2>2. /\ Len(toHost') = Len(toHost) + 1 /\ Ops(toHost') = Ops(toHost) \cup {"log"}
        /\ \A i \in DOMAIN toHost' : (toHost')[i] = IF i = Len(toHost) + 1 THEN m ELSE toHost[i]
    <3>1. /\ Len(Append(toHost, m)) = Len(toHost) + 1 /\ Ops(Append(toHost, m)) = Ops(toHost) \cup {m.op}
          /\ \A i \in DOMAIN Append(toHost, m) : Append(toHost, m)[i] = IF i = Len(toHost) + 1 THEN m ELSE toHost[i]
      BY <1>w, AppendFacts
    <3>. QED  BY <3>1, <2>1
  <2>3. DOMAIN toHost' = 1 .. Len(toHost) + 1
    BY <2>2, <1>w, SeqFacts
  <2>4. StrTypes' /\ str'.op = "write" /\ \A i \in DOMAIN toMod' : (toMod')[i].from = 1
    BY <2>1, <1>w DEF StrTypes
  <2>5. CASE WriteInStep
    <3>1. CASE ~str.sent \/ Len(toMod) = 1
      <4>1. "write" \notin Ops(toHost)
        BY <3>1, <2>5, <1>f DEF WriteInStep
      <4>2. "write" \notin Ops(toHost')
        BY <4>1, <2>2
      <4>3. WriteInStep'
        BY <4>2, <3>1, <2>5, <2>1 DEF WriteInStep
      <4>. QED  BY <4>3, <2>1, <2>2, <2>4, <1>w, <1>g
    <3>2. CASE str.sent /\ toMod = <<>>
      <4>1. PICK i \in DOMAIN toHost :
               /\ toHost[i].op = "write" /\ (toHost[i].ok => part[str.blk] # 0)
               /\ \A j \in DOMAIN toHost : toHost[j].op = "write" => i = j
        BY <3>2, <2>5, <1>f DEF WriteInStep
      <4>2. /\ i \in DOMAIN toHost' /\ (toHost')[i] = toHost[i]
            /\ \A j \in DOMAIN toHost' : (toHost')[j].op = "write" => i = j
        BY <4>1, <2>1, <2>2, <2>3, <1>f
      <4>3. WriteInStep'
        BY <4>1, <4>2, <3>2, <2>5, <2>1 DEF WriteInStep
      <4>. QED  BY <4>3, <2>1, <2>2, <2>4, <1>w, <1>g
    <3>. QED  BY <3>1, <3>2, <2>5 DEF WriteInStep
  <2>6. CASE WriteLags
    <3>1. CASE ~str.sent \/ Len(toMod) >= 2 \/ (toMod # <<>> /\ "write" \in Ops(toHost))
      <4>1. WriteLags'
        BY <3>1, <2>6, <2>1, <2>2 DEF WriteLags
      <4>. QED  BY <4>1, <2>1, <2>2, <2>4, <1>w, <1>g
    <3>2. CASE str.sent /\ \E i, j \in DOMAIN toHost : i < j /\ toHost[i].op = "write" /\ toHost[j].op = "write"
      <4>1. PICK i \in DOMAIN toHost, j \in DOMAIN toHost : i < j /\ toHost[i].op = "write" /\ toHost[j].op = "write"
        BY <3>2
      <4>2. i \in DOMAIN toHost' /\ j \in DOMAIN toHost' /\ (toHost')[i] = toHost[i] /\ (toHost')[j] = toHost[j]
        BY <4>1, <2>2, <2>3, <1>f
      <4>3. WriteLags'
        BY <4>1, <4>2, <3>2, <2>1 DEF WriteLags
      <4>. QED  BY <4>3, <2>1, <2>2, <2>4, <1>w, <1>g
    <3>. QED  BY <3>1, <3>2, <2>6 DEF WriteLags
  <2>. QED  BY <2>1, <2>5, <2>6, <1>w
<1> QED  BY <1>1, <1>2, <1>3, <1>4, <1>5 DEF StreamNext

\* The answer to close is the last, so with a write still to be answered it
\* is not read as the answer it is waited for.
LEMMA CloseKept ==
    ASSUME StreamFrom, StreamNext, str.op \in {"close", "reset"}
    PROVE  StreamInv'
<1>w. /\ ASeq(toMod) /\ ASeq(toHost) /\ StrTypes /\ UNCHANGED mod
      /\ ASeq(toMod') /\ ASeq(toHost')
      /\ mod.usb = "absent" => toMod' = <<>> /\ toHost = <<>>
      /\ AllWritten \/ (str.op = "close" /\ (mod.usb = "absent" \/ WriteFirst))
      /\ Ops(toMod) \subseteq {"write", "close"} /\ Ops(toHost) \subseteq {"write", "close", "log"}
      /\ \A i \in DOMAIN toMod : toMod[i].op = "write" => toMod[i].from = 1
      /\ DOMAIN part = 1 .. Blocks /\ DOMAIN part' = 1 .. Blocks /\ ctl' = "stream"
  <2>1. UNCHANGED mod
    BY DEF StreamNext, NoFile, SendRequest, ReadAnswer, AnswerLate, StreamTakes, StreamLog
  <2>. QED  BY <2>1 DEF StreamFrom, WireInv, StreamInv, StreamTypes, StrTypes, AtClose
<1>f. /\ DOMAIN toMod = 1 .. Len(toMod) /\ Len(toMod) \in Nat /\ (toMod = <<>> <=> Len(toMod) = 0)
      /\ DOMAIN toHost = 1 .. Len(toHost) /\ Len(toHost) \in Nat
      /\ DOMAIN toMod' = 1 .. Len(toMod') /\ Len(toMod') \in Nat
      /\ DOMAIN toHost' = 1 .. Len(toHost') /\ Len(toHost') \in Nat
  BY <1>w, SeqFacts
<1>g. ASSUME AllWritten' \/ (str'.op = "close" /\ (mod.usb = "absent" \/ WriteFirst')),
             str'.op \in {"close", "reset"}, StrTypes',
             Ops(toMod') \subseteq {"write", "close"}, Ops(toHost') \subseteq {"write", "close", "log"},
             \A i \in DOMAIN toMod' : (toMod')[i].op = "write" => (toMod')[i].from = 1
      PROVE  StreamInv'
  <2>1. StreamTypes'
    BY <1>g DEF StreamTypes, StrTypes
  <2>2. AtWrite' /\ BeforeOpen' /\ AtOpen' /\ AtClose'
    BY <1>g, <1>w DEF AtWrite, BeforeOpen, AtOpen, AtClose, Early
  <2>. QED  BY <2>1, <2>2, <1>w DEF StreamInv
<1>1. CASE NoFile
  BY <1>1 DEF NoFile
<1>2. CASE SendRequest
  <2>1. /\ ~str.sent /\ UNCHANGED <<toHost, part>> /\ str' = [str EXCEPT !.sent = TRUE]
        /\ str.op = "close" /\ \E ok \in BOOLEAN : Write(Packet, ok)
    BY <1>2, <1>w DEF SendRequest, Return
  <2>2. StrTypes' /\ str'.op = "close"
    BY <2>1, <1>w DEF StrTypes
  <2> DEFINE p == Packet
  <2>3. p.op = "close"
    BY <2>1 DEF Packet
  <2>4. toMod' = toMod \/ toMod' = Append(toMod, p)
    BY <2>1 DEF Write
  <2> HIDE DEF p
  <2>5. CASE toMod' = toMod
    <3>1. (AllWritten => AllWritten') /\ (WriteFirst => WriteFirst')
      BY <2>1, <2>5 DEF AllWritten, WriteFirst
    <3>. QED  BY <3>1, <2>1, <2>2, <2>5, <1>w, <1>g
  <2>6. CASE toMod' = Append(toMod, p)
    <3>1. /\ Len(Append(toMod, p)) = Len(toMod) + 1 /\ Ops(Append(toMod, p)) = Ops(toMod) \cup {p.op}
          /\ \A i \in DOMAIN Append(toMod, p) : Append(toMod, p)[i] = IF i = Len(toMod) + 1 THEN p ELSE toMod[i]
      BY <1>w, AppendFacts
    <3>2. /\ Len(toMod') = Len(toMod) + 1 /\ Ops(toMod') = Ops(toMod) \cup {"close"}
          /\ \A i \in DOMAIN toMod' : (toMod')[i] = IF i = Len(toMod) + 1 THEN p ELSE toMod[i]
      BY <3>1, <2>3, <2>6
    <3>3. \A i \in DOMAIN toMod' : (toMod')[i].op = "write" => (toMod')[i].from = 1
      BY <3>2, <2>3, <1>w, <1>f
    <3>4. WriteFirst => WriteFirst'
      <4>1. ASSUME NEW i \in DOMAIN toMod, toMod[i].op = "write", "close" \notin Ops(toHost),
                   \A j \in DOMAIN toMod : toMod[j].op = "close" => i < j
            PROVE  WriteFirst'
        <5>1. i \in DOMAIN toMod' /\ (toMod')[i].op = "write"
          BY <4>1, <3>2, <1>f
        <5>2. \A j \in DOMAIN toMod' : (toMod')[j].op = "close" => i < j
          BY <4>1, <3>2, <1>f
        <5>. QED  BY <5>1, <5>2, <4>1, <2>1 DEF WriteFirst
      <4>. QED  BY <4>1, <2>1 DEF WriteFirst
    <3>5. AllWritten => AllWritten'
      BY <2>1 DEF AllWritten
    <3>. QED  BY <3>2, <3>3, <3>4, <3>5, <2>1, <2>2, <1>w, <1>g
  <2>. QED  BY <2>4, <2>5, <2>6
<1>3. CASE ReadAnswer \/ AnswerLate
  <2>0. str.sent /\ UNCHANGED <<toMod, mod, part>>
    BY <1>3, <1>w, ReadOne
  <2>1. (AllWritten => AllWritten') /\ \A i \in DOMAIN toMod' : (toMod')[i].op = "write" => (toMod')[i].from = 1
    BY <2>0, <1>w DEF AllWritten
  <2>2. ~Failed
    BY <1>w DEF Failed, Return
  <2>3. CASE UNCHANGED toHost /\ AnswerLate
    <3>1. str' = [str EXCEPT !.waits = @ - 1]
      BY <2>3, <2>2 DEF AnswerLate
    <3>2. str'.op = str.op /\ StrTypes'
      BY <3>1, <1>w DEF StrTypes
    <3>3. WriteFirst => WriteFirst'
      BY <2>0, <2>3 DEF WriteFirst
    <3>. QED  BY <3>2, <3>3, <2>0, <2>1, <2>3, <1>w, <1>g
  <2>4. CASE ReadAnswer /\ toHost # <<>> /\ toHost' = Tail(toHost) /\ Msg = toHost[1] /\ 1 \in DOMAIN toHost
    <3>1. Expected /\ str' = Following
      BY <2>2, <2>4 DEF ReadAnswer
    <3>2. Msg.op = str.op /\ str.op = "close"
      <4>1. Msg.op \in {"write", "close", "log"}
        BY <2>4, <1>w DEF Ops
      <4>. QED  BY <4>1, <3>1 DEF Expected, Code
    <3>3. StrTypes' /\ str'.op = "reset"
      <4>1. str' = Request("reset", 0, Resends)
        BY <3>1, <3>2 DEF Following
      <4>2. "reset" \in StreamOps
        BY DEF StreamOps
      <4>. QED  BY <4>1, <4>2, NewRequest
    <3>4. AllWritten
      <4>1. mod.usb # "absent"
        BY <2>4, <1>w
      <4>2. ~WriteFirst
        <5>1. toHost[1].op = "close" /\ "close" \in Ops(toHost)
          BY <3>2, <2>4 DEF Ops
        <5>. QED  BY <5>1, <2>4, <1>f DEF WriteFirst
      <4>. QED  BY <4>1, <4>2, <1>w
    <3>5. Ops(toHost') \subseteq Ops(toHost)
      BY <2>4, <1>w, TailFacts
    <3>. QED  BY <3>3, <3>4, <3>5, <2>0, <2>1, <1>w, <1>g
  <2>. QED  BY <1>3, <1>w, <2>3, <2>4, ReadOne
<1>4. CASE StreamTakes
  <2>1. toMod # <<>> /\ toMod' = Tail(toMod) /\ UNCHANGED str /\ mod.usb # "absent"
    BY <1>4, <1>w, StreamAnswer
  <2>2. PICK m : /\ toHost' = Append(toHost, m) /\ m.op = Code(toMod[1].op)
                 /\ part' = CASE m.ok /\ toMod[1].op = "open" -> Unwritten
                              [] m.ok /\ toMod[1].op = "write" -> [part EXCEPT ![toMod[1].blk] = toMod[1].from]
                              [] OTHER -> part
    BY <1>4, <1>w, StreamAnswer
  <2>3. /\ Len(toMod') = Len(toMod) - 1 /\ Ops(toMod') \subseteq Ops(toMod) /\ 1 \in DOMAIN toMod
        /\ \A i \in DOMAIN toMod' : i + 1 \in DOMAIN toMod /\ (toMod')[i] = toMod[i + 1]
        /\ \A i \in DOMAIN toMod : i = 1 \/ (i - 1 \in DOMAIN toMod' /\ (toMod')[i - 1] = toMod[i])
    BY <2>1, <1>w, <1>f, TailFacts
  <2>4. m.op = toMod[1].op /\ m.op \in {"write", "close"}
    <3>1. toMod[1].op \in {"write", "close"}
      BY <2>3, <1>w DEF Ops
    <3>. QED  BY <3>1, <2>2 DEF Code
  <2>5. /\ Len(toHost') = Len(toHost) + 1 /\ Ops(toHost') = Ops(toHost) \cup {m.op}
        /\ \A i \in DOMAIN toHost' : (toHost')[i] = IF i = Len(toHost) + 1 THEN m ELSE toHost[i]
    <3>1. /\ Len(Append(toHost, m)) = Len(toHost) + 1 /\ Ops(Append(toHost, m)) = Ops(toHost) \cup {m.op}
          /\ \A i \in DOMAIN Append(toHost, m) : Append(toHost, m)[i] = IF i = Len(toHost) + 1 THEN m ELSE toHost[i]
      BY <1>w, AppendFacts
    <3>. QED  BY <3>1, <2>2
  <2>6. StrTypes' /\ str'.op = str.op
    BY <2>1, <1>w DEF StrTypes
  <2>7. AllWritten => AllWritten'
    <3>1. part' = part \/ part' = [part EXCEPT ![toMod[1].blk] = 1]
      BY <2>2, <2>3, <2>4, <1>w
    <3>. QED  BY <3>1, <1>w DEF AllWritten
  <2>8. WriteFirst => WriteFirst'
    <3>1. ASSUME NEW i \in DOMAIN toMod, toMod[i].op = "write", "close" \notin Ops(toHost),
                 \A j \in DOMAIN toMod : toMod[j].op = "close" => i < j
          PROVE  WriteFirst'
      <4>1. CASE i = 1
        <5>1. Len(toHost) + 1 \in DOMAIN toHost' /\ (toHost')[Len(toHost) + 1].op = "write"
          BY <3>1, <4>1, <2>4, <2>5, <1>f
        <5>2. \A j \in DOMAIN toHost' : (toHost')[j].op # "close"
          <6>1. "close" \notin Ops(toHost')
            BY <3>1, <4>1, <2>4, <2>5
          <6>. QED  BY <6>1 DEF Ops
        <5>. QED  BY <5>1, <5>2 DEF WriteFirst
      <4>2. CASE i # 1
        <5>1. i - 1 \in DOMAIN toMod' /\ (toMod')[i - 1].op = "write"
          BY <3>1, <4>2, <2>3
        <5>2. \A j \in DOMAIN toMod' : (toMod')[j].op = "close" => i - 1 < j
          BY <3>1, <2>3, <1>f
        <5>3. toMod[1].op = "write"
          BY <3>1, <2>3, <2>4, <1>f
        <5>4. "close" \notin Ops(toHost')
          BY <5>3, <3>1, <2>4, <2>5
        <5>. QED  BY <5>1, <5>2, <5>4 DEF WriteFirst
      <4>. QED  BY <4>1, <4>2
    <3>2. ASSUME NEW i \in DOMAIN toHost, toHost[i].op = "write",
                 \A j \in DOMAIN toHost : toHost[j].op = "close" => i < j
          PROVE  WriteFirst'
      <4>1. i \in DOMAIN toHost' /\ (toHost')[i].op = "write"
        BY <3>2, <2>5, <1>f
      <4>2. \A j \in DOMAIN toHost' : (toHost')[j].op = "close" => i < j
        BY <3>2, <2>5, <1>f
      <4>. QED  BY <4>1, <4>2 DEF WriteFirst
    <3>. QED  BY <3>1, <3>2 DEF WriteFirst
  <2>9. \A i \in DOMAIN toMod' : (toMod')[i].op = "write" => (toMod')[i].from = 1
    BY <2>3, <1>w
  <2>10. Ops(toHost') \subseteq {"write", "close", "log"} /\ Ops(toMod') \subseteq {"write", "close"}
    BY <2>3, <2>4, <2>5, <1>w
  <2>. QED  BY <2>6, <2>7, <2>8, <2>9, <2>10, <1>w, <1>g
<1>5. CASE StreamLog
  <2> DEFINE m == [op |-> "log", ok |-> TRUE]
  <2>1. UNCHANGED <<toMod, str, part>> /\ toHost' = Append(toHost, m) /\ m.op = "log"
    BY <1>5 DEF StreamLog
  <2> HIDE DEF m
  <2>2. /\ Len(Append(toHost, m)) = Len(toHost) + 1 /\ Ops(Append(toHost, m)) = Ops(toHost) \cup {m.op}
        /\ \A i \in DOMAIN Append(toHost, m) : Append(toHost, m)[i] = IF i = Len(toHost) + 1 THEN m ELSE toHost[i]
    BY <1>w, AppendFacts
  <2>3. /\ Len(toHost') = Len(toHost) + 1 /\ Ops(toHost') = Ops(toHost) \cup {"log"}
        /\ \A i \in DOMAIN toHost' : (toHost')[i] = IF i = Len(toHost) + 1 THEN m ELSE toHost[i]
    BY <2>1, <2>2
  <2>4. StrTypes' /\ str'.op = str.op
    BY <2>1, <1>w DEF StrTypes
  <2>5. WriteFirst => WriteFirst'
    <3>1. ASSUME NEW i \in DOMAIN toHost, toHost[i].op = "write",
                 \A j \in DOMAIN toHost : toHost[j].op = "close" => i < j
          PROVE  WriteFirst'
      <4>1. i \in DOMAIN toHost' /\ (toHost')[i].op = "write"
        BY <3>1, <2>3, <1>f
      <4>2. \A j \in DOMAIN toHost' : (toHost')[j].op = "close" => i < j
        BY <3>1, <2>1, <2>3, <1>f
      <4>. QED  BY <4>1, <4>2 DEF WriteFirst
    <3>. QED  BY <3>1, <2>1, <2>3 DEF WriteFirst
  <2>6. AllWritten => AllWritten'
    BY <2>1 DEF AllWritten
  <2>. QED  BY <2>1, <2>3, <2>4, <2>5, <2>6, <1>w, <1>g
<1> QED  BY <1>1, <1>2, <1>3, <1>4, <1>5 DEF StreamNext

\* stream_download as a whole.
LEMMA StreamKept == IInv /\ [Next]_vars => StreamInv'
<1> SUFFICES ASSUME IInv, [Next]_vars PROVE StreamInv'
  OBVIOUS
<1>w. WireInv /\ RetInv /\ StreamInv /\ LoaderRuns /\ WireInv'
  BY WireKept DEF IInv
<1>d. DOMAIN part = 1 .. Blocks
  BY <1>w DEF StreamInv
<1>0. CASE ctl' # "stream" /\ UNCHANGED part
  BY <1>0, <1>d DEF StreamInv
<1>1. CASE MainNext
  <2>1. CASE AfterSahara /\ StreamStart
    <3>1. toMod' = <<>> /\ toHost' = <<>> /\ UNCHANGED part
      BY <2>1, <1>w DEF AfterSahara, StreamStart, RetInv
    <3>2. str' = Request("hello", 0, Resends) /\ "hello" \in StreamOps /\ "hello" \in Early
      BY <2>1 DEF StreamStart, StreamOps, Early
    <3>3. StrTypes' /\ str'.op = "hello"
      BY <3>2, NewRequest
    <3>. QED  BY <3>1, <3>2, <3>3, <1>d, EmptyASeq, EarlyStays
  <2>2. CASE ~(AfterSahara /\ StreamStart)
    <3>1. ctl' # "stream" /\ UNCHANGED part
      BY <1>1, <2>2 DEF MainNext, FoundReady, SaharaStart, SentToEdl, NotFound, GivesUp, AfterSahara, FirehoseStart,
                        Finish, Searching, Return
    <3>. QED  BY <3>1, <1>0
  <2>. QED  BY <2>1, <2>2
<1>2. CASE SaharaNext /\ UNCHANGED <<strVars, fhVars, mainVars>>
  <2>1. CASE RomTakes
    <3>1. ctl # "stream"
      BY <2>1, <1>w DEF RomTakes, Takes, LoaderRuns
    <3>. QED  BY <3>1, <2>1, <1>2, <1>0 DEF RomTakes
  <2>2. CASE HelloLate \/ Hello \/ Command \/ Done \/ CommandLate \/ RomHello
    <3>1. ctl = "sahara" /\ (ctl' = ctl \/ ctl' = "main")
      BY <2>2 DEF HelloLate, Hello, Command, Done, CommandLate, RomHello, Running, Stay, Return
    <3>. QED  BY <3>1, <1>2, <1>0
  <2>. QED  BY <1>2, <2>1, <2>2 DEF SaharaNext
<1>3. CASE StreamNext /\ UNCHANGED <<sahVars, fhVars, mainVars>>
  <2>1. ctl = "stream" /\ str.op \in StreamOps
    BY <1>3, <1>w DEF StreamNext, NoFile, SendRequest, ReadAnswer, AnswerLate, StreamTakes, StreamLog, Running,
                      StreamInv, StreamTypes
  <2>2. DOMAIN part' = 1 .. Blocks
    <3>1. CASE StreamTakes
      <4>1. part' = part \/ part' = Unwritten \/ \E b, v : part' = [part EXCEPT ![b] = v]
        BY <3>1 DEF StreamTakes
      <4>. QED  BY <4>1, <1>d DEF Unwritten
    <3>2. CASE ~StreamTakes
      BY <3>2, <1>3, <1>d DEF StreamNext, NoFile, SendRequest, ReadAnswer, AnswerLate, StreamLog
    <3>. QED  BY <3>1, <3>2
  <2>3. CASE ctl' # "stream"
    BY <2>2, <2>3 DEF StreamInv
  <2>4. CASE ctl' = "stream"
    <3>1. StreamFrom
      BY <2>1, <2>2, <2>4, <1>w DEF StreamFrom
    <3>2. str.op \in Early \/ str.op = "open" \/ str.op = "write" \/ str.op \in {"close", "reset"}
      BY <2>1 DEF StreamOps
    <3>. QED  BY <3>1, <3>2, <1>3, EarlyKept, OpenKept, WriteKept, CloseKept
  <2>. QED  BY <2>3, <2>4
<1>4. CASE FirehoseNext /\ UNCHANGED <<sahVars, strVars, mainVars>>
  <2>1. CASE Fixup \/ NextRound \/ SendCommand \/ SendChunk \/ NoResponse \/ ReadResponse
    <3>1. ctl = "firehose"
      BY <2>1 DEF Fixup, NextRound, SendCommand, SendChunk, NoResponse, ReadResponse, Running
    <3>2. ctl' \in {"firehose", "crashed"} \/ \E ok \in BOOLEAN : Return("firehose", ok)
      BY <3>1, <2>1 DEF Fixup, NextRound, StepDone, SendCommand, SendChunk, NoResponse, ReadResponse, StepFails, Stay
    <3>. QED  BY <3>2, <1>4, <1>0 DEF Return
  <2>2. CASE LoaderTakes
    BY <2>2, <1>4, <1>0 DEF LoaderTakes
  <2>3. CASE LoaderHasImage
    <3>1. ~Before
      BY <2>3 DEF LoaderHasImage, IInv, BeforeInv
    <3>2. UNCHANGED ctl
      BY <2>3 DEF LoaderHasImage
    <3>. QED  BY <3>1, <3>2, <1>4, <1>0 DEF Before
  <2>. QED  BY <1>4, <2>1, <2>2, <2>3 DEF FirehoseNext
<1>5. CASE ModuleBoots
  <2>1. toMod' = <<>> /\ toHost' = <<>> /\ UNCHANGED <<ctl, str, part>>
    BY <1>5 DEF ModuleBoots, Boots
  <2>2. CASE ctl = "stream"
    <3>1. mod'.usb = "absent"
      BY <1>5, <2>2 DEF ModuleBoots, Boots, Gone, Searching
    <3>2. StreamTypes /\ AtClose
      BY <2>2, <1>w DEF StreamInv
    <3>3. StreamTypes'
      BY <2>1, <3>2 DEF StreamTypes
    <3>4. BeforeOpen' /\ AtOpen' /\ AtWrite'
      BY <2>1, <3>1, EmptyASeq DEF BeforeOpen, AtOpen, AtWrite
    <3>5. AtClose'
      BY <2>1, <3>1, <3>2, EmptyASeq DEF AtClose, AllWritten
    <3>. QED  BY <2>1, <3>3, <3>4, <3>5, <1>d DEF StreamInv
  <2>. QED  BY <2>1, <2>2, <1>0
<1>6. CASE Terminated \/ UNCHANGED vars
  BY <1>6, <1>w DEF Terminated, StreamInv, StreamTypes, BeforeOpen, AtOpen, AtWrite, AtClose, WriteInStep, WriteLags,
                    WriteFirst, AllWritten
<1> QED  BY <1>1, <1>2, <1>3, <1>4, <1>5, <1>6 DEF Next
-----------------------------------------------------------------------------
(* firehose_main: the steps of others.                                     *)

\* Before Firehose there is nothing to say but that the flash is as it was.
LEMMA FhBefore == IInv /\ [Next]_vars /\ Before' => FhInv'
<1> SUFFICES ASSUME IInv, [Next]_vars, Before' PROVE FhInv'
  OBVIOUS
<1>1. ctl' # "firehose" /\ on' = "read" /\ flash' = [p \in Parts |-> "old"]
  BY BeforeKept DEF BeforeInv, Before
<1>2. sent' \in Nat
  <2>1. sent \in Nat
    BY DEF IInv, FhInv, FhTypes
  <2>2. sent' = sent \/ sent' = 0 \/ sent' = sent + 1
    BY DEF Next, MainNext, FoundReady, SentToEdl, NotFound, GivesUp, AfterSahara, FirehoseStart, StreamStart, Finish,
           FirehoseNext, Fixup, NextRound, SendCommand, ReadResponse, NoResponse, SendChunk, LoaderTakes,
           LoaderHasImage, ModuleBoots, Terminated
  <2>. QED  BY <2>1, <2>2
<1>3. Sbl \in Parts
  BY FirehoseAssumption
<1>4. FhTypes' /\ SblLast'
  BY <1>1, <1>2, <1>3 DEF FhTypes, SblLast
<1>5. RawKnown' /\ RawInStep' /\ Programmed' /\ First' /\ SblErased'
  BY <1>1 DEF RawKnown, RawInStep, Programmed, First, SblErased
<1> QED  BY <1>4, <1>5 DEF FhInv

\* firehose_main begins with nothing on its way.
LEMMA FhStart ==
    ASSUME IInv, AfterSahara, FirehoseStart
    PROVE  FhInv'
<1>1. Before
  BY DEF AfterSahara, Before
<1>2. /\ raw = None /\ flash = [p \in Parts |-> "old"] /\ toMod = <<>> /\ toHost = <<>> /\ sent \in Nat
  BY <1>1 DEF IInv, BeforeInv, RetInv, AfterSahara, FhInv, FhTypes
<1>3. /\ ctl' = "firehose" /\ job' \in Jobs /\ pass' = "configure" /\ row' = 1 /\ on' = "read"
      /\ raw' = None /\ flash' = [p \in Parts |-> "old"] /\ toMod' = <<>> /\ toHost' = <<>> /\ sent' \in Nat
  BY <1>2 DEF FirehoseStart
<1>4. Sbl \in Parts /\ Ops(toMod') = {} /\ Ops(toHost') = {} /\ Len(toMod') = 0 /\ Len(toHost') = 0
  BY <1>3, FirehoseAssumption, EmptyASeq
<1>5. FhTypes' /\ SblLast'
  BY <1>3, <1>4 DEF FhTypes, SblLast, NextPass
<1>6. RawKnown' /\ RawInStep'
  BY <1>3, <1>4 DEF RawKnown, RawInStep, NoRaw, NoRawAnswer
<1>7. Programmed' /\ First' /\ SblErased'
  BY <1>3, <1>4 DEF Programmed, Over, First, SblErased
<1> QED  BY <1>5, <1>6, <1>7 DEF FhInv

\* The module is gone, and what was on its way with it.
LEMMA FhGone ==
    ASSUME IInv, ~Before, ~Before', mod'.usb = "absent", toMod' = <<>>, toHost' = <<>>, raw' = None,
           UNCHANGED <<ctl, job, pass, row, on, sent, ignored, flash>>
    PROVE  FhInv'
<1>w. FhTypes /\ RawInStep /\ Programmed /\ First /\ SblErased /\ SblLast
  BY DEF IInv, FhInv
<1>1. Ops(toMod') = {} /\ Ops(toHost') = {} /\ Len(toMod') = 0 /\ Len(toHost') = 0
  BY EmptyASeq
<1>2. FhTypes' /\ SblLast'
  BY <1>w DEF FhTypes, SblLast
<1>3. RawKnown'
  BY DEF RawKnown
<1>4. RawInStep'
  <2>1. UNCHANGED Now /\ UNCHANGED Wanted
    BY DEF Now, Wanted, Mine, Cmd, InLoop, Selected, Has
  <2>2. NoRaw' /\ ToBegin'
    BY <1>1 DEF NoRaw, NoRawAnswer, ToBegin
  <2>. QED  BY <1>1, <1>w, <2>1, <2>2 DEF RawInStep
<1>5. Programmed' /\ First' /\ SblErased'
  <2>1. \A k : Over(k)' <=> Over(k)
    BY DEF Over, Selected, Has
  <2>2. UNCHANGED Wanted /\ UNCHANGED Cmd
    BY DEF Wanted, Mine, Cmd, InLoop, Selected, Has
  <2>3. Programmed'
    BY <1>1, <1>w, <2>1, <2>2 DEF Programmed
  <2>4. First'
    BY <1>1, <1>w DEF First
  <2>5. SblErased'
    BY <1>w DEF SblErased, Has
  <2>. QED  BY <2>3, <2>4, <2>5
<1> QED  BY <1>2, <1>3, <1>4, <1>5 DEF FhInv

\* A step that changes nothing of it.
LEMMA FhAside ==
    ASSUME IInv, ~Before, ~Before', UNCHANGED <<wire, mod, raw>>,
           UNCHANGED <<job, pass, row, on, sent, ignored, flash>>,
           ctl' = ctl \/ ctl' # "firehose"
    PROVE  FhInv'
<1>w. FhTypes /\ RawKnown /\ RawInStep /\ Programmed /\ First /\ SblErased /\ SblLast
  BY DEF IInv, FhInv
<1>n. /\ UNCHANGED <<Now, Wanted, Cmd, NoRaw, ToBegin, Begun>>
      /\ \A k : Over(k)' <=> Over(k)
      /\ \A p : Programs(p)' <=> Programs(p)
  BY DEF Now, Wanted, Mine, Cmd, InLoop, Selected, Has, NoRaw, NoRawAnswer, ToBegin, Begun, Over, Programs
<1>1. FhTypes' /\ SblLast'
  BY <1>w DEF FhTypes, SblLast
<1>2. RawKnown'
  BY <1>w, <1>n DEF RawKnown
<1>3. RawInStep'
  BY <1>w, <1>n DEF RawInStep
<1>4. Programmed' /\ First' /\ SblErased'
  BY <1>w, <1>n DEF Programmed, First, SblErased, Has
<1> QED  BY <1>1, <1>2, <1>3, <1>4 DEF FhInv

\* What is not a step of firehose_main or of its loader.
LEMMA FhElsewhere ==
    ASSUME IInv, [Next]_vars, ~(FirehoseNext /\ ~Before)
    PROVE  FhInv'
<1>r. RetInv /\ LoaderRuns
  BY DEF IInv
<1> SUFFICES ASSUME ~Before' PROVE FhInv'
  BY FhBefore
<1>0. ASSUME ~Before, UNCHANGED <<wire, mod, ctl, fhVars>> PROVE FhInv'
  BY <1>0, FhAside
<1>1. CASE MainNext
  <2>1. CASE FoundReady \/ SentToEdl \/ NotFound \/ GivesUp
    BY <2>1 DEF FoundReady, SentToEdl, NotFound, GivesUp, Searching, SaharaStart, Return, Before
  <2>2. CASE AfterSahara
    <3>1. FirehoseStart
      BY <2>2 DEF AfterSahara, StreamStart, Before
    <3>. QED  BY <3>1, <2>2, FhStart
  <2>3. CASE Finish
    <3>1. ~Before
      BY <2>3 DEF Finish, Before
    <3>. QED  BY <3>1, <2>3, FhAside DEF Finish
  <2>. QED  BY <1>1, <2>1, <2>2, <2>3 DEF MainNext
<1>2. CASE SaharaNext /\ UNCHANGED <<strVars, fhVars, mainVars>>
  <2>1. CASE RomTakes
    <3>1. UNCHANGED <<ctl, ret>> /\ (mod.usb # "absent" /\ mod.runs = "boot")
      BY <2>1 DEF RomTakes, Takes
    <3>2. Before
      BY <3>1, <1>r DEF LoaderRuns, RetInv, Before
    <3>. QED  BY <3>1, <3>2 DEF Before
  <2>2. CASE HelloLate \/ Hello \/ Command \/ Done \/ CommandLate \/ RomHello
    <3>1. Stay \/ \E ok \in BOOLEAN : Return("sahara", ok)
      BY <2>2 DEF HelloLate, Hello, Command, Done, CommandLate, RomHello, Stay
    <3>2. ctl = "sahara"
      BY <2>2 DEF HelloLate, Hello, Command, Done, CommandLate, RomHello, Running
    <3>. QED  BY <3>1, <3>2 DEF Stay, Return, Before
  <2>. QED  BY <1>2, <2>1, <2>2 DEF SaharaNext
<1>3. CASE StreamNext /\ UNCHANGED <<sahVars, fhVars, mainVars>>
  <2>1. ctl = "stream" /\ (Stay \/ \E ok \in BOOLEAN : Return("stream", ok))
    BY <1>3 DEF StreamNext, NoFile, SendRequest, ReadAnswer, AnswerLate, Failed, StreamTakes, StreamLog, Running, Stay
  <2>. QED  BY <2>1 DEF Stay, Return, Before
<1>4. CASE FirehoseNext /\ UNCHANGED <<sahVars, strVars, mainVars>>
  <2>1. Before
    BY <1>4
  <2>2. CASE Fixup \/ NextRound \/ SendCommand \/ SendChunk \/ NoResponse \/ ReadResponse
    BY <2>1, <2>2 DEF Fixup, NextRound, SendCommand, SendChunk, NoResponse, ReadResponse, Running, Before
  <2>3. CASE LoaderTakes \/ LoaderHasImage
    BY <2>1, <2>3 DEF LoaderTakes, LoaderHasImage, Before
  <2>. QED  BY <1>4, <2>2, <2>3 DEF FirehoseNext
<1>5. CASE ModuleBoots
  <2>1. ~Before /\ UNCHANGED <<ctl, ret>>
    BY <1>5 DEF ModuleBoots, Before
  <2>2. Boots({Gone})
    BY <1>5, <2>1 DEF ModuleBoots, Searching, Before
  <2>. QED  BY <1>5, <2>1, <2>2, FhGone DEF ModuleBoots, Boots, Gone
<1>6. CASE Terminated \/ UNCHANGED vars
  <2>1. UNCHANGED vars
    BY <1>6 DEF Terminated
  <2>. QED  BY <2>1, <1>0 DEF Before
<1> QED  BY <1>1, <1>2, <1>3, <1>4, <1>5, <1>6 DEF Next
-----------------------------------------------------------------------------
(* firehose_main: its own steps.                                           *)

\* The commands of rawprogram.xml.
LEMMA TableFacts ==
    ASSUME job \in Jobs
    PROVE  /\ Len(job.table) \in Nat /\ DOMAIN job.table = 1 .. Len(job.table)
           /\ \A k \in DOMAIN job.table :
                 /\ job.table[k].op \in {"erase", "program", "vendor"}
                 /\ job.table[k].op # "vendor" => job.table[k].part \in Parts
<1> DEFINE A == [op : {"erase", "program"}, part : Parts]
           B == [op : {"vendor"}, part : {None}]
<1>1. job.table \in Seq(A \cup B)
  BY FirehoseAssumption
<1>2. \A c \in A \cup B : c.op \in {"erase", "program", "vendor"} /\ (c.op # "vendor" => c.part \in Parts)
  OBVIOUS
<1> HIDE DEF A, B
<1> QED  BY <1>1, <1>2

\* What is sent, and when.
LEMMA NowFacts ==
    ASSUME FhTypes, ctl = "firehose", ~Before, on # "read", Wanted
    PROVE  /\ Now.op = "program" =>
                 /\ Now.part \in Parts
                 /\ \/ pass = "program" /\ Now.part = Cmd.part /\ Cmd.part # Sbl /\ Selected(Cmd.part)
                    \/ pass = "sblProgram" /\ Now.part = Sbl
           /\ pass \in {"program", "sblProgram"} => Now.op = "program"
           /\ pass = "sblErase" => Now.op = "erase" /\ Now.part = Sbl
           /\ Now.op \in {"erase", "eraseAll"} => pass \in {"sblErase", "erase"}
           /\ Now.op = "configure" <=> pass = "configure"
           /\ Now.op = "reset" <=> pass = "reset"
<1>1. /\ job \in Jobs /\ row \in DOMAIN job.table
      /\ pass \in {"configure", "sblErase", "vendor", "erase", "program", "sblProgram", "reset"}
  BY TableFacts DEF FhTypes, NextPass
<1>2. Cmd.op # "vendor" => Cmd.part \in Parts
  BY <1>1, TableFacts DEF Cmd
<1>3. Sbl \in Parts
  BY FirehoseAssumption
<1>4. CASE pass = "program"
  BY <1>2, <1>4 DEF Wanted, Mine, Now, InLoop
<1>5. CASE pass # "program"
  BY <1>1, <1>3, <1>5 DEF Now, InLoop
<1> QED  BY <1>4, <1>5

\* An answer less, or the same.
LEMMA OneLess ==
    ASSUME NEW q, NEW r, ASeq(q), r = q \/ (q # <<>> /\ r = Tail(q))
    PROVE  /\ Len(q) \in Nat /\ Len(r) \in Nat /\ Len(r) <= Len(q)
           /\ \A i \in DOMAIN r : \E j \in DOMAIN q : r[i] = q[j]
           /\ q = <<>> => r = <<>>
           /\ Ops(r) \subseteq Ops(q)
<1>1. CASE r = q
  BY <1>1, SeqFacts
<1>2. CASE q # <<>> /\ r = Tail(q)
  BY <1>2, TailFacts, SeqFacts
<1> QED  BY <1>1, <1>2

\* It ends.
LEMMA FhLeaves ==
    ASSUME IInv, ~Before, ~Before', ctl' # "firehose", sent' \in Nat,
           UNCHANGED <<toMod, mod, raw, job, pass, row, on, ignored, flash>>,
           toHost' = toHost \/ (toHost # <<>> /\ toHost' = Tail(toHost))
    PROVE  FhInv'
<1>w. FhTypes /\ RawKnown /\ Programmed /\ First /\ SblErased /\ SblLast /\ ASeq(toHost) /\ ASeq(toMod)
  BY DEF IInv, FhInv, WireInv
<1>n. /\ UNCHANGED <<Wanted, Cmd>>
      /\ \A k : Over(k)' <=> Over(k)
      /\ \A p : Programs(p)' <=> Programs(p)
  BY DEF Wanted, Mine, Cmd, InLoop, Selected, Has, Over, Programs
<1>t. /\ Len(toHost) \in Nat /\ Len(toHost') \in Nat /\ Len(toHost') <= Len(toHost) /\ Len(toMod) \in Nat
      /\ \A i \in DOMAIN toHost' : \E j \in DOMAIN toHost : (toHost')[i] = toHost[j]
      /\ toHost = <<>> => toHost' = <<>>
  BY <1>w, OneLess, SeqFacts
<1>1. FhTypes' /\ SblLast'
  BY <1>w DEF FhTypes, SblLast
<1>2. RawKnown'
  BY <1>w, <1>n DEF RawKnown
<1>3. RawInStep'
  BY DEF RawInStep
<1>4. Programmed' /\ SblErased'
  BY <1>w, <1>n DEF Programmed, SblErased, Has
<1>5. First'
  BY <1>w, <1>t DEF First
<1> QED  BY <1>1, <1>2, <1>3, <1>4, <1>5 DEF FhInv

\* It goes on to the next round, or to the next pass.
LEMMA FhOnward ==
    ASSUME IInv, ctl = "firehose", ctl' = "firehose", on # "read", Onward, sent' \in Nat,
           pass # "reset",
           UNCHANGED <<toMod, mod, raw, job, flash>>, ignored \subseteq ignored',
           toHost' = toHost \/ (toHost # <<>> /\ toHost' = Tail(toHost)),
           pass = "configure" => toMod' = <<>> /\ toHost' = <<>>,
           pass = "sblErase" => (Has("erase", Sbl) /\ "erase" \notin ignored' => flash[Sbl] # "old"),
           pass = "program" /\ Wanted => toMod = <<>> /\ flash[Cmd.part] = "new",
           pass # "sblProgram" => NoRaw'
    PROVE  FhInv'
<1>b. ~Before /\ ~Before'
  BY DEF Before
<1>w. FhTypes /\ RawKnown /\ Programmed /\ First /\ SblErased /\ SblLast /\ ASeq(toHost) /\ ASeq(toMod)
  BY DEF IInv, FhInv, WireInv
<1>j. /\ job \in Jobs /\ Len(job.table) \in Nat /\ DOMAIN job.table = 1 .. Len(job.table)
      /\ row \in 1 .. Len(job.table)
      /\ pass \in {"configure", "sblErase", "vendor", "erase", "program", "sblProgram"}
  BY <1>b, <1>w, TableFacts DEF FhTypes, NextPass
<1>o. /\ on' = "send" /\ row' \in 1 .. Len(job.table)
      /\ \/ pass' = NextPass[pass] /\ row' = 1 /\ LastRound
         \/ pass' = pass /\ row' = row + 1 /\ InLoop
  <2>1. CASE LastRound
    BY <2>1, <1>j DEF Onward
  <2>2. CASE ~LastRound
    BY <2>2, <1>j DEF Onward, LastRound
  <2>. QED  BY <2>1, <2>2
<1>p. \/ pass = "configure" /\ pass' = "sblErase"
      \/ pass = "sblErase" /\ pass' = "vendor"
      \/ pass \in {"vendor", "erase"} /\ pass' \in {"vendor", "erase"}
      \/ pass = "erase" /\ pass' = "program" /\ row' = 1
      \/ pass = "program" /\ pass' = "program" /\ row' = row + 1
      \/ pass = "program" /\ pass' = "sblProgram" /\ row = Len(job.table)
      \/ pass = "sblProgram" /\ pass' = "reset"
  BY <1>j, <1>o DEF NextPass, InLoop, LastRound
<1>1. FhTypes'
  BY <1>b, <1>w, <1>j, <1>o, <1>p DEF FhTypes, NextPass
<1>2. SblLast'
  BY <1>b, <1>w, <1>p DEF SblLast
<1>3. RawKnown'
  <2>1. CASE pass # "sblProgram"
    <3>1. raw' = None /\ "program" \notin Ops(toMod')
      BY <2>1 DEF NoRaw
    <3>2. \A i \in DOMAIN toMod' : (toMod')[i].op # "program"
      BY <3>1 DEF Ops
    <3>. QED  BY <3>1, <3>2 DEF RawKnown
  <2>2. CASE pass = "sblProgram"
    BY <2>2, <1>b, <1>w, <1>p DEF RawKnown, Programs
  <2>. QED  BY <2>1, <2>2
<1>4. RawInStep'
  <2>1. CASE pass = "sblProgram"
    BY <2>1, <1>p DEF RawInStep
  <2>2. CASE pass # "sblProgram"
    BY <2>2, <1>o DEF RawInStep
  <2>. QED  BY <2>1, <2>2
<1>5. Programmed'
  <2> SUFFICES ASSUME NEW k \in DOMAIN job.table, Over(k)'
               PROVE  Ops(toMod) \cap {"erase", "eraseAll"} = {} /\ flash[job.table[k].part] = "new"
    BY DEF Programmed
  <2>1. /\ job.table[k].op = "program" /\ Selected(job.table[k].part) /\ job.table[k].part # Sbl
        /\ (pass' = "program" /\ k < row') \/ pass' \in {"sblProgram", "reset"}
    BY DEF Over, Selected, Has
  <2>2. CASE pass = "program" /\ k = row
    <3>1. Wanted
      BY <2>1, <2>2 DEF Wanted, Mine, Cmd, InLoop
    <3>. QED  BY <3>1, <2>2, EmptyASeq DEF Cmd
  <2>3. CASE ~(pass = "program" /\ k = row)
    <3>1. Over(k)
      BY <2>1, <2>3, <1>p, <1>j DEF Over
    <3>2. Ops(toMod) \cap {"erase", "eraseAll"} = {}
      BY <3>1, <1>b, <1>w DEF Programmed
    <3>3. CASE pass = "program" /\ Wanted /\ job.table[k].part = Cmd.part
      BY <3>2, <3>3
    <3>4. CASE ~(pass = "program" /\ Wanted /\ job.table[k].part = Cmd.part)
      BY <3>1, <3>2, <3>4, <1>b, <1>w DEF Programmed
    <3>. QED  BY <3>3, <3>4
  <2>. QED  BY <2>2, <2>3
<1>6. First'
  <2> SUFFICES ASSUME pass' \in {"configure", "sblErase"} PROVE First'
    BY DEF First
  <2>1. pass = "configure" /\ pass' = "sblErase"
    BY <1>p
  <2>2. toMod' = <<>> /\ toHost' = <<>> /\ \A p \in Parts \ {Sbl} : flash'[p] = "old"
    BY <2>1, <1>b, <1>w DEF First
  <2>. QED  BY <2>1, <2>2, <1>o DEF First
<1>7. SblErased'
  <2> SUFFICES ASSUME pass' \notin {"configure", "sblErase"}, Has("erase", Sbl), "erase" \notin ignored'
               PROVE  flash[Sbl] # "old"
    BY DEF SblErased, Has
  <2>. QED  BY <1>b, <1>w, <1>p DEF SblErased
<1> QED  BY <1>1, <1>2, <1>3, <1>4, <1>5, <1>6, <1>7 DEF FhInv

\* fh_fixup_program_cmd.
LEMMA FixupKept ==
    ASSUME IInv, ~Before, Fixup
    PROVE  FhInv'
<1>w. FhTypes /\ RawInStep /\ First /\ SblLast
  BY DEF IInv, FhInv
<1>1. /\ ctl = "firehose" /\ on = "read" /\ pass = "configure" /\ row = 1
      /\ UNCHANGED <<toMod, mod, job, pass, row, sent, ignored, flash, raw>>
      /\ on' = "send" /\ toHost' = <<>>
  BY <1>w DEF Fixup, Running, FhTypes
<1>2. raw = None /\ toMod = <<>>
  BY <1>1, <1>w DEF RawInStep
<1>3. Ops(toMod') = {} /\ Ops(toHost') = {} /\ Len(toMod') = 0 /\ Len(toHost') = 0
  BY <1>1, <1>2, EmptyASeq
<1>4. FhTypes'
  <2>1. ctl' = "firehose" => job.table # <<>>
    BY DEF Fixup, Return
  <2>2. ctl' = "firehose" => 1 \in 1 .. Len(job.table)
    <3>1. job \in Jobs
      BY <1>w DEF FhTypes
    <3>2. job.table \in Seq([op : {"erase", "program"}, part : Parts] \cup [op : {"vendor"}, part : {None}])
      BY <3>1, FirehoseAssumption
    <3>. QED  BY <3>2, <2>1
  <2>3. job \in Jobs
    BY <1>w DEF FhTypes
  <2>. QED  BY <2>2, <2>3, <1>1, <1>w DEF FhTypes
<1>5. RawKnown' /\ RawInStep'
  BY <1>1, <1>2, <1>3 DEF RawKnown, RawInStep, NoRaw, NoRawAnswer
<1>6. Programmed' /\ SblErased' /\ SblLast'
  BY <1>1, <1>w DEF Programmed, Over, SblErased, SblLast
<1>7. First'
  BY <1>1, <1>2, <1>3, <1>w DEF First
<1> QED  BY <1>4, <1>5, <1>6, <1>7 DEF FhInv

\* A line that is passed over.
LEMMA RoundKept ==
    ASSUME IInv, ~Before, NextRound
    PROVE  FhInv'
<1>w. FhTypes /\ RawInStep
  BY DEF IInv, FhInv
<1>1. /\ ctl = "firehose" /\ ctl' = "firehose" /\ on = "send" /\ ~Wanted /\ Onward
      /\ UNCHANGED <<wire, mod, job, sent, flash, raw, ignored>>
  BY DEF NextRound, StepDone, Stay, Running
<1>2. pass \notin {"configure", "reset"}
  BY <1>1 DEF Wanted, InLoop
<1>3. pass = "sblErase" => ~Has("erase", Sbl)
  BY <1>1 DEF Wanted, InLoop
<1>4. NoRaw'
  BY <1>1, <1>2, <1>w DEF RawInStep, NoRaw, NoRawAnswer
<1>5. sent' \in Nat
  BY <1>1, <1>w DEF FhTypes
<1> QED  BY <1>1, <1>2, <1>3, <1>4, <1>5, FhOnward

\* fh_send_cmd.
LEMMA SendKept ==
    ASSUME IInv, ~Before, SendCommand
    PROVE  FhInv'
<1>w. /\ FhTypes /\ RawKnown /\ RawInStep /\ Programmed /\ First /\ SblErased /\ SblLast
      /\ ASeq(toMod) /\ ASeq(toHost)
  BY DEF IInv, FhInv, WireInv
<1>1. /\ ctl = "firehose" /\ ctl' = "firehose" /\ on = "send" /\ Wanted /\ on' = "wait"
      /\ UNCHANGED <<toHost, mod, job, pass, row, sent, ignored, flash, raw>>
      /\ \E ok \in BOOLEAN : Write(Now, ok)
  BY DEF SendCommand, Goto, Running
<1>2. ~Before' /\ UNCHANGED <<Now, Wanted, Cmd>> /\ \A k : Over(k)' <=> Over(k)
  BY <1>1 DEF Before, Now, Wanted, Mine, Cmd, InLoop, Selected, Has, Over
<1> DEFINE m == Now
<1>3. toMod' = toMod \/ toMod' = Append(toMod, m)
  BY <1>1 DEF Write
<1>m. /\ m.op = "program" =>
            /\ m.part \in Parts
            /\ \/ pass = "program" /\ m.part = Cmd.part
               \/ pass = "sblProgram" /\ m.part = Sbl
      /\ pass \in {"program", "sblProgram"} => m.op = "program"
      /\ pass = "sblErase" => m.op = "erase" /\ m.part = Sbl
      /\ m.op \in {"erase", "eraseAll"} => pass \in {"sblErase", "erase"}
      /\ m.op = "configure" <=> pass = "configure"
      /\ m = Now
  BY <1>1, <1>w, NowFacts
<1> HIDE DEF m
<1>a. /\ Len(Append(toMod, m)) = Len(toMod) + 1 /\ Ops(Append(toMod, m)) = Ops(toMod) \cup {m.op}
      /\ \A i \in DOMAIN Append(toMod, m) : Append(toMod, m)[i] = IF i = Len(toMod) + 1 THEN m ELSE toMod[i]
      /\ ASeq(Append(toMod, m))
  BY <1>w, AppendFacts
<1>s. /\ DOMAIN toMod = 1 .. Len(toMod) /\ Len(toMod) \in Nat /\ Len(toHost) \in Nat
      /\ DOMAIN Append(toMod, m) = 1 .. Len(toMod) + 1
  BY <1>w, <1>a, SeqFacts
<1>4. \A i \in DOMAIN toMod' : (i \in DOMAIN toMod /\ (toMod')[i] = toMod[i]) \/ ((toMod')[i] = m /\ i = Len(toMod'))
  BY <1>3, <1>a, <1>s
<1>5. FhTypes' /\ SblLast' /\ SblErased'
  BY <1>1, <1>2, <1>w DEF FhTypes, SblLast, SblErased, Has
<1>6. RawKnown'
  <2>1. raw # None => raw \in Parts /\ Programs(raw)
    BY <1>w DEF RawKnown
  <2>2. \A i \in DOMAIN toMod' : (toMod')[i].op = "program" =>
          /\ (toMod')[i].part \in Parts
          /\ \/ pass = "program" /\ Wanted /\ (toMod')[i].part = Cmd.part
             \/ pass \in {"sblProgram", "reset"} /\ (toMod')[i].part = Sbl
    BY <1>1, <1>4, <1>m, <1>w DEF RawKnown, Programs
  <2>3. RawKnown'
    BY <2>1, <2>2, <1>1, <1>2 DEF RawKnown, Programs
  <2>. QED  BY <2>3
<1>7. RawInStep'
  <2> SUFFICES ASSUME pass # "reset" PROVE RawInStep'
    BY <1>1 DEF RawInStep
  <2>1. raw = None /\ "program" \notin Ops(toMod) /\ NoRawAnswer
    BY <1>1, <1>w DEF RawInStep, NoRaw
  <2>2. raw' = None /\ NoRawAnswer'
    BY <2>1, <1>1 DEF NoRawAnswer
  <2>3. CASE m.op = "program"
    <3>1. \A i \in DOMAIN toMod : toMod[i].op # "program"
      BY <2>1 DEF Ops
    <3>2. \A i \in DOMAIN toMod' : (toMod')[i].op = "program" => i = Len(toMod') /\ (toMod')[i].part = Now'.part
      BY <3>1, <1>4, <1>m, <1>2
    <3>3. ToBegin'
      BY <2>2, <3>2 DEF ToBegin
    <3>. QED  BY <3>3, <2>3, <1>1, <1>2, <1>m DEF RawInStep
  <2>4. CASE m.op # "program"
    <3>1. NoRaw'
      BY <2>1, <2>2, <2>4, <1>3, <1>a DEF NoRaw
    <3>. QED  BY <3>1, <2>4, <1>1, <1>2, <1>m DEF RawInStep
  <2>. QED  BY <2>3, <2>4
<1>8. Programmed'
  <2> SUFFICES ASSUME NEW k \in DOMAIN job.table, Over(k)
               PROVE  Ops(toMod') \cap {"erase", "eraseAll"} = {} /\ flash[job.table[k].part] = "new"
    BY <1>1, <1>2 DEF Programmed
  <2>1. Ops(toMod) \cap {"erase", "eraseAll"} = {} /\ flash[job.table[k].part] = "new"
    BY <1>1, <1>w DEF Programmed
  <2>2. m.op \notin {"erase", "eraseAll"}
    BY <1>m DEF Over
  <2>. QED  BY <2>1, <2>2, <1>3, <1>a
<1>9. First'
  <2> SUFFICES ASSUME pass \in {"configure", "sblErase"} PROVE First'
    BY <1>1 DEF First
  <2>1. toMod = <<>> /\ toHost = <<>> /\ \A p \in Parts \ {Sbl} : flash[p] = "old"
    BY <1>1, <1>w DEF First
  <2>2. Len(toMod) = 0 /\ Len(toHost) = 0 /\ Ops(toMod) = {}
    BY <2>1, EmptyASeq
  <2>3. Len(toMod') + Len(toHost') <= 1 /\ Ops(toMod') \subseteq {m.op} /\ \A i \in DOMAIN toMod' : (toMod')[i] = m
    BY <2>2, <1>1, <1>3, <1>4, <1>a, <1>s
  <2>4. pass = "configure" => flash[Sbl] = "old"
    BY <1>1, <1>w DEF First
  <2>. QED  BY <2>1, <2>3, <2>4, <1>1, <1>m DEF First
<1> QED  BY <1>5, <1>6, <1>7, <1>8, <1>9 DEF FhInv

\* A step that is given up.
LEMMA FailsKept ==
    ASSUME IInv, ctl = "firehose", on \notin {"read", "send"}, StepFails, sent' \in Nat,
           UNCHANGED <<toMod, mod, raw, job, flash>>,
           toHost' = toHost \/ (toHost # <<>> /\ toHost' = Tail(toHost))
    PROVE  FhInv'
<1>w. FhTypes /\ RawInStep /\ ASeq(toHost)
  BY DEF IInv, FhInv, WireInv
<1>b. ~Before
  BY DEF Before
<1>1. CASE pass \in {"sblErase", "sblProgram"}
  <2>1. Onward /\ ctl' = "firehose" /\ ignored' = ignored \cup {Now.op}
    BY <1>1 DEF StepFails, Stay
  <2>2. pass = "sblErase" => Now.op = "erase"
    BY DEF Now
  <2>3. pass = "sblErase" => NoRaw'
    <3> SUFFICES ASSUME pass = "sblErase" PROVE NoRaw'
      OBVIOUS
    <3>1. on = "wait"
      BY <1>b, <1>w DEF FhTypes, RawInStep
    <3>2. NoRaw
      BY <3>1, <2>2, <1>w DEF RawInStep
    <3>3. \A i \in DOMAIN toHost' : \E j \in DOMAIN toHost : (toHost')[i] = toHost[j]
      BY <1>w, OneLess
    <3>. QED  BY <3>2, <3>3 DEF NoRaw, NoRawAnswer
  <2>. QED  BY <1>1, <2>1, <2>2, <2>3, FhOnward
<1>2. CASE pass \notin {"sblErase", "sblProgram"}
  <2>1. Return("firehose", FALSE) /\ UNCHANGED <<pass, row, on, ignored>>
    BY <1>2 DEF StepFails
  <2>2. ctl' # "firehose" /\ ~Before'
    BY <2>1 DEF Return, Before
  <2>. QED  BY <2>1, <2>2, <1>b, FhLeaves
<1> QED  BY <1>1, <1>2

\* fh_wait_response_cmd with an answer.
LEMMA ReadKept ==
    ASSUME IInv, ~Before, ReadResponse
    PROVE  FhInv'
<1>w. /\ FhTypes /\ RawKnown /\ RawInStep /\ Programmed /\ First /\ SblErased /\ SblLast
      /\ ASeq(toMod) /\ ASeq(toHost)
  BY DEF IInv, FhInv, WireInv
<1>1. /\ ctl = "firehose" /\ on \in {"wait", "end"} /\ toHost # <<>> /\ toHost' = Tail(toHost)
      /\ UNCHANGED <<toMod, mod, job, flash, raw>>
  BY DEF ReadResponse, Running, Incoming, Consume
<1>2. /\ Msg = toHost[1] /\ 1 \in DOMAIN toHost /\ Len(toHost') = Len(toHost) - 1
      /\ \A i \in DOMAIN toHost' : \E j \in DOMAIN toHost : (toHost')[i] = toHost[j]
      /\ ASeq(toHost') /\ Len(toHost) \in Nat /\ Len(toMod) \in Nat
  <2>1. /\ Len(Tail(toHost)) = Len(toHost) - 1 /\ Len(toHost) >= 1 /\ Head(toHost) = toHost[1] /\ ASeq(Tail(toHost))
        /\ \A i \in DOMAIN Tail(toHost) : i + 1 \in DOMAIN toHost /\ Tail(toHost)[i] = toHost[i + 1]
    BY <1>1, <1>w, TailFacts
  <2>. QED  BY <2>1, <1>1, <1>w, SeqFacts DEF Msg
<1>3. (toHost' = <<>> <=> Len(toHost') = 0) /\ (toMod = <<>> <=> Len(toMod) = 0)
  BY <1>2, <1>w, SeqFacts
<1>s. sent' \in Nat
  <2>1. sent' = sent \/ sent' = 0
    BY DEF ReadResponse
  <2>. QED  BY <2>1, <1>w DEF FhTypes
<1>n. pass = "reset" \/ Wanted
  BY <1>1, <1>w DEF RawInStep
<1>W. Wanted
  BY <1>n DEF Wanted, InLoop
<1>N. /\ Now.op = "program" =>
            \/ pass = "program" /\ Now.part = Cmd.part /\ Now.part \in Parts
            \/ pass = "sblProgram" /\ Now.part = Sbl /\ Now.part \in Parts
      /\ pass \in {"program", "sblProgram"} => Now.op = "program"
      /\ Now.op = "configure" <=> pass = "configure"
      /\ Now.op = "reset" <=> pass = "reset"
      /\ pass = "sblErase" => Now.op = "erase"
  BY <1>1, <1>W, <1>w, NowFacts
<1>4. CASE Now.op = "reset"
  <2>1. Return("firehose", TRUE) /\ UNCHANGED <<pass, row, on, ignored>>
    BY <1>4 DEF ReadResponse
  <2>2. ctl' # "firehose" /\ ~Before'
    BY <2>1 DEF Return, Before
  <2>. QED  BY <2>1, <2>2, <1>1, <1>s, FhLeaves
<1>5. CASE Now.op = "configure" /\ ~Msg.ack /\ Msg.size /\ ~resized
  <2>1. Goto("send") /\ UNCHANGED <<ctl, ret, ignored, sent>>
    BY <1>5 DEF ReadResponse, Stay
  <2>2. /\ on' = "send" /\ ctl' = "firehose" /\ pass' = "configure" /\ row' = row /\ pass = "configure"
        /\ UNCHANGED <<sent, ignored>>
    BY <2>1, <1>1, <1>5, <1>N DEF Goto
  <2>3. toMod = <<>> /\ toHost' = <<>> /\ \A p \in Parts \ {Sbl} : flash[p] = "old"
    <3>1. Len(toMod) + Len(toHost) <= 1 /\ \A p \in Parts \ {Sbl} : flash[p] = "old"
      BY <2>2, <1>w DEF First
    <3>2. Len(toHost) # 0
      BY <1>1, <1>w, SeqFacts
    <3>. QED  BY <3>1, <3>2, <1>2, <1>3
  <2>4. Ops(toMod') = {} /\ Ops(toHost') = {} /\ Len(toMod') = 0 /\ Len(toHost') = 0
    BY <2>3, <1>1, EmptyASeq
  <2>5. raw' = None
    BY <2>2, <1>1, <1>w DEF RawKnown, Programs
  <2>6. FhTypes' /\ SblLast'
    BY <2>2, <1>1, <1>w, <1>s DEF FhTypes, SblLast
  <2>7. RawKnown' /\ RawInStep'
    BY <2>2, <2>3, <2>4, <2>5, <1>1 DEF RawKnown, RawInStep, NoRaw, NoRawAnswer
  <2>8. Programmed' /\ SblErased'
    BY <2>2 DEF Programmed, Over, SblErased
  <2>9. First'
    BY <2>2, <2>3, <2>4, <1>1, <1>w DEF First
  <2>. QED  BY <2>6, <2>7, <2>8, <2>9 DEF FhInv
<1>6. CASE StepFails
  BY <1>6, <1>1, <1>s, FailsKept
<1>7. CASE Now.op # "reset" /\ Accepts /\ (Now.op # "program" \/ on = "end") /\ StepDone
  <2>1. Onward /\ ctl' = "firehose" /\ UNCHANGED ignored
    BY <1>7, <1>1 DEF StepDone, Stay
  <2>2. pass # "reset" /\ toHost[1].ack
    BY <1>7, <1>N, <1>2 DEF Accepts
  <2>3. on = "end" => toMod = <<>> /\ raw = None /\ toHost' = <<>> /\ flash[Now.part] = "new" /\ Now.op = "program"
    <3> SUFFICES ASSUME on = "end"
                 PROVE  toMod = <<>> /\ raw = None /\ toHost' = <<>> /\ flash[Now.part] = "new" /\ Now.op = "program"
      OBVIOUS
    <3>1. ~Begun
      BY <1>1 DEF Begun
    <3>2. /\ toMod = <<>> /\ raw = None /\ Len(toHost) <= 1 /\ Now.op = "program"
          /\ \A i \in DOMAIN toHost : toHost[i].ack => flash[Now.part] = "new"
      BY <3>1, <2>2, <1>1, <1>w DEF RawInStep
    <3>3. Len(toHost) # 0
      BY <1>1, <1>w, SeqFacts
    <3>. QED  BY <3>2, <3>3, <2>2, <1>2, <1>3
  <2>4. pass = "configure" => toMod' = <<>> /\ toHost' = <<>>
    <3>1. pass = "configure" => Len(toMod) + Len(toHost) <= 1
      BY <1>w DEF First
    <3>2. Len(toHost) # 0
      BY <1>1, <1>w, SeqFacts
    <3>. QED  BY <3>1, <3>2, <1>1, <1>2, <1>3
  <2>5. pass = "sblErase" => flash[Sbl] # "old"
    BY <2>2, <1>2, <1>w DEF First
  <2>6. pass = "program" => toMod = <<>> /\ flash[Cmd.part] = "new"
    BY <2>3, <1>7, <1>N
  <2>7. NoRaw'
    <3>1. CASE on = "end"
      BY <2>3, <3>1, <1>1, EmptyASeq DEF NoRaw, NoRawAnswer
    <3>2. CASE on # "end"
      <4>1. NoRaw
        BY <3>2, <1>1, <1>7, <2>2, <1>w DEF RawInStep
      <4>. QED  BY <4>1, <1>1, <1>2 DEF NoRaw, NoRawAnswer
    <3>. QED  BY <3>1, <3>2
  <2>. QED  BY <2>1, <2>2, <2>4, <2>5, <2>6, <2>7, <1>1, <1>s, FhOnward
<1>8. CASE Accepts /\ Now.op = "program" /\ on = "wait" /\ Goto("data") /\ sent' = 0 /\ Stay /\ UNCHANGED ignored
  <2>1. /\ on' = "data" /\ ctl' = "firehose" /\ UNCHANGED <<pass, row>> /\ ~Before'
        /\ toHost[1].ack /\ toHost[1].raw
    BY <1>8, <1>1, <1>2 DEF Goto, Stay, Accepts, Before
  <2>2. UNCHANGED <<Now, Wanted, Cmd>> /\ \A k : Over(k)' <=> Over(k)
    BY <2>1, <1>1 DEF Now, Wanted, Mine, Cmd, InLoop, Selected, Has, Over
  <2>3. /\ pass \in {"program", "sblProgram"} /\ Now.part \in Parts
    BY <1>8, <1>N
  <2>4. /\ raw = Now.part /\ toMod = <<>> /\ flash[raw] = "some"
        /\ \A i \in DOMAIN toHost : toHost[i].ack /\ toHost[i].raw => i = Len(toHost)
    <3>1. ToBegin
      BY <1>8, <1>1, <2>3, <1>w DEF RawInStep
    <3>. QED  BY <3>1, <2>1, <1>2 DEF ToBegin, NoRawAnswer
  <2>5. toHost' = <<>>
    <3>1. 1 = Len(toHost)
      BY <2>1, <2>4, <1>2
    <3>. QED  BY <3>1, <1>2, <1>3
  <2>6. Begun'
    BY <2>2, <2>4, <2>5, <1>1 DEF Begun
  <2>7. 0 < Size[Now.part]
    BY <2>3, FirehoseAssumption
  <2>8. FhTypes' /\ SblLast' /\ SblErased'
    BY <2>1, <2>3, <1>1, <1>s, <1>w, <1>8 DEF FhTypes, SblLast, SblErased, Has
  <2>9. RawKnown'
    <3>1. \A p : Programs(p) => Programs(p)'
      BY <2>1, <2>2 DEF Programs
    <3>. QED  BY <3>1, <2>4, <1>1, <1>w, EmptyASeq DEF RawKnown
  <2>10. RawInStep'
    BY <2>1, <2>2, <2>4, <2>6, <2>7, <1>1, <1>8, <1>W DEF RawInStep
  <2>11. Programmed'
    BY <2>1, <2>2, <1>1, <1>8, <1>w DEF Programmed
  <2>12. First'
    BY <2>1, <2>3 DEF First
  <2>. QED  BY <2>8, <2>9, <2>10, <2>11, <2>12 DEF FhInv
<1> QED  BY <1>4, <1>5, <1>6, <1>7, <1>8, <1>1 DEF ReadResponse

\* fh_wait_response_cmd without.
LEMMA LateKept ==
    ASSUME IInv, ~Before, NoResponse
    PROVE  FhInv'
<1>1. /\ ctl = "firehose" /\ on \in {"wait", "end"} /\ StepFails
      /\ UNCHANGED <<toMod, toHost, mod, job, sent, flash, raw>>
  BY DEF NoResponse, Running, NothingRead
<1>2. sent' \in Nat
  BY <1>1 DEF IInv, FhInv, FhTypes
<1> QED  BY <1>1, <1>2, FailsKept

\* fh_send_rawmode_image: only into the image that was announced.
LEMMA ChunkKept ==
    ASSUME IInv, ~Before, SendChunk
    PROVE  FhInv'
<1>w. /\ FhTypes /\ RawKnown /\ RawInStep /\ Programmed /\ First /\ SblErased /\ SblLast
  BY DEF IInv, FhInv
<1>1. /\ ctl = "firehose" /\ on = "data" /\ sent < Size[Now.part]
      /\ UNCHANGED <<wire, mod, job, raw>> /\ sent \in Nat
  BY <1>w DEF SendChunk, Running, FhTypes
<1>2. pass \in {"program", "sblProgram"}
  BY <1>1, <1>w DEF FhTypes
<1>3. CASE ctl' = "crashed" /\ UNCHANGED <<ret, pass, row, on, ignored, sent, flash>>
  <2>1. ~Before'
    BY <1>3 DEF Before
  <2>. QED  BY <1>1, <1>3, <2>1, FhLeaves
<1>4. CASE StepFails /\ UNCHANGED <<sent, flash>>
  BY <1>1, <1>4, FailsKept
<1>5. CASE /\ mod.usb # "absent" /\ sent' = sent + 1
           /\ IF sent + 1 = Size[Now.part] THEN Goto("end") ELSE UNCHANGED <<pass, row, on>>
           /\ flash' = [flash EXCEPT ![raw] = IF raw # Now.part THEN "junk" ELSE @]
           /\ Stay /\ UNCHANGED ignored
  <2>1. raw = Now.part /\ toHost = <<>> /\ flash[raw] = "some" /\ toMod = <<>> /\ Now.op = "program" /\ Wanted
    BY <1>1, <1>2, <1>5, <1>w DEF RawInStep, Begun
  <2>2. flash' = flash
    BY <2>1, <1>5, <1>w DEF FhTypes
  <2>3. /\ ctl' = "firehose" /\ UNCHANGED <<pass, row>> /\ ~Before' /\ sent' \in Nat
        /\ \/ on' = "end"
           \/ on' = "data" /\ sent' # Size[Now.part]
    BY <1>1, <1>5 DEF Goto, Stay, Before
  <2>4. UNCHANGED <<Now, Wanted, Cmd>> /\ \A k : Over(k)' <=> Over(k)
    BY <2>3, <1>1 DEF Now, Wanted, Mine, Cmd, InLoop, Selected, Has, Over
  <2>5. Begun'
    BY <2>1, <2>2, <2>4, <1>1 DEF Begun
  <2>6. on' = "data" => sent' < Size[Now.part]
    <3>1. Now.part \in Parts
      BY <2>1, <1>1, <1>w, NowFacts
    <3>2. Size[Now.part] \in Nat
      BY <3>1, FirehoseAssumption
    <3>. QED  BY <3>2, <2>3, <1>1, <1>5
  <2>7. FhTypes' /\ SblLast' /\ SblErased'
    BY <2>2, <2>3, <1>1, <1>2, <1>5, <1>w DEF FhTypes, SblLast, SblErased, Has
  <2>8. RawKnown'
    <3>1. \A p : Programs(p) => Programs(p)'
      BY <2>3, <2>4 DEF Programs
    <3>. QED  BY <3>1, <2>1, <1>1, <1>w, EmptyASeq DEF RawKnown
  <2>9. RawInStep'
    BY <2>1, <2>3, <2>4, <2>5, <2>6, <1>1 DEF RawInStep
  <2>10. Programmed'
    BY <2>2, <2>3, <2>4, <1>1, <1>w DEF Programmed
  <2>11. First'
    BY <1>2, <2>3 DEF First
  <2>. QED  BY <2>7, <2>8, <2>9, <2>10, <2>11 DEF FhInv
<1> QED  BY <1>3, <1>4, <1>5 DEF SendChunk
-----------------------------------------------------------------------------
(* The loader.                                                             *)

\* What it takes leaves the tool where it is.
LEMMA TakesFacts ==
    ASSUME IInv, ~Before, LoaderTakes
    PROVE  /\ FhTypes /\ RawKnown /\ RawInStep /\ Programmed /\ First /\ SblErased /\ SblLast
           /\ ASeq(toMod) /\ ASeq(toHost) /\ mod.usb # "absent" /\ Sbl \in Parts
           /\ UNCHANGED <<mod, ctl, ret, job, pass, row, on, ignored>> /\ ~Before'
           /\ UNCHANGED <<Now, Wanted, Cmd>>
           /\ \A k : Over(k)' <=> Over(k)
           /\ \A p : Programs(p)' <=> Programs(p)
           /\ toMod # <<>> /\ toMod' = Tail(toMod) /\ ASeq(toMod')
           /\ Order = toMod[1] /\ 1 \in DOMAIN toMod
           /\ Len(toMod) \in Nat /\ Len(toHost) \in Nat /\ Len(toMod') = Len(toMod) - 1
           /\ DOMAIN toHost = 1 .. Len(toHost) /\ (toMod' = <<>> <=> Len(toMod') = 0)
           /\ \A i \in DOMAIN toMod' : i + 1 \in DOMAIN toMod /\ (toMod')[i] = toMod[i + 1]
           /\ Ops(toMod') \subseteq Ops(toMod) /\ Order.op \in Ops(toMod)
<1>1. /\ FhTypes /\ RawKnown /\ RawInStep /\ Programmed /\ First /\ SblErased /\ SblLast
      /\ ASeq(toMod) /\ ASeq(toHost)
  BY DEF IInv, FhInv, WireInv
<1>2. /\ mod.usb # "absent" /\ UNCHANGED <<mod, ctl, ret, job, pass, row, on, ignored>>
      /\ toMod # <<>> /\ toMod' = Tail(toMod)
  BY DEF LoaderTakes, Takes, Answers
<1>3. /\ ~Before' /\ UNCHANGED <<Now, Wanted, Cmd>>
      /\ \A k : Over(k)' <=> Over(k)
      /\ \A p : Programs(p)' <=> Programs(p)
  BY <1>2 DEF Before, Now, Wanted, Mine, Cmd, InLoop, Selected, Has, Over, Programs
<1>4. /\ ASeq(Tail(toMod)) /\ Len(toMod) >= 1 /\ Head(toMod) = toMod[1] /\ Len(Tail(toMod)) = Len(toMod) - 1
      /\ \A i \in DOMAIN Tail(toMod) : i + 1 \in DOMAIN toMod /\ Tail(toMod)[i] = toMod[i + 1]
      /\ Ops(toMod) = Ops(Tail(toMod)) \cup {toMod[1].op}
  BY <1>1, <1>2, TailFacts
<1>5. Sbl \in Parts
  BY FirehoseAssumption
<1>6. /\ Order = toMod[1] /\ ASeq(toMod') /\ Len(toMod') = Len(toMod) - 1
      /\ \A i \in DOMAIN toMod' : i + 1 \in DOMAIN toMod /\ (toMod')[i] = toMod[i + 1]
      /\ Ops(toMod') \subseteq Ops(toMod) /\ Order.op \in Ops(toMod)
  BY <1>2, <1>4 DEF Order
<1>7. /\ Len(toMod) \in Nat /\ Len(toHost) \in Nat /\ DOMAIN toHost = 1 .. Len(toHost)
      /\ (toMod' = <<>> <=> Len(toMod') = 0) /\ DOMAIN toMod = 1 .. Len(toMod)
  BY <1>1, <1>6, SeqFacts
<1>8. 1 \in DOMAIN toMod
  BY <1>4, <1>7
<1> QED  BY <1>1, <1>2, <1>3, <1>5, <1>6, <1>7, <1>8

\* An order that is no answer to where the tool is, in what follows from that.
LEMMA TakesKept ==
    ASSUME IInv, ~Before, LoaderTakes,
           flash' \in [Parts -> {"old", "erased", "some", "junk", "new"}], sent' \in Nat,
           RawKnown', RawInStep', Programmed', First',
           flash'[Sbl] # "old" \/ flash[Sbl] = "old", flash'[Sbl] # "new" \/ flash[Sbl] = "new"
    PROVE  FhInv'
<1>w. /\ FhTypes /\ SblErased /\ SblLast /\ UNCHANGED <<mod, ctl, ret, job, pass, row, on, ignored>> /\ ~Before'
  BY TakesFacts
<1>1. FhTypes' /\ SblErased' /\ SblLast'
  BY <1>w DEF FhTypes, SblErased, SblLast, Has
<1> QED  BY <1>1 DEF FhInv

\* Part of an image, whatever it is: not while the tool still counts on it.
LEMMA TakesJunk ==
    ASSUME IInv, ~Before, LoaderTakes, raw # None,
           flash' = [flash EXCEPT ![raw] = "junk"], UNCHANGED <<toHost, sent, raw>>
    PROVE  FhInv'
<1>w. /\ FhTypes /\ RawKnown /\ RawInStep /\ Programmed /\ First /\ Sbl \in Parts
      /\ UNCHANGED <<ctl, job, pass, row, on, ignored, Wanted, Cmd>> /\ ~Before'
      /\ \A k : Over(k)' <=> Over(k)
      /\ \A p : Programs(p)' <=> Programs(p)
      /\ toMod # <<>> /\ 1 \in DOMAIN toMod
      /\ \A i \in DOMAIN toMod' : i + 1 \in DOMAIN toMod /\ (toMod')[i] = toMod[i + 1]
      /\ Ops(toMod') \subseteq Ops(toMod)
  BY TakesFacts
<1>1. raw \in Parts /\ Programs(raw)
  BY <1>w DEF RawKnown
<1>2. flash' \in [Parts -> {"old", "erased", "some", "junk", "new"}] /\ sent' \in Nat
  BY <1>w DEF FhTypes
<1>3. RawKnown'
  <2>1. \A i \in DOMAIN toMod' : (toMod')[i].op = "program" =>
          /\ (toMod')[i].part \in Parts
          /\ \/ pass = "program" /\ on \in {"wait", "data", "end"} /\ Wanted /\ (toMod')[i].part = Cmd.part
             \/ pass \in {"sblProgram", "reset"} /\ (toMod')[i].part = Sbl
    BY <1>w DEF RawKnown, Programs
  <2>. QED  BY <2>1, <1>1, <1>w DEF RawKnown, Programs
<1>4. ~(ctl = "firehose" /\ pass # "reset")
  <2> SUFFICES ASSUME ctl = "firehose", pass # "reset" PROVE FALSE
    OBVIOUS
  <2>1. on \in {"read", "send", "wait", "data", "end"}
    BY <1>w DEF FhTypes
  <2>. QED  BY <2>1, <1>w DEF RawInStep, NoRaw, ToBegin
<1>5. RawInStep'
  BY <1>4, <1>w DEF RawInStep
<1>6. Programmed'
  <2> SUFFICES ASSUME NEW k \in DOMAIN job.table, Over(k)
               PROVE  /\ Ops(toMod') \cap {"erase", "eraseAll"} = {}
                      /\ \/ flash'[job.table[k].part] = "new"
                         \/ pass = "program" /\ on # "send" /\ Wanted /\ job.table[k].part = Cmd.part
    BY <1>w DEF Programmed
  <2>1. /\ Ops(toMod) \cap {"erase", "eraseAll"} = {}
        /\ \/ flash[job.table[k].part] = "new"
           \/ pass = "program" /\ on # "send" /\ Wanted /\ job.table[k].part = Cmd.part
    BY <1>w DEF Programmed
  <2>2. CASE job.table[k].part # raw
    <3>1. flash'[job.table[k].part] = flash[job.table[k].part]
      BY <2>2, <1>w DEF FhTypes
    <3>. QED  BY <3>1, <2>1, <1>w
  <2>3. CASE job.table[k].part = raw
    <3>1. raw # Sbl
      BY <2>3 DEF Over
    <3>2. pass = "program" /\ on # "send" /\ Wanted /\ raw = Cmd.part
      BY <3>1, <1>1 DEF Programs
    <3>. QED  BY <3>2, <2>1, <2>3, <1>w
  <2>. QED  BY <2>2, <2>3
<1>7. First'
  BY <1>1, <1>w DEF First, Programs
<1>8. (flash'[Sbl] # "old" \/ flash[Sbl] = "old") /\ (flash'[Sbl] # "new" \/ flash[Sbl] = "new")
  BY <1>w DEF FhTypes
<1> QED  BY <1>2, <1>3, <1>5, <1>6, <1>7, <1>8, TakesKept

\* An order that is answered, and is not to program.
LEMMA TakesOrder ==
    ASSUME IInv, ~Before, LoaderTakes, NEW m, toHost' = Append(toHost, m), m.raw = FALSE,
           raw = None, UNCHANGED <<raw, sent>>,
           flash' \in [Parts -> {"old", "erased", "some", "junk", "new"}],
           \/ flash' = flash
           \/ Order.op = "erase" /\ m.ack /\ flash' = [flash EXCEPT ![Order.part] = "erased"]
           \/ Order.op = "eraseAll" /\ flash' = [p \in Parts |-> "erased"],
           m.ack /\ Order.op = "erase" => flash' = [flash EXCEPT ![Order.part] = "erased"]
    PROVE  FhInv'
<1>w. /\ FhTypes /\ RawKnown /\ RawInStep /\ Programmed /\ First /\ Sbl \in Parts
      /\ UNCHANGED <<mod, ctl, job, pass, row, on, ignored, Now, Wanted, Cmd>> /\ ~Before'
      /\ ASeq(toHost) /\ ASeq(toMod)
      /\ \A k : Over(k)' <=> Over(k)
      /\ toMod # <<>> /\ 1 \in DOMAIN toMod /\ Order = toMod[1] /\ Order.op \in Ops(toMod)
      /\ Len(toMod) \in Nat /\ Len(toHost) \in Nat /\ Len(toMod') = Len(toMod) - 1 /\ DOMAIN toHost = 1 .. Len(toHost)
      /\ \A i \in DOMAIN toMod' : i + 1 \in DOMAIN toMod /\ (toMod')[i] = toMod[i + 1]
      /\ Ops(toMod') \subseteq Ops(toMod)
  BY TakesFacts
<1>a. /\ Len(toHost') = Len(toHost) + 1
      /\ \A i \in DOMAIN toHost' : (toHost')[i] = IF i = Len(toHost) + 1 THEN m ELSE toHost[i]
      /\ DOMAIN toHost' = 1 .. Len(toHost) + 1
  <2>1. /\ Len(Append(toHost, m)) = Len(toHost) + 1 /\ ASeq(Append(toHost, m))
        /\ \A i \in DOMAIN Append(toHost, m) : Append(toHost, m)[i] = IF i = Len(toHost) + 1 THEN m ELSE toHost[i]
    BY <1>w, AppendFacts
  <2>. QED  BY <2>1, SeqFacts
<1>h. \A i \in DOMAIN toHost' : (i \in DOMAIN toHost /\ (toHost')[i] = toHost[i]) \/ (toHost')[i] = m
  BY <1>a, <1>w
<1>1. sent' \in Nat
  BY <1>w DEF FhTypes
<1>2. RawKnown'
  <2>1. \A i \in DOMAIN toMod' : (toMod')[i].op = "program" =>
          /\ (toMod')[i].part \in Parts
          /\ \/ pass = "program" /\ on \in {"wait", "data", "end"} /\ Wanted /\ (toMod')[i].part = Cmd.part
             \/ pass \in {"sblProgram", "reset"} /\ (toMod')[i].part = Sbl
    BY <1>w DEF RawKnown, Programs
  <2>. QED  BY <2>1, <1>w DEF RawKnown, Programs
<1>3. RawInStep'
  <2> SUFFICES ASSUME ctl = "firehose", pass # "reset" PROVE RawInStep'
    BY <1>w DEF RawInStep
  <2>1. (on \in {"send", "wait"} /\ Wanted) \/ on = "send"
    BY <1>w DEF RawInStep, FhTypes
  <2>2. NoRawAnswer => NoRawAnswer'
    BY <1>h DEF NoRawAnswer
  <2>3. NoRaw => NoRaw'
    BY <2>2, <1>w DEF NoRaw
  <2>4. ASSUME ToBegin PROVE ToBegin'
    <3>1. NoRawAnswer /\ \A i \in DOMAIN toMod : toMod[i].op = "program" => i = Len(toMod) /\ toMod[i].part = Now.part
      BY <2>4, <1>w DEF ToBegin
    <3>2. DOMAIN toMod' = 1 .. Len(toMod')
      <4>1. ASeq(toMod')
        BY TakesFacts
      <4>. QED  BY <4>1, SeqFacts
    <3>3. \A i \in DOMAIN toMod' : (toMod')[i].op = "program" => i = Len(toMod') /\ (toMod')[i].part = Now.part
      BY <3>1, <3>2, <1>w
    <3>. QED  BY <3>1, <3>3, <2>2, <1>w DEF ToBegin
  <2>5. CASE on = "send"
    BY <2>3, <2>5, <1>w DEF RawInStep
  <2>6. CASE on = "wait" /\ Wanted
    BY <2>3, <2>4, <2>6, <1>w DEF RawInStep
  <2>. QED  BY <2>1, <2>5, <2>6
<1>4. Programmed'
  <2> SUFFICES ASSUME NEW k \in DOMAIN job.table, Over(k)
               PROVE  /\ Ops(toMod') \cap {"erase", "eraseAll"} = {}
                      /\ \/ flash'[job.table[k].part] = "new"
                         \/ pass = "program" /\ on # "send" /\ Wanted /\ job.table[k].part = Cmd.part
    BY <1>w DEF Programmed
  <2>1. /\ Ops(toMod) \cap {"erase", "eraseAll"} = {}
        /\ \/ flash[job.table[k].part] = "new"
           \/ pass = "program" /\ on # "send" /\ Wanted /\ job.table[k].part = Cmd.part
    BY <1>w DEF Programmed
  <2>2. Order.op \notin {"erase", "eraseAll"}
    BY <2>1, <1>w
  <2>. QED  BY <2>1, <2>2, <1>w
<1>5. First'
  <2> SUFFICES ASSUME pass \in {"configure", "sblErase"} PROVE First'
    BY <1>w DEF First
  <2>1. /\ \A p \in Parts \ {Sbl} : flash[p] = "old"
        /\ on = "wait" /\ Len(toMod) + Len(toHost) <= 1
    BY <1>w DEF First
  <2>2. CASE pass = "configure"
    <3>1. Order.op = "configure" /\ flash[Sbl] = "old"
      BY <2>2, <1>w DEF First
    <3>. QED  BY <3>1, <2>1, <2>2, <1>a, <1>w DEF First
  <2>3. CASE pass = "sblErase"
    <3>1. /\ \A i \in DOMAIN toMod : toMod[i].op = "erase" /\ toMod[i].part = Sbl
          /\ \A i \in DOMAIN toHost : toHost[i].ack => flash[Sbl] # "old"
          /\ Order.op = "erase" /\ Order.part = Sbl
      BY <2>3, <1>w DEF First
    <3>2. flash' = flash \/ flash' = [flash EXCEPT ![Sbl] = "erased"]
      BY <3>1
    <3>3. /\ \A p \in Parts \ {Sbl} : flash'[p] = "old"
          /\ flash[Sbl] # "old" => flash'[Sbl] # "old"
          /\ m.ack => flash'[Sbl] # "old"
      BY <3>1, <3>2, <2>1, <1>w DEF FhTypes
    <3>4. \A i \in DOMAIN toHost' : (toHost')[i].ack => flash'[Sbl] # "old"
      BY <3>1, <3>3, <1>h
    <3>. QED  BY <3>1, <3>3, <3>4, <2>1, <2>3, <1>a, <1>w DEF First
  <2>. QED  BY <2>2, <2>3
<1>6. (flash'[Sbl] # "old" \/ flash[Sbl] = "old") /\ (flash'[Sbl] # "new" \/ flash[Sbl] = "new")
  BY <1>w DEF FhTypes
<1> QED  BY <1>1, <1>2, <1>3, <1>4, <1>5, <1>6, TakesKept

\* The order to program: the word to begin comes last of all.
LEMMA TakesProgram ==
    ASSUME IInv, ~Before, LoaderTakes, NEW m, toHost' = Append(toHost, m),
           raw = None, Order.op = "program", raw' = Order.part, sent' = 0,
           flash' = [flash EXCEPT ![Order.part] = "some"]
    PROVE  FhInv'
<1>w. /\ FhTypes /\ RawKnown /\ RawInStep /\ Programmed /\ First /\ Sbl \in Parts
      /\ UNCHANGED <<mod, ctl, job, pass, row, on, ignored, Now, Wanted, Cmd>> /\ ~Before'
      /\ ASeq(toHost)
      /\ \A k : Over(k)' <=> Over(k)
      /\ \A p : Programs(p)' <=> Programs(p)
      /\ toMod # <<>> /\ 1 \in DOMAIN toMod /\ Order = toMod[1] /\ Order.op \in Ops(toMod)
      /\ Len(toMod) \in Nat /\ Len(toHost) \in Nat /\ Len(toMod') = Len(toMod) - 1 /\ DOMAIN toHost = 1 .. Len(toHost)
      /\ \A i \in DOMAIN toMod' : i + 1 \in DOMAIN toMod /\ (toMod')[i] = toMod[i + 1]
      /\ Ops(toMod') \subseteq Ops(toMod) /\ (toMod' = <<>> <=> Len(toMod') = 0)
  BY TakesFacts
<1>a. /\ toHost' # <<>> /\ Len(toHost') = Len(toHost) + 1
      /\ \A i \in DOMAIN toHost' : (i \in DOMAIN toHost /\ (toHost')[i] = toHost[i]) \/ i = Len(toHost')
  <2>1. /\ Len(Append(toHost, m)) = Len(toHost) + 1 /\ ASeq(Append(toHost, m)) /\ Append(toHost, m) # <<>>
        /\ \A i \in DOMAIN Append(toHost, m) : Append(toHost, m)[i] = IF i = Len(toHost) + 1 THEN m ELSE toHost[i]
    BY <1>w, AppendFacts
  <2>2. DOMAIN Append(toHost, m) = 1 .. Len(toHost) + 1
    BY <2>1, SeqFacts
  <2>. QED  BY <2>1, <2>2, <1>w
<1>1. Order.part \in Parts /\ Programs(Order.part)
  BY <1>w DEF RawKnown
<1>2. flash' \in [Parts -> {"old", "erased", "some", "junk", "new"}] /\ sent' \in Nat
  BY <1>w DEF FhTypes
<1>3. RawKnown'
  <2>1. \A i \in DOMAIN toMod' : (toMod')[i].op = "program" =>
          /\ (toMod')[i].part \in Parts
          /\ \/ pass = "program" /\ on \in {"wait", "data", "end"} /\ Wanted /\ (toMod')[i].part = Cmd.part
             \/ pass \in {"sblProgram", "reset"} /\ (toMod')[i].part = Sbl
    BY <1>w DEF RawKnown, Programs
  <2>. QED  BY <2>1, <1>1, <1>w DEF RawKnown, Programs
<1>4. RawInStep'
  <2> SUFFICES ASSUME ctl = "firehose", pass # "reset" PROVE RawInStep'
    BY <1>w DEF RawInStep
  <2>1. on = "wait" /\ Now.op = "program" /\ Wanted
    <3>1. on \in {"read", "send", "wait", "data", "end"}
      BY <1>w DEF FhTypes
    <3>. QED  BY <3>1, <1>w DEF RawInStep, NoRaw
  <2>2. NoRawAnswer /\ 1 = Len(toMod) /\ Order.part = Now.part
    BY <2>1, <1>w DEF RawInStep, ToBegin
  <2>3. toMod' = <<>>
    BY <2>2, <1>w
  <2>4. flash'[Order.part] = "some"
    BY <1>1, <1>w DEF FhTypes
  <2>5. \A i \in DOMAIN toHost' : (toHost')[i].ack /\ (toHost')[i].raw => i = Len(toHost')
    BY <2>2, <1>a DEF NoRawAnswer
  <2>6. ToBegin'
    BY <2>2, <2>3, <2>4, <2>5, <1>a, <1>w DEF ToBegin
  <2>. QED  BY <2>1, <2>6, <1>w DEF RawInStep
<1>5. Programmed'
  <2> SUFFICES ASSUME NEW k \in DOMAIN job.table, Over(k)
               PROVE  /\ Ops(toMod') \cap {"erase", "eraseAll"} = {}
                      /\ \/ flash'[job.table[k].part] = "new"
                         \/ pass = "program" /\ on # "send" /\ Wanted /\ job.table[k].part = Cmd.part
    BY <1>w DEF Programmed
  <2>1. /\ Ops(toMod) \cap {"erase", "eraseAll"} = {}
        /\ \/ flash[job.table[k].part] = "new"
           \/ pass = "program" /\ on # "send" /\ Wanted /\ job.table[k].part = Cmd.part
    BY <1>w DEF Programmed
  <2>2. CASE job.table[k].part # Order.part
    <3>1. flash'[job.table[k].part] = flash[job.table[k].part]
      BY <2>2, <1>w DEF FhTypes
    <3>. QED  BY <3>1, <2>1, <1>w
  <2>3. CASE job.table[k].part = Order.part
    <3>1. Order.part # Sbl
      BY <2>3 DEF Over
    <3>2. pass = "program" /\ on # "send" /\ Wanted /\ Order.part = Cmd.part
      BY <3>1, <1>1 DEF Programs
    <3>. QED  BY <3>2, <2>1, <2>3, <1>w
  <2>. QED  BY <2>2, <2>3
<1>6. First'
  BY <1>1, <1>w DEF First, Programs
<1>7. (flash'[Sbl] # "old" \/ flash[Sbl] = "old") /\ (flash'[Sbl] # "new" \/ flash[Sbl] = "new")
  BY <1>w DEF FhTypes
<1> QED  BY <1>2, <1>3, <1>4, <1>5, <1>6, <1>7, TakesKept

\* Whatever the loader takes.
LEMMA TakenKept ==
    ASSUME IInv, ~Before, LoaderTakes
    PROVE  FhInv'
<1>w. FhTypes /\ ASeq(toMod) /\ ASeq(toHost) /\ Sbl \in Parts
  BY TakesFacts
<1>a. ASSUME NEW m, Answers(<<m>>)
      PROVE  toHost' = Append(toHost, m)
  BY <1>a, <1>w, AnswersFacts DEF LoaderTakes
<1>1. CASE /\ raw # None /\ flash' = [flash EXCEPT ![raw] = "junk"]
           /\ Answers(<<>>) /\ UNCHANGED <<sent, raw>>
  <2>1. toHost' = toHost
    BY <1>1, <1>w, SeqFacts DEF Answers
  <2>. QED  BY <1>1, <2>1, TakesJunk
<1>2. CASE /\ raw = None /\ (Answers(<<Nak>>) \/ Answers(<<[Nak EXCEPT !.size = TRUE]>>))
           /\ UNCHANGED <<sent, flash, raw>>
  <2>1. PICK m \in {Nak, [Nak EXCEPT !.size = TRUE]} : Answers(<<m>>)
    BY <1>2
  <2>2. m.raw = FALSE /\ m.ack = FALSE
    BY DEF Nak
  <2>3. toHost' = Append(toHost, m)
    BY <2>1, <1>a
  <2>4. flash' \in [Parts -> {"old", "erased", "some", "junk", "new"}] /\ flash' = flash
    BY <1>2, <1>w DEF FhTypes
  <2>. QED  BY <1>2, <2>2, <2>3, <2>4, TakesOrder
<1>3. CASE /\ raw = None /\ Answers(<<Ack(Order.op = "program")>>)
           /\ IF Order.op = "program"
              THEN raw' = Order.part /\ sent' = 0
              ELSE UNCHANGED <<sent, raw>>
           /\ flash' = CASE Order.op = "erase" -> [flash EXCEPT ![Order.part] = "erased"]
                         [] Order.op = "eraseAll" -> [p \in Parts |-> "erased"]
                         [] Order.op = "program" -> [flash EXCEPT ![Order.part] = "some"]
                         [] OTHER -> flash
  <2> DEFINE m == Ack(Order.op = "program")
  <2>1. m.raw = (Order.op = "program")
    BY DEF Ack
  <2>2. toHost' = Append(toHost, m)
    BY <1>3, <1>a
  <2>m. m.ack
    BY DEF Ack
  <2> HIDE DEF m
  <2>3. CASE Order.op = "program"
    <3>1. flash' = [flash EXCEPT ![Order.part] = "some"] /\ raw' = Order.part /\ sent' = 0
      BY <1>3, <2>3
    <3>. QED  BY <1>3, <2>2, <2>3, <3>1, TakesProgram
  <2>4. CASE Order.op # "program"
    <3>1. /\ UNCHANGED <<sent, raw>> /\ m.raw = FALSE
          /\ \/ flash' = flash /\ Order.op # "erase"
             \/ Order.op = "erase" /\ flash' = [flash EXCEPT ![Order.part] = "erased"]
             \/ Order.op = "eraseAll" /\ flash' = [p \in Parts |-> "erased"]
      BY <1>3, <2>1, <2>4
    <3>2. flash' \in [Parts -> {"old", "erased", "some", "junk", "new"}]
      BY <3>1, <1>w DEF FhTypes
    <3>3. Order.op = "erase" => flash' = [flash EXCEPT ![Order.part] = "erased"]
      BY <3>1
    <3>. QED  BY <1>3, <2>2, <2>m, <3>1, <3>2, <3>3, TakesOrder
  <2>. QED  BY <2>3, <2>4
<1> QED  BY <1>1, <1>2, <1>3 DEF LoaderTakes

\* The loader has the whole image.
LEMMA ImageKept ==
    ASSUME IInv, ~Before, LoaderHasImage
    PROVE  FhInv'
<1>w. /\ FhTypes /\ RawKnown /\ RawInStep /\ Programmed /\ First /\ SblErased /\ SblLast
      /\ ASeq(toMod) /\ ASeq(toHost)
  BY DEF IInv, FhInv, WireInv
<1>1. /\ mod.usb # "absent" /\ raw # None /\ sent = Size[raw] /\ raw' = None
      /\ UNCHANGED <<toMod, mod, ctl, ret, job, pass, row, on, ignored, sent>>
  BY DEF LoaderHasImage
<1>2. PICK ok \in BOOLEAN :
        /\ toHost' = Append(toHost, IF ok THEN Ack(FALSE) ELSE Nak)
        /\ flash' = [flash EXCEPT ![raw] = IF ok /\ @ = "some" THEN "new" ELSE @]
  BY DEF LoaderHasImage
<1>3. /\ ~Before' /\ UNCHANGED <<Now, Wanted, Cmd>>
      /\ \A k : Over(k)' <=> Over(k)
      /\ \A p : Programs(p)' <=> Programs(p)
  BY <1>1 DEF Before, Now, Wanted, Mine, Cmd, InLoop, Selected, Has, Over, Programs
<1>4. raw \in Parts /\ Programs(raw) /\ Sbl \in Parts /\ Size[raw] \in Nat \ {0}
  BY <1>1, <1>w, FirehoseAssumption DEF RawKnown
<1>5. flash' = flash \/ (ok /\ flash[raw] = "some" /\ flash' = [flash EXCEPT ![raw] = "new"])
  BY <1>2, <1>4, <1>w DEF FhTypes
<1>6. FhTypes'
  BY <1>1, <1>3, <1>5, <1>w DEF FhTypes
<1>7. RawKnown'
  <2>1. \A i \in DOMAIN toMod : toMod[i].op = "program" =>
          /\ toMod[i].part \in Parts
          /\ \/ pass = "program" /\ on \in {"wait", "data", "end"} /\ Wanted /\ toMod[i].part = Cmd.part
             \/ pass \in {"sblProgram", "reset"} /\ toMod[i].part = Sbl
    BY <1>w, <1>3 DEF RawKnown, Programs, Before
  <2>. QED  BY <2>1, <1>1, <1>3 DEF RawKnown, Programs
<1>8. RawInStep'
  <2> SUFFICES ASSUME ctl = "firehose", pass # "reset" PROVE RawInStep'
    BY <1>1 DEF RawInStep
  <2>1. on = "end" /\ Wanted /\ toMod = <<>> /\ Now.op = "program" /\ Begun
    <3>1. on \in {"read", "send", "wait", "data", "end"}
      BY <1>w DEF FhTypes
    <3>. QED  BY <3>1, <1>1, <1>4, <1>w DEF RawInStep, NoRaw, ToBegin, Begun
  <2>2. raw = Now.part /\ toHost = <<>> /\ flash[raw] = "some"
    BY <2>1 DEF Begun
  <2> DEFINE m == IF ok THEN Ack(FALSE) ELSE Nak
  <2>3. m.ack = ok
    BY DEF Ack, Nak
  <2>4. toHost' = Append(toHost, m)
    BY <1>2
  <2> HIDE DEF m
  <2>5. Len(toHost') = 1 /\ \A i \in DOMAIN toHost' : (toHost')[i] = m
    <3>1. /\ Len(Append(toHost, m)) = Len(toHost) + 1 /\ ASeq(Append(toHost, m))
          /\ \A i \in DOMAIN Append(toHost, m) : Append(toHost, m)[i] = IF i = Len(toHost) + 1 THEN m ELSE toHost[i]
      BY <1>w, AppendFacts
    <3>2. Len(toHost) = 0
      BY <2>2
    <3>3. DOMAIN Append(toHost, m) = 1 .. 1
      BY <3>1, <3>2, SeqFacts
    <3>. QED  BY <3>1, <3>2, <3>3, <2>4
  <2>6. ok => flash'[Now.part] = "new"
    BY <1>2, <1>4, <2>2, <1>w DEF FhTypes
  <2>. QED  BY <2>1, <2>3, <2>5, <2>6, <1>1, <1>3 DEF RawInStep
<1>9. Programmed'
  <2> SUFFICES ASSUME NEW k \in DOMAIN job.table, Over(k)
               PROVE  /\ Ops(toMod) \cap {"erase", "eraseAll"} = {}
                      /\ \/ flash'[job.table[k].part] = "new"
                         \/ pass = "program" /\ on # "send" /\ Wanted /\ job.table[k].part = Cmd.part
    BY <1>1, <1>3 DEF Programmed
  <2>1. /\ Ops(toMod) \cap {"erase", "eraseAll"} = {}
        /\ \/ flash[job.table[k].part] = "new"
           \/ pass = "program" /\ on # "send" /\ Wanted /\ job.table[k].part = Cmd.part
    BY <1>3, <1>w DEF Programmed, Before
  <2>2. flash[job.table[k].part] = "new" => flash'[job.table[k].part] = "new"
    <3>1. job.table[k].part \in Parts
      BY <1>3, <1>w, TableFacts DEF FhTypes, Over, Before
    <3>. QED  BY <3>1, <1>5, <1>4, <1>w DEF FhTypes
  <2>. QED  BY <2>1, <2>2
<1>10. First' /\ SblErased' /\ SblLast'
  <2>1. pass \notin {"configure", "sblErase"}
    BY <1>4 DEF Programs
  <2>2. First'
    BY <2>1, <1>1 DEF First
  <2>3. SblErased'
    BY <1>1, <1>3, <1>4, <1>5, <1>w DEF SblErased, Has, FhTypes
  <2>4. SblLast'
    <3>1. CASE flash'[Sbl] = flash[Sbl]
      BY <3>1, <1>1, <1>3, <1>w DEF SblLast
    <3>2. CASE flash'[Sbl] # flash[Sbl]
      <4>1. raw = Sbl
        BY <3>2, <1>4, <1>5, <1>w DEF FhTypes
      <4>2. pass \in {"sblProgram", "reset"}
        BY <4>1, <1>4 DEF Programs, Wanted, InLoop
      <4>. QED  BY <4>2, <1>1, <1>3 DEF SblLast
    <3>. QED  BY <3>1, <3>2
  <2>. QED  BY <2>2, <2>3, <2>4
<1> QED  BY <1>6, <1>7, <1>8, <1>9, <1>10 DEF FhInv

\* firehose_main as a whole.
LEMMA FhKept == IInv /\ [Next]_vars => FhInv'
<1> SUFFICES ASSUME IInv, [Next]_vars PROVE FhInv'
  OBVIOUS
<1>1. CASE FirehoseNext /\ ~Before
  BY <1>1, FixupKept, RoundKept, SendKept, ReadKept, LateKept, ChunkKept, TakenKept, ImageKept DEF FirehoseNext
<1>2. CASE ~(FirehoseNext /\ ~Before)
  BY <1>2, FhElsewhere
<1> QED  BY <1>1, <1>2
-----------------------------------------------------------------------------
\* What holds at each place of the protocols, from which the properties follow.
THEOREM SpecIInv == Spec => []IInv
<1>1. IInv /\ [Next]_vars => IInv'
  BY WireKept, RetKept, LoaderKept, BeforeKept, SaharaKept, StreamKept, FhKept DEF IInv
<1> QED  BY <1>1, InitInv, PTL DEF Spec

\* stream_download returns success only when the module has every block: the
\* answers that come after a time-out do not stand for others to the end
\* (WriteInStep, WriteLags), since close is answered after them (WriteFirst).
THEOREM DownloadWhole == Spec => []StreamWhole
<1>1. IInv => StreamWhole
  BY DEF IInv, RetInv, AllWritten, StreamWhole
<1> QED  BY <1>1, SpecIInv, PTL

\* fh_send_rawmode_image runs only when the module waits for this image: its
\* word to begin is the last thing on its way (ToBegin, RawInStep).
THEOREM DataBelongs == Spec => []DataInStep
<1>1. IInv => DataInStep
  <2> SUFFICES ASSUME IInv, ctl = "firehose", on = "data", mod.usb # "absent" PROVE raw = Now.part
    BY DEF DataInStep, Running
  <2>1. FhTypes /\ RawInStep /\ ~Before
    BY DEF IInv, FhInv, Before
  <2>. QED  BY <2>1 DEF FhTypes, RawInStep, Begun
<1> QED  BY <1>1, SpecIInv, PTL

\* The loops of firehose_main leave no partition behind that was to be
\* programmed, whatever answers were late (Programmed).
THEOREM SuccessIsProgrammed == Spec => []SuccessProgrammed
<1>1. IInv => SuccessProgrammed
  <2> SUFFICES ASSUME IInv, ret = [by |-> "firehose", ok |-> TRUE], NEW p \in Chosen \ {Sbl}
               PROVE  flash[p] = "new"
    BY DEF SuccessProgrammed
  <2>1. pass = "reset" /\ ~Before
    BY DEF IInv, RetInv, Before
  <2>2. PICK k \in DOMAIN job.table : job.table[k] = [op |-> "program", part |-> p]
    BY DEF Chosen, Has
  <2>3. Over(k)
    BY <2>1, <2>2 DEF Over, Chosen
  <2>. QED  BY <2>1, <2>2, <2>3 DEF IInv, FhInv, Programmed
<1> QED  BY <1>1, SpecIInv, PTL

\* process_sbl of firehose_main: the SBL is erased before anything else
\* (First, SblErased) and programmed after everything else (SblLast).
THEOREM BootsWholeOrNot == Spec => []BootsWhole
<1>1. IInv => BootsWhole
  <2> SUFFICES ASSUME IInv PROVE BootsWhole
    OBVIOUS
  <2>w. BeforeInv /\ FhTypes /\ Programmed /\ First /\ SblErased /\ SblLast /\ Sbl \in Parts
    BY FirehoseAssumption DEF IInv, FhInv
  <2>1. ASSUME flash[Sbl] = "new", NEW p \in Chosen \ {Sbl} PROVE flash[p] = "new"
    <3>1. ~Before /\ pass \in {"sblProgram", "reset"}
      BY <2>1, <2>w DEF SblLast
    <3>2. PICK k \in DOMAIN job.table : job.table[k] = [op |-> "program", part |-> p]
      BY <2>1 DEF Chosen, Has
    <3>3. Over(k)
      BY <2>1, <3>1, <3>2 DEF Over, Chosen
    <3>. QED  BY <3>1, <3>2, <3>3, <2>w DEF Programmed
  <2>2. ASSUME flash[Sbl] = "old", Has("erase", Sbl), "erase" \notin ignored, NEW p \in Parts \ {Sbl}
        PROVE  flash[p] = "old"
    <3>1. CASE Before
      BY <3>1, <2>w DEF BeforeInv
    <3>2. CASE ~Before
      BY <3>2, <2>2, <2>w DEF SblErased, First
    <3>. QED  BY <3>1, <3>2
  <2>. QED  BY <2>1, <2>2 DEF BootsWhole
<1> QED  BY <1>1, SpecIInv, PTL
=============================================================================
