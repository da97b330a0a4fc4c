--------------------------- MODULE QmiThreadProofs ---------------------------
(***************************************************************************)
(* Proofs about QmiThread: the type invariant, the three safety invariants *)
(* of a transaction, that the threads block each other by events only, and *)
(* the step simulation of QmiRpc, for every number of services, slices,    *)
(* events and calls.                                                       *)
(***************************************************************************)
EXTENDS QmiThread, TLAPS

USE DEF Waiting, InCall, vars, callVars, txnVars, modemVars, readerVars

\* How many increments ago counter c had the value t, if it was less than a
\* full turn.
Back(c, t) == IF tid[c] >= t THEN tid[c] - t ELSE tid[c] - t + TidMax[c]

\* Who holds the mutex, and where the reader is when the descriptor is open.
ThreadInv ==
    /\ mutex = "main" <=> mainPc \in {"send", "write"}
    /\ mutex = "reader" <=> readerPc = "notify"
    /\ readerPc = "notify" => event # NoEvent
    /\ fdOpen <=> readerPc \in {"poll", "notify", "closing"}
    /\ readerPc = "open" => mainPc = "start" /\ toMain = <<>>
    /\ mainPc = "start" => req = None
    /\ mainPc \in InCall => req # None

\* The last request composed carries the current values of its counter.
LastInv ==
    /\ \A c \in Counters : tid[c] \in 0 .. TidMax[c]
    /\ req # None => /\ tid[Counter(req.svc)] = req.tid
                     /\ sent[Counter(req.svc)] = req.n
                     /\ req.tid >= 1 /\ req.n >= 1

\* What the modem may still answer is less than a turn of the counter old, and
\* the id tells how old: this is what makes the id an identity.
Owed(r) ==
        /\ r.n >= 1 /\ r.n <= sent[Counter(r.svc)]
        /\ sent[Counter(r.svc)] - r.n < AnswerWindow[Counter(r.svc)]
        /\ r.tid >= 1 /\ r.tid <= TidMax[Counter(r.svc)]
        /\ sent[Counter(r.svc)] - r.n = Back(Counter(r.svc), r.tid)
        /\ req # None /\ Counter(r.svc) = Counter(req.svc) /\ r.n = req.n
              => r = req
ModemInv == \A r \in modem : Owed(r)

\* While a call is under way the shared pair is about that call.
TxnInv ==
    /\ mainPc \in {"send", "write"} => sRequest = req /\ sResponse = None
    /\ mainPc \in Waiting => /\ sRequest \in {None, req}
                             /\ sResponse \in {None, req}
                             /\ sResponse # None => req \notin live
    /\ mainPc = "lock" => req \in live /\ sRequest # req
    /\ mainPc \in InCall => ppResponse = None
    /\ sRequest # None => /\ sRequest \in live
                          /\ sRequest.n <= sent[Counter(sRequest.svc)]
    /\ ppResponse # None => ppResponse = req /\ req \notin live
    /\ readerPc = "exited" /\ mainPc \in Waiting => sRequest = None

\* A main thread that joins has told the reader to quit, unless the reader has
\* told it first that it goes.
StopInv ==
    /\ mainPc = "join" /\ readerPc \in {"open", "poll", "notify"} => "quit" \in toReader
    /\ readerPc \in {"poll", "notify", "closing", "bye"}
          => \A i \in 1 .. Len(toMain) : toMain[i] # "disconnected"

IInv == TypeOK /\ ThreadInv /\ LastInv /\ ModemInv /\ TxnInv /\ StopInv
-----------------------------------------------------------------------------
LEMMA InitIInv == Init => IInv
<1> SUFFICES ASSUME Init PROVE IInv
  OBVIOUS
<1> USE DEF Init
<1>1. TypeOK
  <2>1. MainTypeOK
    BY BoundsAssumption DEF MainTypeOK
  <2>2. TxnTypeOK
    BY DEF TxnTypeOK
  <2>3. ModemTypeOK
    BY DEF ModemTypeOK
  <2>4. ReaderTypeOK
    BY DEF ReaderTypeOK
  <2>5. SocketTypeOK
    BY DEF SocketTypeOK
  <2> QED
    BY <2>1, <2>2, <2>3, <2>4, <2>5 DEF TypeOK
<1>2. ThreadInv
  BY DEF Init, ThreadInv
<1>3. LastInv /\ ModemInv
  BY WindowAssumption DEF Init, LastInv, ModemInv, Counters
<1>4. TxnInv /\ StopInv
  BY DEF Init, TxnInv, StopInv
<1> QED
  BY <1>1, <1>2, <1>3, <1>4 DEF IInv

\* What Call composes is a request, and its id is within the counter.
LEMMA RequestTyped ==
    ASSUME IInv, NEW s \in Services
    PROVE  /\ Counter(s) \in Counters
           /\ NextTid(Counter(s)) \in 1 .. TidMax[Counter(s)]
           /\ [svc |-> s, tid |-> NextTid(Counter(s)), n |-> sent[Counter(s)] + 1]
                \in Requests \ {None}
<1> DEFINE c == Counter(s)
<1>1. c \in Counters
  BY DEF Counter, Counters
<1>2. TidMax[c] \in Nat /\ TidMax[c] >= 1 /\ tid[c] \in 0 .. TidMax[c]
      /\ sent[c] \in Nat
  BY <1>1, WindowAssumption DEF IInv, TypeOK, ModemTypeOK, LastInv
<1> HIDE DEF c
<1>3. NextTid(c) \in 1 .. TidMax[c]
  BY <1>2 DEF NextTid
<1>4. NextTid(c) \in Nat /\ sent[c] + 1 \in Nat
  BY <1>2, <1>3
<1>5. [svc |-> s, tid |-> NextTid(c), n |-> sent[c] + 1] \in Requests
  BY <1>4 DEF Requests
<1> QED
  BY <1>1, <1>3, <1>5, EventsAssumption DEF c

\* The heart of it: an answer that matches while a call waits is its own.
LEMMA MatchIsOwn ==
    ASSUME IInv, NEW r \in modem, Matches(r), mainPc \in Waiting
    PROVE  r = req
<1> DEFINE c == Counter(req.svc)
<1>1. sRequest = req /\ req # None /\ req \in Requests /\ r \in Requests
  BY DEF IInv, TypeOK, MainTypeOK, ModemTypeOK, ThreadInv, TxnInv, Matches
<1>2. QmiType[req.svc] = QmiType[r.svc] /\ req.tid = r.tid
  BY <1>1 DEF Matches, IsResponse
<1>3. Counter(r.svc) = c /\ c \in Counters
  BY <1>1, <1>2, ServicesAssumption DEF Counter, Counters, Requests
<1>4. tid[c] = r.tid /\ sent[c] = req.n /\ tid[c] \in Nat /\ sent[c] \in Nat
  BY <1>1, <1>2, <1>3 DEF IInv, LastInv, TypeOK, ModemTypeOK
<1>5. sent[c] - r.n = Back(c, r.tid) /\ (r.n = req.n => r = req)
  BY <1>1, <1>3 DEF IInv, ModemInv, Owed
<1>6. r.n \in Nat /\ Back(c, r.tid) = 0
  BY <1>1, <1>4 DEF Back, Requests
<1> QED
  BY <1>4, <1>5, <1>6

\* The variables of the main thread keep their types.
LEMMA MainTypeStep ==
    ASSUME IInv, [Next]_vars
    PROVE  MainTypeOK'
<1>1. ASSUME MainStart PROVE MainTypeOK'
  BY <1>1 DEF MainStart, IInv, TypeOK, MainTypeOK
<1>2. ASSUME SendLock PROVE MainTypeOK'
  BY <1>2 DEF SendLock, IInv, TypeOK, MainTypeOK
<1>3. ASSUME WriteFails PROVE MainTypeOK'
  BY <1>3 DEF WriteFails, Return, IInv, TypeOK, MainTypeOK
<1>4. ASSUME Woken PROVE MainTypeOK'
  BY <1>4 DEF Woken, Return, TxnTypeOK, IInv, TypeOK, MainTypeOK
<1>5. ASSUME SendCheck PROVE MainTypeOK'
  BY <1>5, BoundsAssumption DEF SendCheck, Return, IInv, TypeOK, MainTypeOK
<1>6. ASSUME WriteOk PROVE MainTypeOK'
  BY <1>6, BoundsAssumption DEF WriteOk, BeginWait, IInv, TypeOK, MainTypeOK
<1>7. ASSUME WriteStalled PROVE MainTypeOK'
  BY <1>7, BoundsAssumption DEF WriteStalled, BeginWait, IInv, TypeOK,
    MainTypeOK
<1>8. ASSUME NextSlice PROVE MainTypeOK'
  BY <1>8, BoundsAssumption DEF NextSlice, Return, IInv, TypeOK, MainTypeOK
<1>9. ASSUME SliceExpires PROVE MainTypeOK'
  BY <1>9 DEF SliceExpires, WaitEnds, IInv, TypeOK, MainTypeOK
<1>10. ASSUME SpuriousWake PROVE MainTypeOK'
  BY <1>10 DEF SpuriousWake, WaitEnds, IInv, TypeOK, MainTypeOK
<1>11. ASSUME MainEvent PROVE MainTypeOK'
  BY <1>11 DEF MainEvent, IInv, TypeOK, MainTypeOK
<1>12. ASSUME MainStop PROVE MainTypeOK'
  BY <1>12 DEF MainStop, IInv, TypeOK, MainTypeOK
<1>13. ASSUME MainJoin PROVE MainTypeOK'
  BY <1>13 DEF MainJoin, IInv, TypeOK, MainTypeOK
<1>14. ASSUME NEW s \in Services, Call(s) PROVE MainTypeOK'
  BY <1>14, RequestTyped, BoundsAssumption DEF Call, IInv, TypeOK, MainTypeOK
<1>15. ASSUME Notify PROVE MainTypeOK'
  BY <1>15 DEF Notify, IInv, TypeOK, MainTypeOK
<1>16. ASSUME Exit PROVE MainTypeOK'
  BY <1>16 DEF Exit, Cancel, Wake, IInv, TypeOK, MainTypeOK
<1>17. ASSUME PollTimeout PROVE MainTypeOK'
  BY <1>17 DEF PollTimeout, Cancel, Wake, IInv, TypeOK, MainTypeOK
<1>18. ASSUME NEW r \in modem, RecvAnswer(r) PROVE MainTypeOK'
  BY <1>18 DEF RecvAnswer, Wake, IInv, TypeOK, MainTypeOK
<1>19. ASSUME NEW r \in modem, RecvStray(r) PROVE MainTypeOK'
  BY <1>19 DEF RecvStray, IInv, TypeOK, MainTypeOK
<1>20. ASSUME NEW i \in Indications, RecvIndication(i) PROVE MainTypeOK'
  BY <1>20 DEF RecvIndication, IInv, TypeOK, MainTypeOK
<1>21. ASSUME Signal \/ OpenOk \/ OpenFails \/ ReadStop \/ ReadQuit \/ Close
  \/ Bye \/ Hangup \/ (\E r \in modem : Discard(r)) \/ UNCHANGED vars
      PROVE  MainTypeOK'
  BY <1>21 DEF Signal, OpenOk, OpenFails, ReadStop, ReadQuit, Close, Bye,
    Hangup, Discard, IInv, TypeOK, MainTypeOK
<1> QED
  BY <1>1, <1>2, <1>3, <1>4, <1>5, <1>6, <1>7, <1>8, <1>9, <1>10, <1>11,
    <1>12, <1>13, <1>14, <1>15, <1>16, <1>17, <1>18, <1>19, <1>20, <1>21 DEF
    Next, MainStep, ReaderStep, ReceiveStep, Terminated

\* The shared pair and the heap keep their types.
LEMMA TxnTypeStep ==
    ASSUME IInv, [Next]_vars
    PROVE  TxnTypeOK'
<1>1. ASSUME NEW s \in Services, Call(s) PROVE TxnTypeOK'
  BY <1>1, RequestTyped DEF Call, IInv, TypeOK, TxnTypeOK
<1>2. ASSUME SendLock PROVE TxnTypeOK'
  BY <1>2 DEF SendLock, MainTypeOK, IInv, TypeOK, TxnTypeOK
<1>3. ASSUME PollTimeout PROVE TxnTypeOK'
  BY <1>3 DEF PollTimeout, Cancel, Wake, IInv, TypeOK, TxnTypeOK
<1>4. ASSUME Exit PROVE TxnTypeOK'
  BY <1>4 DEF Exit, Cancel, Wake, IInv, TypeOK, TxnTypeOK
<1>5. ASSUME NEW r \in modem, RecvAnswer(r) PROVE TxnTypeOK'
  BY <1>5 DEF RecvAnswer, Wake, ModemTypeOK, IInv, TypeOK, TxnTypeOK
<1>6. ASSUME MainStart \/ SendCheck \/ WriteOk \/ WriteStalled \/ WriteFails
  \/ SliceExpires \/ SpuriousWake \/ NextSlice \/ Woken \/ MainEvent \/
  MainStop \/ MainJoin \/ Signal \/ OpenOk \/ OpenFails \/ ReadStop \/
  ReadQuit \/ Notify \/ Close \/ Bye \/ Hangup \/ (\E r \in modem :
  RecvStray(r) \/ Discard(r)) \/ (\E i \in Indications : RecvIndication(i)) \/
  UNCHANGED vars
      PROVE  TxnTypeOK'
  BY <1>6 DEF MainStart, SendCheck, WriteOk, WriteStalled, WriteFails,
    SliceExpires, SpuriousWake, NextSlice, Woken, MainEvent, MainStop,
    MainJoin, Signal, OpenOk, OpenFails, ReadStop, ReadQuit, Notify, Close,
    Bye, Hangup, RecvStray, Discard, RecvIndication, BeginWait, Return,
    WaitEnds, IInv, TypeOK, TxnTypeOK
<1> QED
  BY <1>1, <1>2, <1>3, <1>4, <1>5, <1>6 DEF Next, MainStep, ReaderStep,
    ReceiveStep, Terminated

\* The counters and what the modem owes keep their types.
LEMMA ModemTypeStep ==
    ASSUME IInv, [Next]_vars
    PROVE  ModemTypeOK'
<1>1. ASSUME NEW s \in Services, Call(s) PROVE ModemTypeOK'
  BY <1>1, RequestTyped DEF Call, IInv, TypeOK, ModemTypeOK
<1>2. ASSUME WriteOk PROVE ModemTypeOK'
  BY <1>2 DEF WriteOk, BeginWait, MainTypeOK, ThreadInv, IInv, TypeOK,
    ModemTypeOK
<1>3. ASSUME NEW r \in modem, RecvAnswer(r) PROVE ModemTypeOK'
  BY <1>3 DEF RecvAnswer, Wake, IInv, TypeOK, ModemTypeOK
<1>4. ASSUME NEW r \in modem, RecvStray(r) PROVE ModemTypeOK'
  BY <1>4 DEF RecvStray, IInv, TypeOK, ModemTypeOK
<1>5. ASSUME NEW r \in modem, Discard(r) PROVE ModemTypeOK'
  BY <1>5 DEF Discard, IInv, TypeOK, ModemTypeOK
<1>6. ASSUME NEW i \in Indications, RecvIndication(i) PROVE ModemTypeOK'
  BY <1>6 DEF RecvIndication, IInv, TypeOK, ModemTypeOK
<1>7. ASSUME MainStart \/ SendLock \/ SendCheck \/ WriteStalled \/ WriteFails
  \/ SliceExpires \/ SpuriousWake \/ NextSlice \/ Woken \/ MainEvent \/
  MainStop \/ MainJoin \/ Signal \/ OpenOk \/ OpenFails \/ ReadStop \/
  ReadQuit \/ Notify \/ Close \/ Bye \/ Exit \/ Hangup \/ PollTimeout \/
  UNCHANGED vars
      PROVE  ModemTypeOK'
  BY <1>7 DEF MainStart, SendLock, SendCheck, WriteStalled, WriteFails,
    SliceExpires, SpuriousWake, NextSlice, Woken, MainEvent, MainStop,
    MainJoin, Signal, OpenOk, OpenFails, ReadStop, ReadQuit, Notify, Close,
    Bye, Exit, Hangup, PollTimeout, BeginWait, Cancel, Return, WaitEnds, Wake,
    IInv, TypeOK, ModemTypeOK
<1> QED
  BY <1>1, <1>2, <1>3, <1>4, <1>5, <1>6, <1>7 DEF Next, MainStep, ReaderStep,
    ReceiveStep, Terminated

\* The variables of the reader keep their types.
LEMMA ReaderTypeStep ==
    ASSUME IInv, [Next]_vars
    PROVE  ReaderTypeOK'
<1>1. ASSUME Signal PROVE ReaderTypeOK'
  BY <1>1 DEF Signal, IInv, TypeOK, ReaderTypeOK
<1>2. ASSUME OpenOk PROVE ReaderTypeOK'
  BY <1>2 DEF OpenOk, IInv, TypeOK, ReaderTypeOK
<1>3. ASSUME OpenFails PROVE ReaderTypeOK'
  BY <1>3 DEF OpenFails, IInv, TypeOK, ReaderTypeOK
<1>4. ASSUME ReadStop PROVE ReaderTypeOK'
  BY <1>4 DEF ReadStop, IInv, TypeOK, ReaderTypeOK
<1>5. ASSUME ReadQuit PROVE ReaderTypeOK'
  BY <1>5 DEF ReadQuit, IInv, TypeOK, ReaderTypeOK
<1>6. ASSUME Notify PROVE ReaderTypeOK'
  BY <1>6 DEF Notify, IInv, TypeOK, ReaderTypeOK
<1>7. ASSUME Close PROVE ReaderTypeOK'
  BY <1>7 DEF Close, IInv, TypeOK, ReaderTypeOK
<1>8. ASSUME Bye PROVE ReaderTypeOK'
  BY <1>8 DEF Bye, IInv, TypeOK, ReaderTypeOK
<1>9. ASSUME Exit PROVE ReaderTypeOK'
  BY <1>9 DEF Exit, Cancel, Wake, IInv, TypeOK, ReaderTypeOK
<1>10. ASSUME Hangup PROVE ReaderTypeOK'
  BY <1>10 DEF Hangup, IInv, TypeOK, ReaderTypeOK
<1>11. ASSUME NEW r \in modem, RecvStray(r) PROVE ReaderTypeOK'
  BY <1>11, ServicesAssumption DEF RecvStray, ModemTypeOK, Requests, IInv,
    TypeOK, ReaderTypeOK
<1>12. ASSUME NEW i \in Indications, RecvIndication(i) PROVE ReaderTypeOK'
  BY <1>12 DEF RecvIndication, IInv, TypeOK, ReaderTypeOK
<1>13. ASSUME MainStart \/ SendLock \/ SendCheck \/ WriteOk \/ WriteStalled \/
  WriteFails \/ SliceExpires \/ SpuriousWake \/ NextSlice \/ Woken \/
  MainEvent \/ MainStop \/ MainJoin \/ PollTimeout \/ (\E r \in modem :
  RecvAnswer(r) \/ Discard(r)) \/ (\E s \in Services : Call(s)) \/ UNCHANGED
  vars
      PROVE  ReaderTypeOK'
  BY <1>13 DEF MainStart, SendLock, SendCheck, WriteOk, WriteStalled,
    WriteFails, SliceExpires, SpuriousWake, NextSlice, Woken, MainEvent,
    MainStop, MainJoin, Call, PollTimeout, RecvAnswer, Discard, BeginWait,
    Cancel, Return, WaitEnds, Wake, IInv, TypeOK, ReaderTypeOK
<1> QED
  BY <1>1, <1>2, <1>3, <1>4, <1>5, <1>6, <1>7, <1>8, <1>9, <1>10, <1>11,
    <1>12, <1>13 DEF Next, MainStep, ReaderStep, ReceiveStep, Terminated

\* Both directions of the socketpair keep their types.
LEMMA SocketTypeStep ==
    ASSUME IInv, [Next]_vars
    PROVE  SocketTypeOK'
<1>1. ASSUME MainStart PROVE SocketTypeOK'
  BY <1>1 DEF MainStart, IInv, TypeOK, SocketTypeOK, Events
<1>2. ASSUME MainEvent PROVE SocketTypeOK'
  BY <1>2 DEF MainEvent, IInv, TypeOK, SocketTypeOK, Events
<1>3. ASSUME MainStop PROVE SocketTypeOK'
  BY <1>3 DEF MainStop, IInv, TypeOK, SocketTypeOK, Events
<1>4. ASSUME Signal PROVE SocketTypeOK'
  BY <1>4 DEF Signal, IInv, TypeOK, SocketTypeOK, Events
<1>5. ASSUME OpenOk PROVE SocketTypeOK'
  BY <1>5 DEF OpenOk, IInv, TypeOK, SocketTypeOK, Events
<1>6. ASSUME OpenFails PROVE SocketTypeOK'
  BY <1>6 DEF OpenFails, IInv, TypeOK, SocketTypeOK, Events
<1>7. ASSUME ReadStop PROVE SocketTypeOK'
  BY <1>7 DEF ReadStop, IInv, TypeOK, SocketTypeOK, Events
<1>8. ASSUME ReadQuit PROVE SocketTypeOK'
  BY <1>8 DEF ReadQuit, IInv, TypeOK, SocketTypeOK, Events
<1>9. ASSUME Notify PROVE SocketTypeOK'
  BY <1>9 DEF Notify, ReaderTypeOK, ThreadInv, IInv, TypeOK, SocketTypeOK,
    Events
<1>10. ASSUME Bye PROVE SocketTypeOK'
  BY <1>10 DEF Bye, IInv, TypeOK, SocketTypeOK, Events
<1>11. ASSUME SendLock \/ SendCheck \/ WriteOk \/ WriteStalled \/ WriteFails
  \/ SliceExpires \/ SpuriousWake \/ NextSlice \/ Woken \/ MainJoin \/ Close
  \/ Exit \/ Hangup \/ PollTimeout \/ (\E r \in modem : RecvAnswer(r) \/
  RecvStray(r) \/ Discard(r)) \/ (\E i \in Indications : RecvIndication(i)) \/
  (\E s \in Services : Call(s)) \/ UNCHANGED vars
      PROVE  SocketTypeOK'
  BY <1>11 DEF SendLock, SendCheck, WriteOk, WriteStalled, WriteFails,
    SliceExpires, SpuriousWake, NextSlice, Woken, MainJoin, Call, Close, Exit,
    Hangup, PollTimeout, RecvAnswer, RecvStray, Discard, RecvIndication,
    BeginWait, Cancel, Return, WaitEnds, Wake, IInv, TypeOK, SocketTypeOK,
    Events
<1> QED
  BY <1>1, <1>2, <1>3, <1>4, <1>5, <1>6, <1>7, <1>8, <1>9, <1>10, <1>11 DEF
    Next, MainStep, ReaderStep, ReceiveStep, Terminated

\* The program counters agree with the mutex and the descriptor.
LEMMA ThreadStep ==
    ASSUME IInv, [Next]_vars
    PROVE  ThreadInv'
<1>1. ASSUME MainStart PROVE ThreadInv'
  BY <1>1 DEF MainStart, IInv, ThreadInv
<1>2. ASSUME SendLock PROVE ThreadInv'
  BY <1>2 DEF SendLock, IInv, ThreadInv
<1>3. ASSUME SendCheck PROVE ThreadInv'
  BY <1>3 DEF SendCheck, Return, IInv, ThreadInv
<1>4. ASSUME WriteOk PROVE ThreadInv'
  BY <1>4 DEF WriteOk, BeginWait, IInv, ThreadInv
<1>5. ASSUME WriteStalled PROVE ThreadInv'
  BY <1>5 DEF WriteStalled, BeginWait, IInv, ThreadInv
<1>6. ASSUME WriteFails PROVE ThreadInv'
  BY <1>6 DEF WriteFails, Return, IInv, ThreadInv
<1>7. ASSUME SliceExpires PROVE ThreadInv'
  BY <1>7 DEF SliceExpires, WaitEnds, IInv, ThreadInv
<1>8. ASSUME SpuriousWake PROVE ThreadInv'
  BY <1>8 DEF SpuriousWake, WaitEnds, IInv, ThreadInv
<1>9. ASSUME NextSlice PROVE ThreadInv'
  BY <1>9 DEF NextSlice, Return, IInv, ThreadInv
<1>10. ASSUME Woken PROVE ThreadInv'
  BY <1>10 DEF Woken, Return, IInv, ThreadInv
<1>11. ASSUME MainEvent PROVE ThreadInv'
  BY <1>11 DEF MainEvent, IInv, ThreadInv
<1>12. ASSUME MainStop PROVE ThreadInv'
  BY <1>12 DEF MainStop, IInv, ThreadInv
<1>13. ASSUME MainJoin PROVE ThreadInv'
  BY <1>13 DEF MainJoin, IInv, ThreadInv
<1>14. ASSUME NEW s \in Services, Call(s) PROVE ThreadInv'
  BY <1>14, RequestTyped DEF Call, IInv, ThreadInv
<1>15. ASSUME OpenOk PROVE ThreadInv'
  BY <1>15 DEF OpenOk, IInv, ThreadInv
<1>16. ASSUME OpenFails PROVE ThreadInv'
  BY <1>16 DEF OpenFails, IInv, ThreadInv
<1>17. ASSUME ReadQuit PROVE ThreadInv'
  BY <1>17 DEF ReadQuit, IInv, ThreadInv
<1>18. ASSUME Notify PROVE ThreadInv'
  BY <1>18 DEF Notify, IInv, ThreadInv
<1>19. ASSUME Close PROVE ThreadInv'
  BY <1>19 DEF Close, IInv, ThreadInv
<1>20. ASSUME Bye PROVE ThreadInv'
  BY <1>20 DEF Bye, IInv, ThreadInv
<1>21. ASSUME Exit PROVE ThreadInv'
  BY <1>21 DEF Exit, Cancel, Wake, IInv, ThreadInv
<1>22. ASSUME Hangup PROVE ThreadInv'
  BY <1>22 DEF Hangup, IInv, ThreadInv
<1>23. ASSUME PollTimeout PROVE ThreadInv'
  BY <1>23 DEF PollTimeout, Cancel, Wake, IInv, ThreadInv
<1>24. ASSUME NEW r \in modem, RecvAnswer(r) PROVE ThreadInv'
  BY <1>24 DEF RecvAnswer, Wake, IInv, ThreadInv
<1>25. ASSUME NEW r \in modem, RecvStray(r) PROVE ThreadInv'
  BY <1>25 DEF RecvStray, IInv, ThreadInv
<1>26. ASSUME NEW i \in Indications, RecvIndication(i) PROVE ThreadInv'
  BY <1>26, EventsAssumption DEF RecvIndication, IInv, ThreadInv
<1>27. ASSUME Signal \/ ReadStop \/ (\E r \in modem : Discard(r)) \/ UNCHANGED
  vars
      PROVE  ThreadInv'
  BY <1>27 DEF Signal, ReadStop, Discard, IInv, ThreadInv
<1> QED
  BY <1>1, <1>2, <1>3, <1>4, <1>5, <1>6, <1>7, <1>8, <1>9, <1>10, <1>11,
    <1>12, <1>13, <1>14, <1>15, <1>16, <1>17, <1>18, <1>19, <1>20, <1>21,
    <1>22, <1>23, <1>24, <1>25, <1>26, <1>27 DEF Next, MainStep, ReaderStep,
    ReceiveStep, Terminated

\* The last request carries the current values of its counter.
LEMMA LastStep ==
    ASSUME IInv, [Next]_vars
    PROVE  LastInv'
<1>1. ASSUME NEW s \in Services, Call(s) PROVE LastInv'
  <2> DEFINE c == Counter(s)
  <2>1. c \in Counters /\ NextTid(c) \in 1 .. TidMax[c]
    BY RequestTyped
  <2>2. req' = [svc |-> s, tid |-> NextTid(c), n |-> sent[c] + 1]
        /\ tid' = [tid EXCEPT ![c] = NextTid(c)]
        /\ sent' = [sent EXCEPT ![c] = @ + 1]
    BY <1>1 DEF Call
  <2>3. Counter(req'.svc) = c
    BY <2>2
  <2>4. tid \in [Counters -> Nat] /\ sent \in [Counters -> Nat]
    BY DEF IInv, TypeOK, ModemTypeOK
  <2> HIDE DEF c
  <2>5. tid'[c] = req'.tid /\ sent'[c] = req'.n /\ req'.tid >= 1 /\ req'.n >= 1
    BY <2>1, <2>2, <2>4
  <2>6. \A d \in Counters : tid'[d] \in 0 .. TidMax[d]
    <3> SUFFICES ASSUME NEW d \in Counters PROVE tid'[d] \in 0 .. TidMax[d]
      OBVIOUS
    <3>1. CASE d = c
      BY <3>1, <2>1, <2>2, <2>4, WindowAssumption
    <3>2. CASE d # c
      BY <3>2, <2>2, <2>4 DEF IInv, LastInv
    <3> QED
      BY <3>1, <3>2
  <2> QED
    BY <2>3, <2>5, <2>6 DEF LastInv
<1>2. ASSUME MainStart \/ SendLock \/ SendCheck \/ WriteOk \/ WriteStalled \/
  WriteFails \/ SliceExpires \/ SpuriousWake \/ NextSlice \/ Woken \/
  MainEvent \/ MainStop \/ MainJoin \/ Signal \/ OpenOk \/ OpenFails \/
  ReadStop \/ ReadQuit \/ Notify \/ Close \/ Bye \/ Exit \/ Hangup \/
  PollTimeout \/ (\E r \in modem : RecvAnswer(r) \/ RecvStray(r) \/
  Discard(r)) \/ (\E i \in Indications : RecvIndication(i)) \/ UNCHANGED vars
      PROVE  LastInv'
  BY <1>2 DEF MainStart, SendLock, SendCheck, WriteOk, WriteStalled,
    WriteFails, SliceExpires, SpuriousWake, NextSlice, Woken, MainEvent,
    MainStop, MainJoin, Signal, OpenOk, OpenFails, ReadStop, ReadQuit, Notify,
    Close, Bye, Exit, Hangup, PollTimeout, RecvAnswer, RecvStray, Discard,
    RecvIndication, BeginWait, Cancel, Return, WaitEnds, Wake, IInv, LastInv
<1> QED
  BY <1>1, <1>2 DEF Next, MainStep, ReaderStep, ReceiveStep, Terminated

\* What the modem may still answer stays within one turn of its counter.
LEMMA ModemStep ==
    ASSUME IInv, [Next]_vars
    PROVE  ModemInv'
<1>1. ASSUME NEW s \in Services, Call(s) PROVE ModemInv'
  <2> DEFINE c == Counter(s)
  <2>1. c \in Counters /\ NextTid(c) \in 1 .. TidMax[c]
    BY RequestTyped
  <2>2. /\ req' = [svc |-> s, tid |-> NextTid(c), n |-> sent[c] + 1]
        /\ tid' = [tid EXCEPT ![c] = NextTid(c)]
        /\ sent' = [sent EXCEPT ![c] = @ + 1]
        /\ modem' = {m \in modem : Counter(m.svc) = c
                         => sent[c] + 1 - m.n < AnswerWindow[c]}
    BY <1>1 DEF Call
  <2>3. Counter(req'.svc) = c
    BY <2>2
  <2>4. tid \in [Counters -> Nat] /\ sent \in [Counters -> Nat]
    BY DEF IInv, TypeOK, ModemTypeOK
  <2> HIDE DEF c
  <2>5. tid'[c] = NextTid(c) /\ sent'[c] = sent[c] + 1 /\ req'.n = sent[c] + 1
    BY <2>1, <2>2, <2>4
  <2>6. /\ TidMax[c] \in Nat \ {0} /\ AnswerWindow[c] <= TidMax[c]
        /\ AnswerWindow[c] \in Nat /\ sent[c] \in Nat /\ tid[c] \in 0 .. TidMax[c]
    BY <2>1, <2>4, WindowAssumption DEF IInv, LastInv
  <2> SUFFICES ASSUME NEW m \in modem' PROVE Owed(m)'
    BY DEF ModemInv
  <2>7. /\ m \in modem /\ m \in Requests /\ Owed(m)
        /\ Counter(m.svc) = c => sent[c] + 1 - m.n < AnswerWindow[c]
    BY <2>2 DEF IInv, TypeOK, ModemTypeOK, ModemInv
  <2>8. CASE Counter(m.svc) = c
    <3>1. /\ m.n \in Nat /\ m.n >= 1 /\ m.n <= sent[c]
          /\ m.tid \in Nat /\ m.tid >= 1 /\ m.tid <= TidMax[c]
          /\ sent[c] - m.n = Back(c, m.tid)
      BY <2>7, <2>8 DEF Owed, Requests
    <3>2. sent[c] + 1 - m.n < TidMax[c]
      BY <2>6, <2>7, <2>8, <3>1
    <3>3. Back(c, m.tid)' = IF NextTid(c) >= m.tid THEN NextTid(c) - m.tid
                                ELSE NextTid(c) - m.tid + TidMax[c]
      BY <2>5 DEF Back
    <3>4. Back(c, m.tid)' = sent[c] + 1 - m.n
      BY <2>6, <3>1, <3>2, <3>3 DEF Back, NextTid
    <3> QED
      BY <2>3, <2>5, <2>6, <2>7, <2>8, <3>1, <3>4 DEF Owed
  <2>9. CASE Counter(m.svc) # c
    <3>1. Counter(m.svc) \in Counters
      BY DEF Counter, Counters
    <3>2. /\ tid'[Counter(m.svc)] = tid[Counter(m.svc)]
          /\ sent'[Counter(m.svc)] = sent[Counter(m.svc)]
      BY <2>2, <2>4, <2>9, <3>1
    <3> QED
      BY <2>3, <2>7, <2>9, <3>1, <3>2 DEF Owed, Back
  <2> QED
    BY <2>8, <2>9
<1>2. ASSUME WriteOk PROVE ModemInv'
  <2>1. /\ modem' = modem \cup {req}
        /\ UNCHANGED <<req, tid, sent>>
        /\ mainPc = "write"
    BY <1>2 DEF WriteOk, BeginWait
  <2>2. req \in Requests /\ req # None
    BY <2>1 DEF IInv, TypeOK, MainTypeOK, ThreadInv
  <2> DEFINE c == Counter(req.svc)
  <2>3. /\ c \in Counters /\ tid[c] = req.tid /\ sent[c] = req.n /\ req.tid >= 1
        /\ tid[c] <= TidMax[c] /\ AnswerWindow[c] \in Nat \ {0}
    BY <2>2, WindowAssumption DEF Counter, Counters, IInv, LastInv
  <2> SUFFICES ASSUME NEW m \in modem' PROVE Owed(m)'
    BY DEF ModemInv
  <2>4. CASE m = req
    <3>1. tid' = tid /\ sent' = sent /\ req' = req
      BY <2>1
    <3>2. req.tid \in Nat /\ req.n \in Nat /\ Back(c, req.tid)' = 0
      BY <2>2, <2>3, <3>1 DEF Back, Requests
    <3>3. req.n >= 1
      BY <2>2 DEF IInv, LastInv
    <3> QED
      BY <2>2, <2>3, <2>4, <3>1, <3>2, <3>3 DEF Owed
  <2>5. CASE m \in modem
    BY <2>1, <2>5 DEF Owed, Back, IInv, ModemInv
  <2> QED
    BY <2>1, <2>4, <2>5
<1>3. ASSUME NEW r \in modem, RecvAnswer(r) PROVE ModemInv'
  BY <1>3 DEF RecvAnswer, Wake, Owed, Back, IInv, ModemInv
<1>4. ASSUME NEW r \in modem, RecvStray(r) PROVE ModemInv'
  BY <1>4 DEF RecvStray, Owed, Back, IInv, ModemInv
<1>5. ASSUME NEW r \in modem, Discard(r) PROVE ModemInv'
  BY <1>5 DEF Discard, Owed, Back, IInv, ModemInv
<1>6. ASSUME MainStart \/ SendLock \/ SendCheck \/ WriteStalled \/ WriteFails
  \/ SliceExpires \/ SpuriousWake \/ NextSlice \/ Woken \/ MainEvent \/
  MainStop \/ MainJoin \/ Signal \/ OpenOk \/ OpenFails \/ ReadStop \/
  ReadQuit \/ Notify \/ Close \/ Bye \/ Exit \/ Hangup \/ PollTimeout \/ (\E i
  \in Indications : RecvIndication(i)) \/ UNCHANGED vars
      PROVE  ModemInv'
  BY <1>6 DEF MainStart, SendLock, SendCheck, WriteStalled, WriteFails,
    SliceExpires, SpuriousWake, NextSlice, Woken, MainEvent, MainStop,
    MainJoin, Signal, OpenOk, OpenFails, ReadStop, ReadQuit, Notify, Close,
    Bye, Exit, Hangup, PollTimeout, RecvIndication, BeginWait, Cancel, Return,
    WaitEnds, Wake, IInv, ModemInv, Owed, Back
<1> QED
  BY <1>1, <1>2, <1>3, <1>4, <1>5, <1>6 DEF Next, MainStep, ReaderStep,
    ReceiveStep, Terminated

\* The shared pair is about the call under way.
LEMMA TxnStep ==
    ASSUME IInv, [Next]_vars
    PROVE  TxnInv'
<1>1. ASSUME NEW s \in Services, Call(s) PROVE TxnInv'
  <2> DEFINE c == Counter(s)
              r == [svc |-> s, tid |-> NextTid(c), n |-> sent[c] + 1]
  <2>1. c \in Counters /\ r \in Requests /\ r # None
    BY RequestTyped
  <2>2. /\ req' = r /\ r.n = sent[c] + 1 /\ Counter(r.svc) = c
        /\ sent' = [sent EXCEPT ![c] = @ + 1]
        /\ live' = live \cup {r} /\ sRequest' = sRequest
        /\ mainPc' = "lock" /\ ppResponse' = None
    BY <1>1 DEF Call
  <2>3. sent \in [Counters -> Nat] /\ sRequest \in Requests \cup {None}
    BY DEF IInv, TypeOK, ModemTypeOK, TxnTypeOK
  <2>4. /\ sRequest # None => /\ sRequest \in live
                             /\ sRequest.n \in Nat
                             /\ sRequest.n <= sent[Counter(sRequest.svc)]
                             /\ Counter(sRequest.svc) \in Counters
    BY <2>3 DEF IInv, TxnInv, Counter, Counters, Requests
  <2> HIDE DEF c, r
  <2>5. sent'[c] = sent[c] + 1 /\ \A d \in Counters : sent[d] \in Nat /\ sent'[d] >= sent[d]
    BY <2>1, <2>2, <2>3
  <2>6. sRequest # None => sRequest # r
    BY <2>1, <2>2, <2>4, <2>5
  <2>7. sRequest' # None => sRequest'.n <= sent'[Counter(sRequest'.svc)]
    BY <2>2, <2>4, <2>5
  <2> QED
    BY <2>1, <2>2, <2>4, <2>6, <2>7 DEF TxnInv
<1>2. ASSUME SendLock PROVE TxnInv'
  <2>1. /\ mainPc = "lock" /\ mainPc' = "send"
        /\ sRequest' = req /\ sResponse' = None
        /\ UNCHANGED <<req, live, sent, ppResponse>>
    BY <1>2 DEF SendLock
  <2>2. req # None /\ req \in live /\ ppResponse = None
    BY <2>1 DEF IInv, ThreadInv, TxnInv
  <2>3. Counter(req.svc) \in Counters
    BY DEF Counter, Counters
  <2>4. req.n = sent[Counter(req.svc)] /\ req.n \in Nat
    BY <2>2, <2>3 DEF IInv, LastInv, TypeOK, ModemTypeOK
  <2>5. req.n <= sent[Counter(req.svc)]
    BY <2>4
  <2> QED
    BY <2>1, <2>2, <2>5 DEF TxnInv
<1>3. ASSUME MainStart PROVE TxnInv'
  BY <1>3 DEF MainStart, IInv, TypeOK, MainTypeOK, TxnTypeOK, ThreadInv,
    TxnInv
<1>4. ASSUME SendCheck PROVE TxnInv'
  BY <1>4 DEF SendCheck, Return, IInv, TypeOK, MainTypeOK, TxnTypeOK,
    ThreadInv, TxnInv
<1>5. ASSUME WriteOk PROVE TxnInv'
  BY <1>5 DEF WriteOk, BeginWait, IInv, TypeOK, MainTypeOK, TxnTypeOK,
    ThreadInv, TxnInv
<1>6. ASSUME WriteStalled PROVE TxnInv'
  BY <1>6 DEF WriteStalled, BeginWait, IInv, TypeOK, MainTypeOK, TxnTypeOK,
    ThreadInv, TxnInv
<1>7. ASSUME WriteFails PROVE TxnInv'
  BY <1>7 DEF WriteFails, Return, IInv, TypeOK, MainTypeOK, TxnTypeOK,
    ThreadInv, TxnInv
<1>8. ASSUME SliceExpires PROVE TxnInv'
  BY <1>8 DEF SliceExpires, WaitEnds, IInv, TypeOK, MainTypeOK, TxnTypeOK,
    ThreadInv, TxnInv
<1>9. ASSUME SpuriousWake PROVE TxnInv'
  BY <1>9 DEF SpuriousWake, WaitEnds, IInv, TypeOK, MainTypeOK, TxnTypeOK,
    ThreadInv, TxnInv
<1>10. ASSUME NextSlice PROVE TxnInv'
  BY <1>10 DEF NextSlice, Return, IInv, TypeOK, MainTypeOK, TxnTypeOK,
    ThreadInv, TxnInv
<1>11. ASSUME Woken PROVE TxnInv'
  BY <1>11 DEF Woken, Return, IInv, TypeOK, MainTypeOK, TxnTypeOK, ThreadInv,
    TxnInv
<1>12. ASSUME MainEvent PROVE TxnInv'
  BY <1>12 DEF MainEvent, IInv, TypeOK, MainTypeOK, TxnTypeOK, ThreadInv,
    TxnInv
<1>13. ASSUME MainStop PROVE TxnInv'
  BY <1>13 DEF MainStop, IInv, TypeOK, MainTypeOK, TxnTypeOK, ThreadInv,
    TxnInv
<1>14. ASSUME MainJoin PROVE TxnInv'
  BY <1>14 DEF MainJoin, IInv, TypeOK, MainTypeOK, TxnTypeOK, ThreadInv,
    TxnInv
<1>15. ASSUME OpenOk PROVE TxnInv'
  BY <1>15 DEF OpenOk, IInv, TypeOK, MainTypeOK, TxnTypeOK, ThreadInv, TxnInv
<1>16. ASSUME OpenFails PROVE TxnInv'
  BY <1>16 DEF OpenFails, IInv, TypeOK, MainTypeOK, TxnTypeOK, ThreadInv,
    TxnInv
<1>17. ASSUME ReadQuit PROVE TxnInv'
  BY <1>17 DEF ReadQuit, IInv, TypeOK, MainTypeOK, TxnTypeOK, ThreadInv,
    TxnInv
<1>18. ASSUME Notify PROVE TxnInv'
  BY <1>18 DEF Notify, IInv, TypeOK, MainTypeOK, TxnTypeOK, ThreadInv, TxnInv
<1>19. ASSUME Close PROVE TxnInv'
  BY <1>19 DEF Close, IInv, TypeOK, MainTypeOK, TxnTypeOK, ThreadInv, TxnInv
<1>20. ASSUME Bye PROVE TxnInv'
  BY <1>20 DEF Bye, IInv, TypeOK, MainTypeOK, TxnTypeOK, ThreadInv, TxnInv
<1>21. ASSUME Exit PROVE TxnInv'
  BY <1>21 DEF Exit, Cancel, Wake, IInv, TypeOK, MainTypeOK, TxnTypeOK,
    ThreadInv, TxnInv
<1>22. ASSUME Hangup PROVE TxnInv'
  BY <1>22 DEF Hangup, IInv, TypeOK, MainTypeOK, TxnTypeOK, ThreadInv, TxnInv
<1>23. ASSUME PollTimeout PROVE TxnInv'
  BY <1>23 DEF PollTimeout, Cancel, Wake, IInv, TypeOK, MainTypeOK, TxnTypeOK,
    ThreadInv, TxnInv
<1>24. ASSUME NEW r \in modem, RecvAnswer(r) PROVE TxnInv'
  BY <1>24, MatchIsOwn DEF RecvAnswer, Wake, Matches, IInv, TypeOK,
    MainTypeOK, TxnTypeOK, ThreadInv, TxnInv
<1>25. ASSUME NEW r \in modem, RecvStray(r) PROVE TxnInv'
  BY <1>25 DEF RecvStray, IInv, TypeOK, MainTypeOK, TxnTypeOK, ThreadInv,
    TxnInv
<1>26. ASSUME Signal \/ ReadStop \/ (\E r \in modem : Discard(r)) \/ (\E i \in
  Indications : RecvIndication(i)) \/ UNCHANGED vars
      PROVE  TxnInv'
  BY <1>26 DEF Signal, ReadStop, Discard, RecvIndication, IInv, TypeOK,
    TxnTypeOK, MainTypeOK, ThreadInv, TxnInv
<1> QED
  BY <1>1, <1>2, <1>3, <1>4, <1>5, <1>6, <1>7, <1>8, <1>9, <1>10, <1>11,
    <1>12, <1>13, <1>14, <1>15, <1>16, <1>17, <1>18, <1>19, <1>20, <1>21,
    <1>22, <1>23, <1>24, <1>25, <1>26 DEF Next, MainStep, ReaderStep,
    ReceiveStep, Terminated

\* Events reach the socketpair at its end and leave it at its head.
LEMMA EventAdded ==
    ASSUME IInv, NEW e, toMain' = Append(toMain, e), e # "disconnected",
           \A i \in 1 .. Len(toMain) : toMain[i] # "disconnected"
    PROVE  \A i \in 1 .. Len(toMain') : toMain'[i] # "disconnected"
BY DEF IInv, TypeOK, SocketTypeOK

LEMMA EventRead ==
    ASSUME IInv, toMain # <<>>, toMain' = Tail(toMain)
    PROVE  /\ Head(toMain) = toMain[1] /\ 1 \in 1 .. Len(toMain)
           /\ \A i \in 1 .. Len(toMain') : /\ toMain'[i] = toMain[i + 1]
                                           /\ i + 1 \in 1 .. Len(toMain)
BY DEF IInv, TypeOK, SocketTypeOK

\* Whoever joins the reader has told it to quit, or heard that it goes.
LEMMA StopStep ==
    ASSUME IInv, [Next]_vars
    PROVE  StopInv'
<1> USE DEF IInv, StopInv
<1>1. ASSUME MainStart PROVE StopInv'
  BY <1>1, EventRead DEF MainStart, ThreadInv
<1>2. ASSUME MainEvent PROVE StopInv'
  <2>1. Head(toMain) = "disconnected" => readerPc \in {"cancel", "exited"}
    BY <1>2, EventRead DEF MainEvent, ThreadInv, TypeOK, ReaderTypeOK
  <2> QED
    BY <1>2, <2>1, EventRead DEF MainEvent
<1>3. ASSUME MainStop PROVE StopInv'
  BY <1>3 DEF MainStop
<1>4. ASSUME OpenOk \/ OpenFails PROVE StopInv'
  BY <1>4 DEF OpenOk, OpenFails, ThreadInv
<1>5. ASSUME ReadStop \/ ReadQuit PROVE StopInv'
  BY <1>5 DEF ReadStop, ReadQuit
<1>6. ASSUME Notify PROVE StopInv'
  <2>1. event # "disconnected"
    BY <1>6, EventsAssumption DEF Notify, ThreadInv, TypeOK, ReaderTypeOK
  <2> QED
    BY <1>6, <2>1, EventAdded DEF Notify
<1>7. ASSUME Bye PROVE StopInv'
  BY <1>7 DEF Bye
<1>8. ASSUME NEW s \in Services, Call(s) PROVE StopInv'
  BY <1>8 DEF Call
<1>9. ASSUME SendLock \/ SendCheck \/ WriteOk \/ WriteStalled \/ WriteFails
  \/ SliceExpires \/ SpuriousWake \/ NextSlice \/ Woken \/ MainJoin
      PROVE  StopInv'
  BY <1>9 DEF SendLock, SendCheck, WriteOk, WriteStalled, WriteFails,
    SliceExpires, SpuriousWake, NextSlice, Woken, MainJoin, BeginWait, Return,
    WaitEnds
<1>10. ASSUME Signal \/ Close \/ Exit \/ Hangup \/ PollTimeout \/ UNCHANGED vars
       PROVE  StopInv'
  BY <1>10 DEF Signal, Close, Exit, Hangup, PollTimeout, Cancel, Wake
<1>11. ASSUME NEW r \in modem, RecvAnswer(r) \/ RecvStray(r) \/ Discard(r)
       PROVE  StopInv'
  BY <1>11 DEF RecvAnswer, RecvStray, Discard, Wake
<1>12. ASSUME NEW i \in Indications, RecvIndication(i) PROVE StopInv'
  BY <1>12 DEF RecvIndication
<1> QED
  BY <1>1, <1>2, <1>3, <1>4, <1>5, <1>6, <1>7, <1>8, <1>9, <1>10, <1>11,
    <1>12 DEF Next, MainStep, ReaderStep, ReceiveStep, Terminated

\* The inductive invariant is one.
LEMMA NextIInv ==
    ASSUME IInv, [Next]_vars
    PROVE  IInv'
BY MainTypeStep, TxnTypeStep, ModemTypeStep, ReaderTypeStep, SocketTypeStep,
   ThreadStep, LastStep, ModemStep, TxnStep, StopStep DEF IInv, TypeOK

LEMMA SpecIInv == Spec => []IInv
BY InitIInv, NextIInv, PTL DEF Spec
-----------------------------------------------------------------------------
\* In every behaviour of the two threads and the modem every variable keeps
\* its type, for any services, any number of slices, events and calls.
THEOREM Typed == Spec => []TypeOK
<1>1. IInv => TypeOK
  BY DEF IInv
<1> QED
  BY <1>1, SpecIInv, PTL

\* No caller of QmiThreadSendQMITimeout is ever handed the answer to another
\* request, whatever arrives late, whichever waits end early, as long as the
\* modem answers within one turn of the transaction id counter.
THEOREM OwnAnswers == Spec => []AnswerIsOwn
<1>1. IInv => AnswerIsOwn
  BY DEF IInv, TxnInv, AnswerIsOwn
<1> QED
  BY <1>1, SpecIInv, PTL

\* QmiThreadRecvQMI never frees a request twice, and the request of a caller
\* that got its answer is free.
THEOREM HeapKept == Spec => []HeapDiscipline
<1>1. IInv => HeapDiscipline
  BY DEF IInv, TxnInv, HeapDiscipline
<1> QED
  BY <1>1, SpecIInv, PTL

\* Once QmiWwanThread is gone no caller still has a transaction pending.
THEOREM NoOrphans == Spec => []NoOrphanedCall
<1>1. IInv => NoOrphanedCall
  BY DEF IInv, TxnInv, NoOrphanedCall
<1> QED
  BY <1>1, SpecIInv, PTL

\* Main thread and reader sleep for each other only when the socketpair is
\* full, however many events it holds and wherever stops, indications and
\* late answers find them: every path gives the mutex back, and a reader that
\* is joined has been told to quit or is on its way out.
THEOREM BlockedByEvents == Spec => []StuckOnlyWhenFull
<1>1. ASSUME IInv, MainBlocked, ReaderBlocked PROVE Len(toMain) >= EventCap
  <2>1. CASE readerPc \in {"notify", "bye"}
    BY <1>1, <2>1 DEF ReaderBlocked
  <2>2. mutex # "none" => mutex = "reader" /\ readerPc = "notify"
    BY <1>1 DEF MainBlocked, IInv, TypeOK, MainTypeOK, ThreadInv
  <2>3. CASE mainPc = "join" /\ readerPc \notin {"notify", "bye"}
    BY <1>1, <2>2, <2>3 DEF MainBlocked, ReaderBlocked, IInv, StopInv
  <2> QED
    BY <1>1, <2>1, <2>2, <2>3 DEF MainBlocked
<1>2. IInv => StuckOnlyWhenFull
  BY <1>1 DEF StuckOnlyWhenFull
<1> QED
  BY <1>2, SpecIInv, PTL
-----------------------------------------------------------------------------
\* The refinement: only Call begins a call, only Return ends one.
LEMMA InitRpc == Init => Rpc!RpcInit
BY DEF Init, Rpc!RpcInit

LEMMA StepRpc ==
    ASSUME IInv, [Next]_vars
    PROVE  [Rpc!RpcNext]_Rpc!rpcVars
<1> USE DEF Rpc!RpcNext, Rpc!rpcVars
<1>1. ASSUME NEW s \in Services, Call(s) PROVE Rpc!Ask
  <2> DEFINE c == Counter(s)
  <2>1. c \in Counters /\ req' \in Requests /\ req'.n = sent[c] + 1 /\ Counter(req'.svc) = c
    BY <1>1, RequestTyped DEF Call
  <2>2. sent[c] \in Nat
    BY <2>1 DEF IInv, TypeOK, ModemTypeOK
  <2>3. req' # req
    BY <2>1, <2>2, EventsAssumption DEF IInv, LastInv
  <2> QED
    BY <1>1, <2>1, <2>3 DEF Call, Rpc!Ask
<1>2. ASSUME Woken PROVE Rpc!EndOk(ppResponse') /\ ppResponse' \in {req, None}
  BY <1>2 DEF Woken, Return, Rpc!EndOk, IInv, TxnInv
<1>3. ASSUME SendCheck \/ WriteFails \/ NextSlice
      PROVE  Rpc!EndFailed \/ UNCHANGED Rpc!rpcVars
  BY <1>3 DEF SendCheck, WriteFails, NextSlice, Return, Rpc!EndFailed
<1>4. ASSUME MainStart \/ SendLock \/ WriteOk \/ WriteStalled \/ SliceExpires
  \/ SpuriousWake \/ MainEvent \/ MainStop \/ MainJoin
      PROVE  UNCHANGED Rpc!rpcVars
  BY <1>4 DEF MainStart, SendLock, WriteOk, WriteStalled, BeginWait, SliceExpires,
    SpuriousWake, WaitEnds, MainEvent, MainStop, MainJoin
<1>5. ASSUME Signal \/ OpenOk \/ OpenFails \/ ReadStop \/ ReadQuit \/ Notify
  \/ Close \/ Bye \/ Exit \/ Hangup \/ PollTimeout \/ UNCHANGED vars
      PROVE  UNCHANGED Rpc!rpcVars
  BY <1>5 DEF Signal, OpenOk, OpenFails, ReadStop, ReadQuit, Notify, Close, Bye,
    Exit, Hangup, PollTimeout, Cancel, Wake
<1>6. ASSUME NEW r \in modem, RecvAnswer(r) \/ RecvStray(r) \/ Discard(r)
      PROVE  UNCHANGED Rpc!rpcVars
  BY <1>6 DEF RecvAnswer, RecvStray, Discard, Wake
<1>7. ASSUME NEW i \in Indications, RecvIndication(i) PROVE UNCHANGED Rpc!rpcVars
  BY <1>7 DEF RecvIndication
<1>8. Woken => Rpc!RpcEnd
  BY <1>2 DEF Rpc!RpcEnd
<1> QED
  BY <1>1, <1>3, <1>4, <1>5, <1>6, <1>7, <1>8
  DEF Next, MainStep, ReaderStep, ReceiveStep, Terminated, Rpc!RpcEnd

\* QmiThreadSendQMITimeout and QmiThreadRecvQMI together implement a remote
\* call: one at a time, ended once, by its own answer, by none, or by an error.
THEOREM ImplementsRpc == Spec => RpcSafety
BY InitRpc, StepRpc, SpecIInv, PTL DEF Spec, RpcSafety, Rpc!RpcSafety
=============================================================================
