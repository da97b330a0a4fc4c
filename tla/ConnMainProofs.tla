---------------------------- MODULE ConnMainProofs ----------------------------
(***************************************************************************)
(* Proofs about ConnMain, for any back-off, families, addresses, faults    *)
(* and number of changes. A retry is always on its way, and no address is  *)
(* left on the interface between two runs: both depend on the order of the *)
(* steps and hold whatever the requests to the modem return. CallsHeld,    *)
(* that the program can hang up every call the modem has, and hangs up all *)
(* of them, depends on what the requests may return, on calls that end     *)
(* with a reset, and on SIGINT, after which main() does not start over.    *)
(***************************************************************************)
EXTENDS ConnMain, SequenceTheorems, TLAPS

USE DEF loopVars, timeVars, callVars, linkVars, vars

TimeTypes ==
    /\ signals \in Seq(Signals)
    /\ allowIn \in Nat /\ alarmIn \in Nat
    /\ fail \in 0 .. Len(BackOff)

\* The interface has addresses only while the link is up.
LinkInv == link \in {Unset, {}} => conf = Unaddressed

\* poll() reported the signal pipe readable only if it is.
ReadyInv == "signal" \in ready => signals # <<>>

IInv == TimeTypes /\ ReadyInv /\ RetryPlanned /\ LinkInv /\ NoLinkLeft
-----------------------------------------------------------------------------
LEMMA WaitType == ASSUME fail \in 0 .. Len(BackOff) PROVE Wait(fail) \in Nat \ {0}
<1>1. BackOff \in Seq(Nat \ {0}) /\ BackOff # <<>>
  BY ConnAssumption
<1>2. Len(BackOff) \in Nat /\ Len(BackOff) # 0
  BY <1>1, EmptySeq, LenProperties
<1>3. (IF fail < Len(BackOff) THEN fail + 1 ELSE fail) \in 1 .. Len(BackOff)
  BY <1>2
<1> QED
  BY <1>1, <1>3, ElementOfSeq DEF Wait

LEMMA InPipe ==
    ASSUME NEW s \in Seq(Signals), NEW e \in Signals
    PROVE  Append(s, e) \in Seq(Signals) /\ Append(s, e) # <<>>
<1>1. Append(s, e) \in Seq(Signals) /\ Len(Append(s, e)) = Len(s) + 1
  BY AppendProperties
<1>2. Len(s) \in Nat
  BY LenProperties
<1> QED
  BY <1>1, <1>2, EmptySeq

\* What is left in the pipe after a signal was read.
LEMMA Rest ==
    ASSUME IInv, NEW e, ReadSignal(e)
    PROVE  Tail(signals) \in Seq(Signals)
BY HeadTailProperties DEF IInv, TimeTypes, ReadyInv, ReadSignal

LEMMA InitIInv == Init => IInv
<1> SUFFICES ASSUME Init PROVE IInv
  OBVIOUS
<1>1. TimeTypes
  <2>1. Len(BackOff) \in Nat
    BY ConnAssumption, LenProperties
  <2> QED
    BY <2>1 DEF Init, TimeTypes
<1>2. ReadyInv /\ RetryPlanned /\ LinkInv /\ NoLinkLeft
  BY DEF Init, ReadyInv, RetryPlanned, LinkInv, NoLinkLeft
<1> QED
  BY <1>1, <1>2 DEF IInv

\* The pipe and the clocks keep their types.
LEMMA TimeTypesStep ==
    ASSUME IInv, [Next]_vars
    PROVE  TimeTypes'
<1>1. ASSUME Detect PROVE TimeTypes'
  <2>1. Len(BackOff) \in Nat
    BY ConnAssumption, LenProperties
  <2> QED
    BY <1>1, <2>1 DEF Detect, IInv, TimeTypes
<1>2. ASSUME DetectFails PROVE TimeTypes'
  BY <1>2 DEF DetectFails, IInv, TimeTypes
<1>3. ASSUME StartUp PROVE TimeTypes'
  BY <1>3, InPipe DEF StartUp, IInv, TimeTypes, Signals
<1>4. ASSUME StartUpFails PROVE TimeTypes'
  BY <1>4 DEF StartUpFails, IInv, TimeTypes
<1>5. ASSUME Quit PROVE TimeTypes'
  BY <1>5 DEF Quit, IInv, TimeTypes
<1>6. ASSUME Again PROVE TimeTypes'
  BY <1>6 DEF Again, IInv, TimeTypes
<1>7. ASSUME Poll PROVE TimeTypes'
  BY <1>7 DEF Poll, IInv, TimeTypes
<1>8. ASSUME IdlePoll PROVE TimeTypes'
  BY <1>8 DEF IdlePoll, IInv, TimeTypes, Signals
<1>9. ASSUME StartLater PROVE TimeTypes'
  <2>1. Tail(signals) \in Seq(Signals)
    BY <1>9, Rest DEF StartLater
  <2>2. allowIn' \in Nat /\ alarmIn' \in Nat
    BY <1>9 DEF StartLater, TooEarly, IInv, TimeTypes
  <2> QED
    BY <1>9, <2>1, <2>2 DEF StartLater, IInv, TimeTypes
<1>10. ASSUME Start PROVE TimeTypes'
  <2>1. Tail(signals) \in Seq(Signals)
    BY <1>10, Rest DEF Start
  <2>2. Wait(fail) \in Nat
    BY WaitType DEF IInv, TimeTypes
  <2>3. Schedule /\ signals' = Tail(signals)
    BY <1>10 DEF Start
  <2>4. Len(BackOff) \in Nat
    BY ConnAssumption, LenProperties
  <2>5. allowIn' \in Nat /\ alarmIn' \in Nat /\ fail' \in 0 .. Len(BackOff)
    BY <2>2, <2>3, <2>4 DEF Schedule, RetryAlarm, IInv, TimeTypes
  <2> QED
    BY <2>1, <2>3, <2>5 DEF TimeTypes
<1>11. ASSUME Check PROVE TimeTypes'
  <2>1. signals' \in Seq(Signals)
    BY <1>11, Rest, InPipe DEF Check, AfterCheck, Signals
  <2> QED
    BY <1>11, <2>1 DEF Check, IInv, TimeTypes
<1>12. ASSUME Stop PROVE TimeTypes'
  BY <1>12, Rest DEF Stop, IInv, TimeTypes
<1>13. ASSUME Disconnected PROVE TimeTypes'
  BY <1>13 DEF Disconnected, IInv, TimeTypes
<1>14. ASSUME Registration PROVE TimeTypes'
  <2>1. signals' \in Seq(Signals)
    BY <1>14, InPipe DEF Registration, IInv, TimeTypes, Signals
  <2> QED
    BY <1>14, <2>1 DEF Registration, IInv, TimeTypes
<1>15. ASSUME CallsChanged PROVE TimeTypes'
  <2>1. signals' \in Seq(Signals)
    BY <1>15, InPipe DEF CallsChanged, IInv, TimeTypes, Signals
  <2>2. Settle \in Nat
    BY ConnAssumption
  <2> QED
    BY <1>15, <2>1, <2>2 DEF CallsChanged, IInv, TimeTypes
<1>16. ASSUME ModemReset PROVE TimeTypes'
  BY <1>16 DEF ModemReset, IInv, TimeTypes
<1>17. ASSUME Tick PROVE TimeTypes'
  <2>1. signals' \in Seq(Signals)
    BY <1>17, InPipe DEF Tick, Write, IInv, TimeTypes, Signals
  <2> QED
    BY <1>17, <2>1 DEF Tick, Less, IInv, TimeTypes
<1>18. ASSUME Interrupt PROVE TimeTypes'
  <2>1. signals' \in Seq(Signals)
    BY <1>18, InPipe DEF Interrupt, Write, IInv, TimeTypes, Signals
  <2> QED
    BY <1>18, <2>1 DEF Interrupt, IInv, TimeTypes
<1>19. ASSUME RegistrationChanges PROVE TimeTypes'
  BY <1>19 DEF RegistrationChanges, News, IInv, TimeTypes
<1>20. ASSUME CallChanges PROVE TimeTypes'
  BY <1>20 DEF CallChanges, News, IInv, TimeTypes
<1>21. ASSUME ModemGone PROVE TimeTypes'
  BY <1>21 DEF ModemGone, News, IInv, TimeTypes
<1>22. ASSUME Terminated PROVE TimeTypes'
  BY <1>22 DEF Terminated, IInv, TimeTypes
<1>23. ASSUME UNCHANGED vars PROVE TimeTypes'
  BY <1>23 DEF IInv, TimeTypes
<1> QED
  BY <1>1, <1>2, <1>3, <1>4, <1>5, <1>6, <1>7, <1>8, <1>9, <1>10, <1>11,
    <1>12, <1>13, <1>14, <1>15, <1>16, <1>17, <1>18, <1>19, <1>20, <1>21,
    <1>22, <1>23 DEF Next, MainStep, Environment

\* What is readable stays so until it is read.
LEMMA ReadyStep ==
    ASSUME IInv, [Next]_vars
    PROVE  ReadyInv'
<1>1. ASSUME Detect PROVE ReadyInv'
  BY <1>1 DEF Detect, IInv, ReadyInv
<1>2. ASSUME DetectFails PROVE ReadyInv'
  BY <1>2 DEF DetectFails, IInv, ReadyInv
<1>3. ASSUME StartUp PROVE ReadyInv'
  <2>1. Append(signals, "check") # <<>>
    BY InPipe DEF IInv, TimeTypes, Signals
  <2> QED
    BY <1>3, <2>1 DEF StartUp, IInv, ReadyInv
<1>4. ASSUME StartUpFails PROVE ReadyInv'
  BY <1>4 DEF StartUpFails, IInv, ReadyInv
<1>5. ASSUME Quit PROVE ReadyInv'
  BY <1>5 DEF Quit, IInv, ReadyInv
<1>6. ASSUME Again PROVE ReadyInv'
  BY <1>6 DEF Again, IInv, ReadyInv
<1>7. ASSUME Poll PROVE ReadyInv'
  BY <1>7 DEF Poll, IInv, ReadyInv
<1>8. ASSUME IdlePoll PROVE ReadyInv'
  BY <1>8 DEF IdlePoll, IInv, ReadyInv
<1>9. ASSUME StartLater PROVE ReadyInv'
  BY <1>9 DEF StartLater, Served, IInv, ReadyInv
<1>10. ASSUME Start PROVE ReadyInv'
  BY <1>10 DEF Start, Served, IInv, ReadyInv
<1>11. ASSUME Check PROVE ReadyInv'
  BY <1>11 DEF Check, Served, IInv, ReadyInv
<1>12. ASSUME Stop PROVE ReadyInv'
  BY <1>12 DEF Stop, IInv, ReadyInv
<1>13. ASSUME Disconnected PROVE ReadyInv'
  BY <1>13 DEF Disconnected, IInv, ReadyInv
<1>14. ASSUME Registration PROVE ReadyInv'
  <2>1. Append(signals, "start") # <<>>
    BY InPipe DEF IInv, TimeTypes, Signals
  <2> QED
    BY <1>14, <2>1 DEF Registration, Served, IInv, ReadyInv
<1>15. ASSUME CallsChanged PROVE ReadyInv'
  <2>1. Append(signals, "check") # <<>>
    BY InPipe DEF IInv, TimeTypes, Signals
  <2> QED
    BY <1>15, <2>1 DEF CallsChanged, Served, IInv, ReadyInv
<1>16. ASSUME ModemReset PROVE ReadyInv'
  BY <1>16 DEF ModemReset, IInv, ReadyInv
<1>17. ASSUME Tick PROVE ReadyInv'
  <2>1. Append(signals, "start") # <<>>
    BY InPipe DEF IInv, TimeTypes, Signals
  <2> QED
    BY <1>17, <2>1 DEF Tick, Write, IInv, ReadyInv
<1>18. ASSUME Interrupt PROVE ReadyInv'
  <2>1. Append(signals, "stop") # <<>>
    BY InPipe DEF IInv, TimeTypes, Signals
  <2> QED
    BY <1>18, <2>1 DEF Interrupt, Write, IInv, ReadyInv
<1>19. ASSUME RegistrationChanges PROVE ReadyInv'
  BY <1>19 DEF RegistrationChanges, News, IInv, ReadyInv
<1>20. ASSUME CallChanges PROVE ReadyInv'
  BY <1>20 DEF CallChanges, News, IInv, ReadyInv
<1>21. ASSUME ModemGone PROVE ReadyInv'
  BY <1>21 DEF ModemGone, News, IInv, ReadyInv
<1>22. ASSUME Terminated PROVE ReadyInv'
  BY <1>22 DEF Terminated, IInv, ReadyInv
<1>23. ASSUME UNCHANGED vars PROVE ReadyInv'
  BY <1>23 DEF IInv, ReadyInv
<1> QED
  BY <1>1, <1>2, <1>3, <1>4, <1>5, <1>6, <1>7, <1>8, <1>9, <1>10, <1>11,
    <1>12, <1>13, <1>14, <1>15, <1>16, <1>17, <1>18, <1>19, <1>20, <1>21,
    <1>22, <1>23 DEF Next, MainStep, Environment

\* No step loses the retry.
LEMMA RetryStep ==
    ASSUME IInv, [Next]_vars
    PROVE  RetryPlanned'
<1>1. ASSUME Detect PROVE RetryPlanned'
  BY <1>1 DEF Detect, IInv, RetryPlanned, Down
<1>2. ASSUME DetectFails PROVE RetryPlanned'
  BY <1>2 DEF DetectFails, IInv, RetryPlanned, Down
<1>3. ASSUME StartUp PROVE RetryPlanned'
  BY <1>3, InPipe DEF StartUp, IInv, TimeTypes, Signals, RetryPlanned
<1>4. ASSUME StartUpFails PROVE RetryPlanned'
  BY <1>4 DEF StartUpFails, IInv, RetryPlanned, Down
<1>5. ASSUME Quit PROVE RetryPlanned'
  BY <1>5 DEF Quit, IInv, RetryPlanned, Down
<1>6. ASSUME Again PROVE RetryPlanned'
  BY <1>6 DEF Again, IInv, RetryPlanned, Down
<1>7. ASSUME Poll PROVE RetryPlanned'
  BY <1>7 DEF Poll, IInv, RetryPlanned, Down
<1>8. ASSUME IdlePoll PROVE RetryPlanned'
  BY <1>8 DEF IdlePoll, IInv, RetryPlanned, Down
<1>9. ASSUME StartLater PROVE RetryPlanned'
  BY <1>9 DEF StartLater, TooEarly, IInv, TimeTypes, RetryPlanned
<1>10. ASSUME Start PROVE RetryPlanned'
  <2>1. Wait(fail) \in Nat \ {0}
    BY WaitType DEF IInv, TimeTypes
  <2>2. Schedule
    BY <1>10 DEF Start
  <2>3. CASE \E f \in Enabled : status'[f] = "down"
    BY <2>1, <2>2, <2>3 DEF Schedule, RetryAlarm, RetryPlanned
  <2>4. CASE ~ \E f \in Enabled : status'[f] = "down"
    BY <2>4 DEF RetryPlanned, Down
  <2> QED
    BY <2>3, <2>4
<1>11. ASSUME Check PROVE RetryPlanned'
  <2>1. CASE \E f \in Enabled : status'[f] = "down"
    BY <1>11, <2>1, Rest, InPipe DEF Check, AfterCheck, Signals, RetryPlanned
  <2>2. CASE ~ \E f \in Enabled : status'[f] = "down"
    BY <2>2 DEF RetryPlanned, Down
  <2> QED
    BY <2>1, <2>2
<1>12. ASSUME Stop PROVE RetryPlanned'
  BY <1>12 DEF Stop, RetryPlanned
<1>13. ASSUME Disconnected PROVE RetryPlanned'
  BY <1>13 DEF Disconnected, IInv, RetryPlanned, Down
<1>14. ASSUME Registration PROVE RetryPlanned'
  <2>1. Append(signals, "start") # <<>>
    BY InPipe DEF IInv, TimeTypes, Signals
  <2>2. Down' = Down
    BY <1>14 DEF Registration, Down
  <2> QED
    BY <1>14, <2>1, <2>2 DEF Registration, RetryPlanned
<1>15. ASSUME CallsChanged PROVE RetryPlanned'
  BY <1>15, InPipe DEF CallsChanged, IInv, TimeTypes, Signals, RetryPlanned
<1>16. ASSUME ModemReset PROVE RetryPlanned'
  BY <1>16 DEF ModemReset, IInv, RetryPlanned, Down
<1>17. ASSUME Tick PROVE RetryPlanned'
  <2>1. Append(signals, "start") # <<>>
    BY InPipe DEF IInv, TimeTypes, Signals
  <2>2. Down' = Down
    BY <1>17 DEF Tick, Down
  <2> QED
    BY <1>17, <2>1, <2>2 DEF Tick, Write, Open, Less, IInv, TimeTypes, RetryPlanned
<1>18. ASSUME Interrupt PROVE RetryPlanned'
  <2>1. Append(signals, "stop") # <<>>
    BY InPipe DEF IInv, TimeTypes, Signals
  <2>2. Down' = Down
    BY <1>18 DEF Interrupt, Down
  <2> QED
    BY <1>18, <2>1, <2>2 DEF Interrupt, Write, IInv, RetryPlanned
<1>19. ASSUME RegistrationChanges PROVE RetryPlanned'
  BY <1>19 DEF RegistrationChanges, News, IInv, RetryPlanned, Down
<1>20. ASSUME CallChanges PROVE RetryPlanned'
  BY <1>20 DEF CallChanges, News, IInv, RetryPlanned, Down
<1>21. ASSUME ModemGone PROVE RetryPlanned'
  BY <1>21 DEF ModemGone, News, IInv, RetryPlanned, Down
<1>22. ASSUME Terminated PROVE RetryPlanned'
  BY <1>22 DEF Terminated, IInv, RetryPlanned, Down
<1>23. ASSUME UNCHANGED vars PROVE RetryPlanned'
  BY <1>23 DEF IInv, RetryPlanned, Down
<1> QED
  BY <1>1, <1>2, <1>3, <1>4, <1>5, <1>6, <1>7, <1>8, <1>9, <1>10, <1>11,
    <1>12, <1>13, <1>14, <1>15, <1>16, <1>17, <1>18, <1>19, <1>20, <1>21,
    <1>22, <1>23 DEF Next, MainStep, Environment

\* usbnet_link_change leaves no address when it takes the link down.
LEMMA LinkChanged ==
    ASSUME IInv, NEW l \in SUBSET Families, NEW a, LinkChange(l, a)
    PROVE  /\ LinkInv'
           /\ l = {} => link' = {} /\ conf' = Unaddressed
<1>1. l # Unset
  BY DEF Families, Unset
<1>2. CASE link = l
  BY <1>2 DEF LinkChange, IInv, LinkInv, Unaddressed
<1>3. CASE link # l
  <2>1. link' = l /\ conf' = [f \in Families |-> IF f \in l THEN a[f] ELSE NoAddr]
    BY <1>3 DEF LinkChange
  <2>2. l = {} => conf' = Unaddressed
    BY <2>1 DEF Unaddressed
  <2> QED
    BY <1>1, <2>1, <2>2 DEF LinkInv
<1> QED
  BY <1>2, <1>3

\* Addresses come and go with the link.
LEMMA LinkStep ==
    ASSUME IInv, [Next]_vars
    PROVE  LinkInv'
<1>1. ASSUME Detect PROVE LinkInv'
  BY <1>1 DEF Detect, IInv, LinkInv
<1>2. ASSUME DetectFails PROVE LinkInv'
  BY <1>2 DEF DetectFails, IInv, LinkInv
<1>3. ASSUME StartUp PROVE LinkInv'
  BY <1>3 DEF StartUp, IInv, LinkInv
<1>4. ASSUME StartUpFails PROVE LinkInv'
  BY <1>4 DEF StartUpFails, IInv, LinkInv
<1>5. ASSUME Quit PROVE LinkInv'
  BY <1>5, LinkChanged DEF Quit
<1>6. ASSUME Again PROVE LinkInv'
  BY <1>6 DEF Again, IInv, LinkInv
<1>7. ASSUME Poll PROVE LinkInv'
  BY <1>7 DEF Poll, IInv, LinkInv
<1>8. ASSUME IdlePoll PROVE LinkInv'
  BY <1>8 DEF IdlePoll, IInv, LinkInv
<1>9. ASSUME StartLater PROVE LinkInv'
  BY <1>9 DEF StartLater, IInv, LinkInv
<1>10. ASSUME Start PROVE LinkInv'
  BY <1>10 DEF Start, IInv, LinkInv
<1>11. ASSUME Check PROVE LinkInv'
  <2>1. Up(status') \in SUBSET Families
    BY DEF Up
  <2> QED
    BY <1>11, <2>1, LinkChanged DEF Check, IInv, LinkInv
<1>12. ASSUME Stop PROVE LinkInv'
  BY <1>12, LinkChanged DEF Stop
<1>13. ASSUME Disconnected PROVE LinkInv'
  BY <1>13, LinkChanged DEF Disconnected
<1>14. ASSUME Registration PROVE LinkInv'
  BY <1>14 DEF Registration, IInv, LinkInv
<1>15. ASSUME CallsChanged PROVE LinkInv'
  BY <1>15 DEF CallsChanged, IInv, LinkInv
<1>16. ASSUME ModemReset PROVE LinkInv'
  BY <1>16 DEF ModemReset, IInv, LinkInv
<1>17. ASSUME Tick PROVE LinkInv'
  BY <1>17 DEF Tick, IInv, LinkInv
<1>18. ASSUME Interrupt PROVE LinkInv'
  BY <1>18 DEF Interrupt, IInv, LinkInv
<1>19. ASSUME RegistrationChanges PROVE LinkInv'
  BY <1>19 DEF RegistrationChanges, News, IInv, LinkInv
<1>20. ASSUME CallChanges PROVE LinkInv'
  BY <1>20 DEF CallChanges, News, IInv, LinkInv
<1>21. ASSUME ModemGone PROVE LinkInv'
  BY <1>21 DEF ModemGone, News, IInv, LinkInv
<1>22. ASSUME Terminated PROVE LinkInv'
  BY <1>22 DEF Terminated, IInv, LinkInv
<1>23. ASSUME UNCHANGED vars PROVE LinkInv'
  BY <1>23 DEF IInv, LinkInv
<1> QED
  BY <1>1, <1>2, <1>3, <1>4, <1>5, <1>6, <1>7, <1>8, <1>9, <1>10, <1>11,
    <1>12, <1>13, <1>14, <1>15, <1>16, <1>17, <1>18, <1>19, <1>20, <1>21,
    <1>22, <1>23 DEF Next, MainStep, Environment

\* A run leaves nothing behind.
LEMMA NoLinkStep ==
    ASSUME IInv, [Next]_vars
    PROVE  NoLinkLeft'
<1>1. ASSUME Detect PROVE NoLinkLeft'
  BY <1>1 DEF Detect, IInv, NoLinkLeft
<1>2. ASSUME DetectFails PROVE NoLinkLeft'
  BY <1>2 DEF DetectFails, IInv, NoLinkLeft
<1>3. ASSUME StartUp PROVE NoLinkLeft'
  BY <1>3 DEF StartUp, IInv, NoLinkLeft
<1>4. ASSUME StartUpFails PROVE NoLinkLeft'
  BY <1>4 DEF StartUpFails, IInv, NoLinkLeft
<1>5. ASSUME Quit PROVE NoLinkLeft'
  BY <1>5, LinkChanged DEF Quit, NoLinkLeft
<1>6. ASSUME Again PROVE NoLinkLeft'
  BY <1>6 DEF Again, IInv, NoLinkLeft
<1>7. ASSUME Poll PROVE NoLinkLeft'
  BY <1>7 DEF Poll, IInv, NoLinkLeft
<1>8. ASSUME IdlePoll PROVE NoLinkLeft'
  BY <1>8 DEF IdlePoll, IInv, NoLinkLeft
<1>9. ASSUME StartLater PROVE NoLinkLeft'
  BY <1>9 DEF StartLater, ReadSignal, Served, NoLinkLeft
<1>10. ASSUME Start PROVE NoLinkLeft'
  BY <1>10 DEF Start, ReadSignal, Served, NoLinkLeft
<1>11. ASSUME Check PROVE NoLinkLeft'
  BY <1>11 DEF Check, ReadSignal, Served, NoLinkLeft
<1>12. ASSUME Stop PROVE NoLinkLeft'
  BY <1>12 DEF Stop, NoLinkLeft
<1>13. ASSUME Disconnected PROVE NoLinkLeft'
  BY <1>13 DEF Disconnected, IInv, NoLinkLeft
<1>14. ASSUME Registration PROVE NoLinkLeft'
  BY <1>14 DEF Registration, ReadEvent, Served, NoLinkLeft
<1>15. ASSUME CallsChanged PROVE NoLinkLeft'
  BY <1>15 DEF CallsChanged, ReadEvent, Served, NoLinkLeft
<1>16. ASSUME ModemReset PROVE NoLinkLeft'
  BY <1>16 DEF ModemReset, IInv, NoLinkLeft
<1>17. ASSUME Tick PROVE NoLinkLeft'
  BY <1>17 DEF Tick, IInv, NoLinkLeft
<1>18. ASSUME Interrupt PROVE NoLinkLeft'
  BY <1>18 DEF Interrupt, IInv, NoLinkLeft
<1>19. ASSUME RegistrationChanges PROVE NoLinkLeft'
  BY <1>19 DEF RegistrationChanges, News, IInv, NoLinkLeft
<1>20. ASSUME CallChanges PROVE NoLinkLeft'
  BY <1>20 DEF CallChanges, News, IInv, NoLinkLeft
<1>21. ASSUME ModemGone PROVE NoLinkLeft'
  BY <1>21 DEF ModemGone, News, IInv, NoLinkLeft
<1>22. ASSUME Terminated PROVE NoLinkLeft'
  BY <1>22 DEF Terminated, IInv, NoLinkLeft
<1>23. ASSUME UNCHANGED vars PROVE NoLinkLeft'
  BY <1>23 DEF IInv, NoLinkLeft
<1> QED
  BY <1>1, <1>2, <1>3, <1>4, <1>5, <1>6, <1>7, <1>8, <1>9, <1>10, <1>11,
    <1>12, <1>13, <1>14, <1>15, <1>16, <1>17, <1>18, <1>19, <1>20, <1>21,
    <1>22, <1>23 DEF Next, MainStep, Environment

LEMMA NextIInv == IInv /\ [Next]_vars => IInv'
BY TimeTypesStep, ReadyStep, RetryStep, LinkStep, NoLinkStep DEF IInv

LEMMA SpecIInv == Spec => []IInv
BY InitIInv, NextIInv, PTL DEF Spec
-----------------------------------------------------------------------------
\* While the back-off keeps a family that is down from being dialled, an alarm
\* or a signal in the pipe will bring the dial, whatever order signals, alarms,
\* events and time come in.
THEOREM RetryKept == Spec => []RetryPlanned
<1>1. IInv => RetryPlanned
  BY DEF IInv
<1> QED
  BY <1>1, SpecIInv, PTL

\* main() starts over, or ends, with no address on the network card.
THEOREM NothingLeft == Spec => []NoLinkLeft
<1>1. IInv => NoLinkLeft
  BY DEF IInv
<1> QED
  BY <1>1, SpecIInv, PTL
-----------------------------------------------------------------------------
Addresses == Addrs \cup {NoAddr}
Calls == [status : {"unknown", "down", "up"}, handle : BOOLEAN, addr : Addresses,
          call : Addresses, clean : BOOLEAN]

\* A call the program knows of and can hang up, if no request went astray; a
\* modem that is gone has none.
Known(s) == s.call # NoAddr => s.handle /\ s.status = "up"
Good(s) ==
    /\ s \in Calls
    /\ Gone => s.call = NoAddr
    /\ ~trouble /\ s.clean => Known(s)
-----------------------------------------------------------------------------
(* The requests to the modem. *)

\* An address is read, and nothing else changes; without an answer the call is
\* one the program has lost track of, if it had its handle.
LEMMA AddressRead ==
    ASSUME NEW s \in Calls, NEW g \in GetIPAddress(s)
    PROVE  /\ g.to \in Calls
           /\ g.to.status = s.status /\ g.to.handle = s.handle /\ g.to.call = s.call
           /\ g.to.clean => s.clean /\ g.ok
<1>1. CASE ~s.handle
  BY <1>1 DEF GetIPAddress, Calls, Addresses
<1>2. CASE s.handle
  <2>1. PICK o \in Outcomes :
            g = CASE o = "ok" /\ s.call # NoAddr -> [ok |-> TRUE, to |-> [s EXCEPT !.addr = s.call]]
                  [] o = "woken" ->
                       [ok |-> TRUE, to |-> [s EXCEPT !.addr = NoAddr, !.clean = FALSE]]
                  [] OTHER -> [ok |-> FALSE, to |-> [s EXCEPT !.addr = NoAddr, !.clean = FALSE]]
    BY <1>2 DEF GetIPAddress
  <2>2. CASE o = "ok" /\ s.call # NoAddr
    BY <2>1, <2>2 DEF Calls, Addresses
  <2>3. CASE o = "woken"
    BY <2>1, <2>3 DEF Calls, Addresses
  <2>4. CASE ~(o = "ok" /\ s.call # NoAddr) /\ o # "woken"
    BY <2>1, <2>4 DEF Calls, Addresses
  <2> QED
    BY <2>2, <2>3, <2>4
<1> QED
  BY <1>1, <1>2

\* A call with a handle is hung up, or lost track of.
LEMMA HungUpOrLost ==
    ASSUME NEW s \in Calls, NEW t \in Deactivate(s)
    PROVE  /\ t \in Calls /\ t.status = s.status /\ (t.clean => s.clean)
           /\ t.call \in {s.call, NoAddr}
           /\ t.clean /\ s.handle => t.call = NoAddr
<1>1. CASE ~s.handle
  BY <1>1 DEF Deactivate
<1>2. CASE s.handle
  <2>1. PICK o \in Outcomes :
            t \in CASE o = "ok"   -> {[s EXCEPT !.handle = FALSE, !.call = NoAddr]}
                    [] o = "lost" -> {[s EXCEPT !.clean = FALSE]}
                    [] OTHER      -> {[s EXCEPT !.call = a, !.clean = FALSE] : a \in {s.call, NoAddr}}
    BY <1>2 DEF Deactivate
  <2>2. CASE o = "ok"
    BY <2>1, <2>2 DEF Calls, Addresses
  <2>3. CASE o = "lost"
    BY <2>1, <2>3 DEF Calls, Addresses
  <2>4. CASE o \notin {"ok", "lost"}
    <3>1. PICK a \in {s.call, NoAddr} : t = [s EXCEPT !.call = a, !.clean = FALSE]
      BY <2>1, <2>4
    <3>2. a \in Addresses
      BY DEF Calls, Addresses
    <3> QED
      BY <3>1, <3>2 DEF Calls
  <2> QED
    BY <2>2, <2>3, <2>4
<1> QED
  BY <1>1, <1>2

\* The query finds the call, or that it is gone.
LEMMA GoodQuery ==
    ASSUME NEW s, Good(s), NEW q \in QueryDataCall(s)
    PROVE  Good(q.to)
<1>1. PICK o \in Outcomes :
          q \in CASE o = "ok" ->
                       IF s.call = NoAddr
                       THEN {[ok |-> TRUE, to |-> [s EXCEPT !.status = "down", !.handle = FALSE]]}
                       ELSE {[ok |-> TRUE, to |-> [s EXCEPT !.status = "up"]],
                             [ok |-> TRUE,
                              to |-> [s EXCEPT !.status = "down", !.handle = FALSE, !.clean = FALSE]]}
                  [] o = "lost" -> {[ok |-> FALSE, to |-> s]}
                  [] OTHER      -> {[ok |-> TRUE, to |-> s]}
  BY DEF QueryDataCall
<1>2. CASE o = "ok"
  <2>1. s \in Calls
    BY DEF Good
  <2>2. CASE s.call = NoAddr
    <3>1. q.to = [s EXCEPT !.status = "down", !.handle = FALSE]
      BY <1>1, <1>2, <2>2
    <3>2. q.to \in Calls /\ q.to.call = NoAddr
      BY <2>1, <2>2, <3>1 DEF Calls
    <3> QED
      BY <3>2 DEF Good, Known
  <2>3. CASE s.call # NoAddr /\ q.to = [s EXCEPT !.status = "up"]
    <3>1. /\ q.to \in Calls /\ q.to.call = s.call /\ q.to.clean = s.clean
          /\ q.to.handle = s.handle /\ q.to.status = "up"
      BY <2>1, <2>3 DEF Calls
    <3> QED
      BY <3>1 DEF Good, Known
  <2>4. CASE s.call # NoAddr
             /\ q.to = [s EXCEPT !.status = "down", !.handle = FALSE, !.clean = FALSE]
    <3>1. q.to \in Calls /\ q.to.call = s.call /\ ~q.to.clean
      BY <2>1, <2>4 DEF Calls
    <3> QED
      BY <3>1 DEF Good
  <2> QED
    BY <1>1, <1>2, <2>2, <2>3, <2>4
<1>3. CASE o # "ok"
  BY <1>1, <1>3 DEF Good
<1> QED
  BY <1>2, <1>3

\* A call whose address has changed is hung up.
LEMMA GoodAddress ==
    ASSUME NEW s, Good(s), NEW t \in SameAddress(s)
    PROVE  Good(t)
<1>1. PICK g \in GetIPAddress(s) :
          \/ t = s
          \/ \E u \in Deactivate(g.to) : t = [u EXCEPT !.status = "down"]
  BY DEF SameAddress
<1>2. CASE t = s
  BY <1>2
<1>3. ASSUME NEW u \in Deactivate(g.to), t = [u EXCEPT !.status = "down"]
      PROVE  Good(t)
  <2>1. /\ g.to \in Calls /\ g.to.handle = s.handle /\ g.to.call = s.call
        /\ g.to.clean => s.clean
    BY AddressRead DEF Good
  <2>2. u \in Calls /\ u.call \in {s.call, NoAddr} /\ (u.clean => s.clean)
        /\ (u.clean /\ s.handle => u.call = NoAddr)
    BY <2>1, HungUpOrLost
  <2>3. t \in Calls /\ t.call = u.call /\ t.clean = u.clean
    BY <1>3, <2>2 DEF Calls
  <2> QED
    BY <2>2, <2>3 DEF Good, Known
<1> QED
  BY <1>1, <1>2, <1>3

LEMMA GoodAddressed ==
    ASSUME NEW s, Good(s), NEW t \in Addressed(s)
    PROVE  Good(t)
<1>1. CASE t \in SameAddress(s)
  BY <1>1, GoodAddress
<1>2. ASSUME NEW g \in GetIPAddress(s), t \in SameAddress(g.to) \/ t = Lost(g.to)
      PROVE  Good(t)
  <2>1. Good(g.to)
    BY AddressRead DEF Good, Known
  <2>2. CASE t = Lost(g.to)
    BY <2>1, <2>2 DEF Lost, Good, Calls
  <2> QED
    BY <1>2, <2>1, <2>2, GoodAddress
<1> QED
  BY <1>1, <1>2 DEF Addressed

\* SIG_EVENT_CHECK keeps track of a call.
LEMMA GoodChecked ==
    ASSUME NEW f \in Families, Good(Call(f)), call[f] # NoAddr => f \in Enabled,
           NEW t \in Checked(f)
    PROVE  Good(t) /\ (f \notin Enabled => t.call = call[f])
<1> DEFINE s == Call(f)
<1>1. CASE f \notin Enabled \/ status[f] = "down"
  <2>1. t = [s EXCEPT !.status = "down"]
    BY <1>1 DEF Checked
  <2>2. s.call = call[f] /\ s.status = status[f] /\ s.clean /\ Good(s)
    BY DEF Call
  <2> HIDE DEF s
  <2>3. t \in Calls /\ t.call = call[f] /\ t.clean /\ t.handle = s.handle
    BY <2>1, <2>2 DEF Good, Calls
  <2> QED
    BY <1>1, <2>2, <2>3 DEF Good, Known
<1>2. ASSUME f \in Enabled, NEW q \in QueryDataCall(s),
             t = q.to \/ t = Lost(q.to) \/ t \in Addressed(q.to)
      PROVE  Good(t)
  <2>1. Good(q.to)
    BY GoodQuery
  <2>2. CASE t = Lost(q.to)
    BY <2>1, <2>2 DEF Lost, Good, Calls
  <2> QED
    BY <1>2, <2>1, <2>2, GoodAddressed
<1>3. CASE f \in Enabled /\ status[f] # "down" /\ f = 6
  BY <1>2, <1>3 DEF Checked
<1>4. CASE f \in Enabled /\ status[f] # "down" /\ f # 6
  BY <1>2, <1>4 DEF Checked
<1> QED
  BY <1>1, <1>3, <1>4

\* A call that was set up without a mishap has its handle.
LEMMA SetUp ==
    ASSUME NEW s \in Calls, NEW d \in SetupDataCall(s)
    PROVE  /\ d.to \in Calls /\ (d.to.clean => s.clean)
           /\ ~d.ok /\ d.to.clean => d.to = s
           /\ d.ok /\ d.to.clean => d.to.handle
           /\ Gone => d.to.call = s.call
<1>1. PICK o \in Outcomes :
          d \in CASE o = "ok" -> {[ok |-> TRUE, to |-> [t EXCEPT !.handle = TRUE]] : t \in Established(s)}
                                     \cup {[ok |-> FALSE, to |-> s]}
                  [] o = "lost"  -> {[ok |-> FALSE, to |-> t] : t \in Unheard(s)}
                  [] o = "woken" -> {[ok |-> TRUE, to |-> t] : t \in Unheard(s)}
  BY DEF SetupDataCall
<1>2. o \in {"ok", "lost", "woken"} /\ (Gone => o # "ok")
  BY DEF Outcomes
<1>3. ASSUME NEW t \in Established(s) PROVE t \in Calls /\ t.clean = s.clean
  BY DEF Established, Calls, Addresses
<1>4. ASSUME NEW t \in Unheard(s)
      PROVE  t \in Calls /\ ~t.clean /\ (Gone => t.call = s.call)
  BY <1>3 DEF Unheard, Calls
<1>5. CASE o = "ok"
  <2>1. CASE d = [ok |-> FALSE, to |-> s]
    BY <1>2, <1>5, <2>1
  <2>2. ASSUME NEW t \in Established(s), d = [ok |-> TRUE, to |-> [t EXCEPT !.handle = TRUE]]
        PROVE  d.ok /\ d.to \in Calls /\ d.to.handle /\ d.to.clean = s.clean
    BY <1>3, <2>2 DEF Calls
  <2> QED
    BY <1>1, <1>2, <1>5, <2>1, <2>2
<1>6. CASE o \in {"lost", "woken"}
  BY <1>1, <1>4, <1>6
<1> QED
  BY <1>2, <1>5, <1>6

\* SIG_EVENT_START keeps track of a call.
LEMMA GoodDialled ==
    ASSUME NEW f \in Families, Good(Call(f)), NEW t \in Dialled(f)
    PROVE  Good(t) /\ (f \notin Enabled => t.call = call[f])
<1> DEFINE s == Call(f)
<1>1. CASE f \notin Enabled \/ status[f] = "up"
  <2>1. t = s /\ s.call = call[f]
    BY <1>1 DEF Dialled, Call
  <2> QED
    BY <2>1
<1>2. CASE f \in Enabled /\ status[f] # "up"
  <2>1. PICK d \in SetupDataCall(s) :
            IF ~d.ok THEN t = d.to
            ELSE \E g \in GetIPAddress(d.to) :
                    t = IF g.ok THEN [g.to EXCEPT !.status = "up"] ELSE g.to
    BY <1>2 DEF Dialled
  <2>2. s \in Calls /\ (Gone => s.call = NoAddr) /\ (~trouble => Known(s))
    <3>1. s.clean
      BY DEF Call
    <3> QED
      BY <3>1 DEF Good
  <2>3. /\ d.to \in Calls
        /\ ~d.ok /\ d.to.clean => d.to = s
        /\ d.ok /\ d.to.clean => d.to.handle
        /\ Gone => d.to.call = NoAddr
    BY <2>2, SetUp
  <2>4. CASE ~d.ok
    <3>1. t = d.to
      BY <2>1, <2>4
    <3>2. t.clean => t = s
      BY <2>3, <2>4, <3>1
    <3> QED
      BY <1>2, <2>2, <2>3, <3>1, <3>2 DEF Good
  <2>5. CASE d.ok
    <3>1. PICK g \in GetIPAddress(d.to) :
              t = IF g.ok THEN [g.to EXCEPT !.status = "up"] ELSE g.to
      BY <2>1, <2>5
    <3>2. /\ g.to \in Calls /\ g.to.handle = d.to.handle /\ g.to.call = d.to.call
          /\ g.to.clean => d.to.clean /\ g.ok
      BY <2>3, AddressRead
    <3>3. t \in Calls /\ t.handle = g.to.handle /\ t.call = g.to.call /\ t.clean = g.to.clean
          /\ (g.ok => t.status = "up")
      BY <3>1, <3>2 DEF Calls
    <3>4. t.clean => t.handle /\ t.status = "up"
      BY <2>3, <2>5, <3>2, <3>3
    <3>5. Gone => t.call = NoAddr
      BY <2>3, <3>2, <3>3
    <3> QED
      BY <1>2, <3>3, <3>4, <3>5 DEF Good, Known
  <2> QED
    BY <1>2, <2>4, <2>5
<1> QED
  BY <1>1, <1>2

\* SIG_EVENT_STOP ends it, or loses track of it.
LEMMA GoodHungUp ==
    ASSUME NEW f \in Families, Good(Call(f)), call[f] # NoAddr => f \in Enabled,
           NEW t \in HungUp(f)
    PROVE  /\ Good(t) /\ (f \notin Enabled => t.call = call[f])
           /\ ~trouble /\ t.clean => t.call = NoAddr
<1>1. Call(f).call = call[f] /\ Call(f).status = status[f] /\ Call(f).clean
  BY DEF Call
<1>2. CASE f \notin Enabled \/ status[f] # "up"
  BY <1>1, <1>2 DEF HungUp, Good, Known
<1>3. CASE f \in Enabled /\ status[f] = "up"
  <2>1. t \in Deactivate(Call(f)) /\ Call(f) \in Calls
    BY <1>3 DEF HungUp, Good
  <2>2. /\ t \in Calls /\ t.call \in {call[f], NoAddr}
        /\ t.clean /\ Call(f).handle => t.call = NoAddr
    BY <1>1, <2>1, HungUpOrLost
  <2> QED
    BY <1>1, <1>3, <2>2 DEF Good, Known
<1> QED
  BY <1>2, <1>3
-----------------------------------------------------------------------------
(* The state. *)

LoopTypes ==
    /\ stage \in {"detect", "init", "poll", "serve", "quit", "again", "exited"}
    /\ ready \subseteq {"signal", "device"} /\ toMain \in Seq(Events)
    /\ dialled \subseteq Enabled /\ idle \in Nat /\ news \in 0 .. MaxNews
    /\ goOn \in BOOLEAN /\ attached \in BOOLEAN /\ reg \in BOOLEAN
    /\ asked \in BOOLEAN /\ stopped \in BOOLEAN

CallTypes ==
    /\ status \in [Families -> {"unknown", "down", "up"}] /\ handle \in [Families -> BOOLEAN]
    /\ addr \in [Families -> Addresses] /\ conf \in [Families -> Addresses]
    /\ call \in [Families -> Addresses] /\ link \in (SUBSET Families) \cup {Unset}
    /\ trouble \in BOOLEAN /\ faults \in 0 .. MaxFaults

EventReady == "device" \in ready => toMain # <<>>

Running == stage \in {"init", "poll", "serve"}

\* There is no call: of a family that is not asked for, in a modem that is gone,
\* and before and after the loop, unless STOP has ended it.
CallsEnd ==
    /\ \A f \in Families \ Enabled : call[f] = NoAddr
    /\ Running /\ Gone => call = Unaddressed
    /\ stage \notin {"poll", "serve"} /\ ~stopped => call = Unaddressed

\* What follows a SIGINT is the end: a reset that comes in between clears the pipe.
Stopping == "stop" \in Range(signals)
StopIsEnd ==
    /\ stopped => stage \in {"quit", "again", "exited"} /\ ~goOn
    /\ Running /\ Stopping => ~goOn

HInv == IInv /\ LoopTypes /\ CallTypes /\ EventReady /\ CallsEnd /\ StopIsEnd /\ CallsHeld

LEMMA InitHInv == Init => HInv
<1> SUFFICES ASSUME Init PROVE HInv
  OBVIOUS
<1>1. LoopTypes
  <2>1. <<>> \in Seq(Events) /\ 0 \in 0 .. MaxNews
    BY ConnAssumption
  <2> QED
    BY <2>1 DEF Init, LoopTypes
<1>2. CallTypes
  <2>1. 0 \in 0 .. MaxFaults
    BY ConnAssumption
  <2>2. Unaddressed \in [Families -> Addresses]
    BY DEF Unaddressed, Addresses
  <2>3. status \in [Families -> {"unknown", "down", "up"}] /\ handle \in [Families -> BOOLEAN]
    BY DEF Init
  <2>4. trouble \in BOOLEAN /\ faults \in 0 .. MaxFaults
    BY <2>1 DEF Init
  <2>5. addr = Unaddressed /\ conf = Unaddressed /\ call = Unaddressed /\ link = Unset
    BY DEF Init
  <2>6. /\ addr \in [Families -> Addresses] /\ conf \in [Families -> Addresses]
        /\ call \in [Families -> Addresses]
    BY <2>2, <2>5
  <2>7. link \in (SUBSET Families) \cup {Unset}
    BY <2>5
  <2> QED
    BY <2>3, <2>4, <2>6, <2>7 DEF CallTypes
<1>3. EventReady /\ CallsEnd /\ StopIsEnd /\ CallsHeld
  BY DEF Init, EventReady, CallsEnd, Unaddressed, StopIsEnd, Running, CallsHeld
<1> QED
  BY <1>1, <1>2, <1>3, InitIInv DEF HInv

\* What is in a pipe before and after a read or a write.
LEMMA Pipe ==
    ASSUME NEW S, NEW s \in Seq(S)
    PROVE  /\ \A e \in S : /\ Append(s, e) \in Seq(S) /\ Append(s, e) # <<>>
                           /\ Range(Append(s, e)) = Range(s) \cup {e}
           /\ s # <<>> => /\ Tail(s) \in Seq(S) /\ Range(Tail(s)) \subseteq Range(s)
                          /\ Head(s) \in Range(s)
<1>1. Len(s) \in Nat /\ DOMAIN s = 1 .. Len(s)
  BY LenProperties
<1>2. ASSUME NEW e \in S
      PROVE  /\ Append(s, e) \in Seq(S) /\ Append(s, e) # <<>>
             /\ Range(Append(s, e)) = Range(s) \cup {e}
  <2>1. /\ Append(s, e) \in Seq(S) /\ Len(Append(s, e)) = Len(s) + 1
        /\ \A i \in 1 .. Len(s) : Append(s, e)[i] = s[i]
        /\ Append(s, e)[Len(s) + 1] = e
    BY AppendProperties
  <2>2. DOMAIN Append(s, e) = 1 .. Len(s) + 1
    BY <2>1, LenProperties
  <2>3. Append(s, e) # <<>>
    BY <1>1, <2>1, EmptySeq
  <2> QED
    BY <1>1, <2>1, <2>2, <2>3 DEF Range
<1>3. ASSUME s # <<>>
      PROVE  /\ Tail(s) \in Seq(S) /\ Range(Tail(s)) \subseteq Range(s)
             /\ Head(s) \in Range(s)
  <2>1. /\ Tail(s) \in Seq(S) /\ Len(Tail(s)) = Len(s) - 1 /\ Len(s) # 0
        /\ \A i \in 1 .. Len(Tail(s)) : Tail(s)[i] = s[i + 1]
    BY <1>3, HeadTailProperties, EmptySeq
  <2>2. DOMAIN Tail(s) = 1 .. Len(Tail(s))
    BY <2>1, LenProperties
  <2>3. 1 \in DOMAIN s /\ Head(s) = s[1]
    BY <1>1, <1>3, EmptySeq
  <2> QED
    BY <1>1, <2>1, <2>2, <2>3 DEF Range
<1> QED
  BY <1>2, <1>3

\* The signals after a read or a write.
LEMMA SignalPipe ==
    ASSUME HInv
    PROVE  /\ \A e \in Signals : Range(Append(signals, e)) = Range(signals) \cup {e}
           /\ signals # <<>> => /\ Tail(signals) \in Seq(Signals)
                                /\ Range(Tail(signals)) \subseteq Range(signals)
                                /\ Head(signals) \in Range(signals)
           /\ Range(<<>>) = {}
<1>1. signals \in Seq(Signals)
  BY DEF HInv, IInv, TimeTypes
<1>2. Range(<<>>) = {}
  BY DEF Range
<1> QED
  BY <1>1, <1>2, Pipe

\* A modem is gone from the event that says so until main() leaves the loop.
LEMMA EventPipe ==
    ASSUME HInv
    PROVE  /\ \A e \in Events : toMain' = Append(toMain, e) =>
                  /\ toMain' \in Seq(Events) /\ toMain' # <<>>
                  /\ Gone' => Gone \/ e \in {"reset", "disconnected"}
           /\ toMain # <<>> =>
                  /\ Tail(toMain) \in Seq(Events)
                  /\ toMain' = Tail(toMain) => (Gone' => Gone)
                  /\ Head(toMain) \in {"reset", "disconnected"} => Gone
           /\ toMain' = <<>> => ~Gone'
<1>1. toMain \in Seq(Events)
  BY DEF HInv, LoopTypes
<1>2. toMain' = <<>> => ~Gone'
  BY DEF Gone, Range
<1>3. ASSUME NEW e \in Events, toMain' = Append(toMain, e)
      PROVE  /\ toMain' \in Seq(Events) /\ toMain' # <<>>
             /\ Gone' => Gone \/ e \in {"reset", "disconnected"}
  <2>1. /\ toMain' \in Seq(Events) /\ toMain' # <<>>
        /\ Range(toMain') = Range(toMain) \cup {e}
    BY <1>1, <1>3, Pipe
  <2> QED
    BY <2>1 DEF Gone
<1>4. ASSUME toMain # <<>>
      PROVE  /\ Tail(toMain) \in Seq(Events)
             /\ toMain' = Tail(toMain) => (Gone' => Gone)
             /\ Head(toMain) \in {"reset", "disconnected"} => Gone
  <2>1. /\ Tail(toMain) \in Seq(Events) /\ Range(Tail(toMain)) \subseteq Range(toMain)
        /\ Head(toMain) \in Range(toMain)
    BY <1>1, <1>4, Pipe
  <2> QED
    BY <2>1 DEF Gone
<1> QED
  BY <1>2, <1>3, <1>4

LEMMA SignalRead ==
    ASSUME HInv, NEW e, ReadSignal(e)
    PROVE  signals # <<>> /\ Head(signals) = e /\ stage = "serve"
BY DEF HInv, IInv, ReadyInv, ReadSignal

LEMMA EventRead ==
    ASSUME HInv, NEW e, ReadEvent(e)
    PROVE  toMain # <<>> /\ Head(toMain) = e /\ stage = "serve"
BY DEF HInv, EventReady, ReadEvent

\* In the loop, what is known of a call is good.
LEMMA GoodCall ==
    ASSUME HInv, stage = "serve", NEW f \in Families
    PROVE  Good(Call(f)) /\ (call[f] # NoAddr => f \in Enabled)
<1>1. /\ Call(f).status = status[f] /\ Call(f).handle = handle[f] /\ Call(f).call = call[f]
      /\ Call(f) \in Calls
  BY DEF Call, Calls, HInv, CallTypes
<1>2. call[f] # NoAddr => f \in Enabled
  BY DEF HInv, CallsEnd
<1>3. Gone => call[f] = NoAddr
  BY DEF HInv, CallsEnd, Running, Unaddressed
<1>4. ~trouble /\ call[f] # NoAddr => handle[f] /\ status[f] = "up"
  BY DEF HInv, CallsHeld
<1> QED
  BY <1>1, <1>2, <1>3, <1>4 DEF Good, Known

Results(r) ==
    /\ r = [f \in Families |-> r[f]]
    /\ \A f \in Families : Good(r[f]) /\ (f \notin Enabled => r[f].call = call[f])

\* A handler that does well by each call does so by both.
LEMMA CallsSet ==
    ASSUME HInv, NEW r, Results(r), SetCalls(r)
    PROVE  /\ status' \in [Families -> {"unknown", "down", "up"}]
           /\ handle' \in [Families -> BOOLEAN] /\ call' \in [Families -> Addresses]
           /\ trouble' \in BOOLEAN /\ faults' \in 0 .. MaxFaults
           /\ [f \in Families |-> r[f].addr] \in [Families -> Addresses]
           /\ \A f \in Families \ Enabled : call'[f] = NoAddr
           /\ Gone => call' = Unaddressed
           /\ ~trouble' => /\ ~trouble /\ \A f \in Families : r[f].clean
                           /\ \A f \in Families : call'[f] # NoAddr => handle'[f] /\ status'[f] = "up"
<1>1. \A f \in Families : r[f] \in Calls
  BY DEF Results, Good
<1>2. /\ status' = [f \in Families |-> r[f].status] /\ handle' = [f \in Families |-> r[f].handle]
      /\ call' = [f \in Families |-> r[f].call]
  BY DEF SetCalls
<1>3. /\ status' \in [Families -> {"unknown", "down", "up"}]
      /\ handle' \in [Families -> BOOLEAN] /\ call' \in [Families -> Addresses]
      /\ [f \in Families |-> r[f].addr] \in [Families -> Addresses]
  BY <1>1, <1>2 DEF Calls
<1>4. trouble' \in BOOLEAN
  BY DEF SetCalls
<1>5. faults' \in 0 .. MaxFaults
  BY ConnAssumption DEF SetCalls, HInv, CallTypes
<1>6. \A f \in Families \ Enabled : call'[f] = NoAddr
  BY <1>2 DEF Results, HInv, CallsEnd
<1>7. Gone => call' = Unaddressed
  BY <1>2 DEF Results, Good, Unaddressed
<1>8. ~trouble' => ~trouble /\ \A f \in Families : r[f].clean
  BY DEF SetCalls
<1>9. ~trouble' => \A f \in Families : call'[f] # NoAddr => handle'[f] /\ status'[f] = "up"
  BY <1>2, <1>8 DEF Results, Good, Known
<1> QED
  BY <1>3, <1>4, <1>5, <1>6, <1>7, <1>8, <1>9

LEMMA StartResults ==
    ASSUME HInv, stage = "serve", NEW r \in Both(Dialled(4), Dialled(6))
    PROVE  Results(r)
<1>1. \A f \in Families : r[f] \in Dialled(f)
  BY DEF Both, Families
<1> QED
  BY <1>1, GoodCall, GoodDialled DEF Results, Both

LEMMA CheckResults ==
    ASSUME HInv, stage = "serve", NEW r \in Both(Checked(4), Checked(6))
    PROVE  Results(r)
<1>1. \A f \in Families : r[f] \in Checked(f)
  BY DEF Both, Families
<1> QED
  BY <1>1, GoodCall, GoodChecked DEF Results, Both

LEMMA StopResults ==
    ASSUME HInv, stage = "serve", NEW r \in Both(HungUp(4), HungUp(6))
    PROVE  Results(r) /\ \A f \in Families : ~trouble /\ r[f].clean => r[f].call = NoAddr
<1>1. \A f \in Families : r[f] \in HungUp(f)
  BY DEF Both, Families
<1> QED
  BY <1>1, GoodCall, GoodHungUp DEF Results, Both

LEMMA LinkTyped ==
    ASSUME HInv, NEW l \in SUBSET Families, NEW a \in [Families -> Addresses], LinkChange(l, a)
    PROVE  /\ addr' \in [Families -> Addresses] /\ conf' \in [Families -> Addresses]
           /\ link' \in (SUBSET Families) \cup {Unset}
BY DEF LinkChange, HInv, CallTypes, Addresses

\* What the loop keeps has its type.
LEMMA LoopTypesStep ==
    ASSUME HInv, [Next]_vars
    PROVE  LoopTypes'
<1>1. ASSUME Detect PROVE LoopTypes'
  <2>1. <<>> \in Seq(Events)
    OBVIOUS
  <2> QED
    BY <1>1, <2>1 DEF Detect, NoDial, HInv, LoopTypes
<1>2. ASSUME DetectFails PROVE LoopTypes'
  BY <1>2 DEF DetectFails, NoDial, HInv, LoopTypes
<1>3. ASSUME StartUp PROVE LoopTypes'
  BY <1>3, ConnAssumption DEF StartUp, NoDial, HInv, LoopTypes
<1>4. ASSUME StartUpFails PROVE LoopTypes'
  BY <1>4 DEF StartUpFails, NoDial, HInv, LoopTypes
<1>5. ASSUME Quit PROVE LoopTypes'
  BY <1>5 DEF Quit, NoDial, HInv, LoopTypes
<1>6. ASSUME Again PROVE LoopTypes'
  BY <1>6 DEF Again, NoDial, HInv, LoopTypes
<1>7. ASSUME Poll PROVE LoopTypes'
  BY <1>7 DEF Poll, NoDial, HInv, LoopTypes
<1>8. ASSUME IdlePoll PROVE LoopTypes'
  BY <1>8, ConnAssumption DEF IdlePoll, Idle, NoDial, HInv, LoopTypes
<1>9. ASSUME StartLater PROVE LoopTypes'
  BY <1>9, ConnAssumption DEF StartLater, Served, NoDial, HInv, LoopTypes
<1>10. ASSUME Start PROVE LoopTypes'
  BY <1>10, ConnAssumption DEF Start, Served, HInv, LoopTypes
<1>11. ASSUME Check PROVE LoopTypes'
  BY <1>11, ConnAssumption DEF Check, Served, NoDial, HInv, LoopTypes
<1>12. ASSUME Stop PROVE LoopTypes'
  BY <1>12 DEF Stop, ReadSignal, NoDial, HInv, LoopTypes
<1>13. ASSUME Disconnected PROVE LoopTypes'
  BY <1>13, EventRead, EventPipe DEF Disconnected, NoDial, HInv, LoopTypes
<1>14. ASSUME Registration PROVE LoopTypes'
  <2>1. attached' \in BOOLEAN
    BY <1>14 DEF Registration, HInv, LoopTypes
  <2> QED
    BY <1>14, <2>1, EventRead, EventPipe, ConnAssumption
    DEF Registration, Served, NoDial, HInv, LoopTypes
<1>15. ASSUME CallsChanged PROVE LoopTypes'
  BY <1>15, EventRead, EventPipe, ConnAssumption
  DEF CallsChanged, Served, NoDial, HInv, LoopTypes
<1>16. ASSUME ModemReset PROVE LoopTypes'
  BY <1>16, EventRead, EventPipe DEF ModemReset, NoDial, HInv, LoopTypes
<1>17. ASSUME Tick PROVE LoopTypes'
  BY <1>17 DEF Tick, Less, Write, NoDial, HInv, LoopTypes
<1>18. ASSUME Interrupt PROVE LoopTypes'
  BY <1>18 DEF Interrupt, Write, NoDial, HInv, LoopTypes
<1>19. ASSUME RegistrationChanges PROVE LoopTypes'
  <2>1. "registration" \in Events
    BY DEF Events
  <2>2. toMain' = Append(toMain, "registration") /\ news' \in 0 .. MaxNews
    BY <1>19, ConnAssumption DEF RegistrationChanges, News, HInv, LoopTypes
  <2>3. toMain' \in Seq(Events)
    BY <2>1, <2>2, EventPipe
  <2> QED
    BY <1>19, <2>2, <2>3 DEF RegistrationChanges, News, NoDial, HInv, LoopTypes
<1>20. ASSUME CallChanges PROVE LoopTypes'
  <2>1. "calls" \in Events
    BY DEF Events
  <2>2. toMain' = Append(toMain, "calls") /\ news' \in 0 .. MaxNews
    BY <1>20, ConnAssumption DEF CallChanges, News, HInv, LoopTypes
  <2>3. toMain' \in Seq(Events)
    BY <2>1, <2>2, EventPipe
  <2> QED
    BY <1>20, <2>2, <2>3 DEF CallChanges, News, NoDial, HInv, LoopTypes
<1>21. ASSUME ModemGone PROVE LoopTypes'
  <2>1. PICK e \in {"reset", "disconnected"} : News(e) /\ reg' \in BOOLEAN
    BY <1>21 DEF ModemGone
  <2>2. e \in Events
    BY DEF Events
  <2>3. toMain' = Append(toMain, e) /\ news' \in 0 .. MaxNews
    BY <2>1, ConnAssumption DEF News, HInv, LoopTypes
  <2>4. toMain' \in Seq(Events)
    BY <2>2, <2>3, EventPipe
  <2> QED
    BY <2>1, <2>3, <2>4 DEF News, NoDial, HInv, LoopTypes
<1>22. ASSUME Terminated PROVE LoopTypes'
  BY <1>22 DEF Terminated, HInv, LoopTypes
<1>23. ASSUME UNCHANGED vars PROVE LoopTypes'
  BY <1>23 DEF HInv, LoopTypes
<1> QED
  BY <1>1, <1>2, <1>3, <1>4, <1>5, <1>6, <1>7, <1>8, <1>9, <1>10, <1>11,
    <1>12, <1>13, <1>14, <1>15, <1>16, <1>17, <1>18, <1>19, <1>20, <1>21,
    <1>22, <1>23 DEF Next, MainStep, Environment

\* What is known of the calls has its type.
LEMMA CallTypesStep ==
    ASSUME HInv, [Next]_vars
    PROVE  CallTypes'
<1>1. ASSUME Detect PROVE CallTypes'
  BY <1>1 DEF Detect, NoDial, HInv, CallTypes
<1>2. ASSUME DetectFails PROVE CallTypes'
  BY <1>2 DEF DetectFails, NoDial, HInv, CallTypes
<1>3. ASSUME StartUp PROVE CallTypes'
  BY <1>3 DEF StartUp, NoDial, HInv, CallTypes
<1>4. ASSUME StartUpFails PROVE CallTypes'
  BY <1>4 DEF StartUpFails, NoDial, HInv, CallTypes
<1>5. ASSUME Quit PROVE CallTypes'
  <2>1. {} \in SUBSET Families /\ addr \in [Families -> Addresses]
    BY DEF HInv, CallTypes
  <2> QED
    BY <1>5, <2>1, LinkTyped DEF Quit, HInv, CallTypes
<1>6. ASSUME Again PROVE CallTypes'
  BY <1>6 DEF Again, NoDial, HInv, CallTypes
<1>7. ASSUME Poll PROVE CallTypes'
  BY <1>7 DEF Poll, NoDial, HInv, CallTypes
<1>8. ASSUME IdlePoll PROVE CallTypes'
  BY <1>8 DEF IdlePoll, NoDial, HInv, CallTypes
<1>9. ASSUME StartLater PROVE CallTypes'
  BY <1>9 DEF StartLater, TooEarly, ReadSignal, Served, NoDial, HInv,
    CallTypes
<1>10. ASSUME Start PROVE CallTypes'
  <2>1. PICK r \in Both(Dialled(4), Dialled(6)) :
            SetCalls(r) /\ addr' = [f \in Families |-> r[f].addr]
    BY <1>10 DEF Start
  <2>2. Results(r)
    BY <1>10, StartResults DEF Start, ReadSignal
  <2> QED
    BY <1>10, <2>1, <2>2, CallsSet DEF Start, HInv, CallTypes
<1>11. ASSUME Check PROVE CallTypes'
  <2>1. PICK r \in Both(Checked(4), Checked(6)) :
            /\ SetCalls(r)
            /\ \/ LinkChange(Up(status'), [f \in Families |-> r[f].addr])
               \/ addr' = [f \in Families |-> r[f].addr] /\ UNCHANGED linkVars
    BY <1>11 DEF Check
  <2>2. Results(r)
    BY <1>11, CheckResults DEF Check, ReadSignal
  <2>3. Up(status') \in SUBSET Families
    BY DEF Up
  <2>4. [f \in Families |-> r[f].addr] \in [Families -> Addresses]
    BY <2>1, <2>2, CallsSet
  <2>5. /\ addr' \in [Families -> Addresses] /\ conf' \in [Families -> Addresses]
        /\ link' \in (SUBSET Families) \cup {Unset}
    BY <2>1, <2>3, <2>4, LinkTyped DEF HInv, CallTypes
  <2> QED
    BY <2>1, <2>2, <2>5, CallsSet DEF CallTypes
<1>12. ASSUME Stop PROVE CallTypes'
  <2>1. PICK r \in Both(HungUp(4), HungUp(6)) :
            SetCalls(r) /\ LinkChange({}, [f \in Families |-> r[f].addr])
    BY <1>12 DEF Stop
  <2>2. Results(r)
    BY <1>12, StopResults DEF Stop, ReadSignal
  <2>3. /\ addr' \in [Families -> Addresses] /\ conf' \in [Families -> Addresses]
        /\ link' \in (SUBSET Families) \cup {Unset}
    BY <2>1, <2>2, CallsSet, LinkTyped
  <2> QED
    BY <2>1, <2>2, <2>3, CallsSet DEF CallTypes
<1>13. ASSUME Disconnected PROVE CallTypes'
  <2>1. {} \in SUBSET Families /\ addr \in [Families -> Addresses]
    BY DEF HInv, CallTypes
  <2> QED
    BY <1>13, <2>1, LinkTyped DEF Disconnected, HInv, CallTypes
<1>14. ASSUME Registration PROVE CallTypes'
  BY <1>14 DEF Registration, ReadEvent, Served, NoDial, HInv, CallTypes
<1>15. ASSUME CallsChanged PROVE CallTypes'
  BY <1>15 DEF CallsChanged, ReadEvent, Served, NoDial, HInv, CallTypes
<1>16. ASSUME ModemReset PROVE CallTypes'
  BY <1>16 DEF ModemReset, ReadEvent, NoDial, HInv, CallTypes
<1>17. ASSUME Tick PROVE CallTypes'
  BY <1>17 DEF Tick, Less, Write, NoDial, HInv, CallTypes
<1>18. ASSUME Interrupt PROVE CallTypes'
  BY <1>18 DEF Interrupt, Write, NoDial, HInv, CallTypes
<1>19. ASSUME RegistrationChanges PROVE CallTypes'
  BY <1>19 DEF RegistrationChanges, News, NoDial, HInv, CallTypes
<1>20. ASSUME CallChanges PROVE CallTypes'
  <2>1. call' \in [Families -> Addresses]
    BY <1>20 DEF CallChanges, HInv, CallTypes, Addresses
  <2> QED
    BY <1>20, <2>1 DEF CallChanges, News, HInv, CallTypes
<1>21. ASSUME ModemGone PROVE CallTypes'
  <2>1. call' \in [Families -> Addresses]
    BY <1>21 DEF ModemGone, Unaddressed, Addresses
  <2> QED
    BY <1>21, <2>1 DEF ModemGone, News, HInv, CallTypes
<1>22. ASSUME Terminated PROVE CallTypes'
  BY <1>22 DEF Terminated, HInv, CallTypes
<1>23. ASSUME UNCHANGED vars PROVE CallTypes'
  BY <1>23 DEF HInv, CallTypes
<1> QED
  BY <1>1, <1>2, <1>3, <1>4, <1>5, <1>6, <1>7, <1>8, <1>9, <1>10, <1>11,
    <1>12, <1>13, <1>14, <1>15, <1>16, <1>17, <1>18, <1>19, <1>20, <1>21,
    <1>22, <1>23 DEF Next, MainStep, Environment

\* poll() reported the event pipe readable only if it is.
LEMMA EventReadyStep ==
    ASSUME HInv, [Next]_vars
    PROVE  EventReady'
<1>1. ASSUME Detect PROVE EventReady'
  BY <1>1 DEF Detect, NoDial, HInv, EventReady
<1>2. ASSUME DetectFails PROVE EventReady'
  BY <1>2 DEF DetectFails, NoDial, HInv, EventReady
<1>3. ASSUME StartUp PROVE EventReady'
  BY <1>3 DEF StartUp, NoDial, HInv, EventReady
<1>4. ASSUME StartUpFails PROVE EventReady'
  BY <1>4 DEF StartUpFails, NoDial, HInv, EventReady
<1>5. ASSUME Quit PROVE EventReady'
  BY <1>5 DEF Quit, NoDial, HInv, EventReady
<1>6. ASSUME Again PROVE EventReady'
  BY <1>6 DEF Again, NoDial, HInv, EventReady
<1>7. ASSUME Poll PROVE EventReady'
  BY <1>7 DEF Poll, HInv, EventReady
<1>8. ASSUME IdlePoll PROVE EventReady'
  BY <1>8 DEF IdlePoll, NoDial, HInv, EventReady
<1>9. ASSUME StartLater PROVE EventReady'
  BY <1>9 DEF StartLater, TooEarly, ReadSignal, Served, NoDial, HInv,
    EventReady
<1>10. ASSUME Start PROVE EventReady'
  BY <1>10 DEF Start, ReadSignal, Served, HInv, EventReady
<1>11. ASSUME Check PROVE EventReady'
  BY <1>11 DEF Check, ReadSignal, Served, NoDial, HInv, EventReady
<1>12. ASSUME Stop PROVE EventReady'
  BY <1>12 DEF Stop, ReadSignal, NoDial, HInv, EventReady
<1>13. ASSUME Disconnected PROVE EventReady'
  BY <1>13 DEF Disconnected, ReadEvent, NoDial, HInv, EventReady
<1>14. ASSUME Registration PROVE EventReady'
  BY <1>14 DEF Registration, ReadEvent, Served, NoDial, HInv, EventReady
<1>15. ASSUME CallsChanged PROVE EventReady'
  BY <1>15 DEF CallsChanged, ReadEvent, Served, NoDial, HInv, EventReady
<1>16. ASSUME ModemReset PROVE EventReady'
  BY <1>16 DEF ModemReset, ReadEvent, NoDial, HInv, EventReady
<1>17. ASSUME Tick PROVE EventReady'
  BY <1>17 DEF Tick, Less, Write, NoDial, HInv, EventReady
<1>18. ASSUME Interrupt PROVE EventReady'
  BY <1>18 DEF Interrupt, Write, NoDial, HInv, EventReady
<1>19. ASSUME RegistrationChanges PROVE EventReady'
  BY <1>19, EventPipe DEF RegistrationChanges, News, Events, HInv, EventReady
<1>20. ASSUME CallChanges PROVE EventReady'
  BY <1>20, EventPipe DEF CallChanges, News, Events, HInv, EventReady
<1>21. ASSUME ModemGone PROVE EventReady'
  BY <1>21, EventPipe DEF ModemGone, News, Events, HInv, EventReady
<1>22. ASSUME Terminated PROVE EventReady'
  BY <1>22 DEF Terminated, HInv, EventReady
<1>23. ASSUME UNCHANGED vars PROVE EventReady'
  BY <1>23 DEF HInv, EventReady
<1> QED
  BY <1>1, <1>2, <1>3, <1>4, <1>5, <1>6, <1>7, <1>8, <1>9, <1>10, <1>11,
    <1>12, <1>13, <1>14, <1>15, <1>16, <1>17, <1>18, <1>19, <1>20, <1>21,
    <1>22, <1>23 DEF Next, MainStep, Environment

\* No call outlives what ends it.
LEMMA CallsEndStep ==
    ASSUME HInv, [Next]_vars
    PROVE  CallsEnd'
<1>1. ASSUME Detect PROVE CallsEnd'
  BY <1>1, EventPipe DEF Detect, HInv, CallsEnd, StopIsEnd, Running
<1>2. ASSUME DetectFails PROVE CallsEnd'
  BY <1>2 DEF DetectFails, NoDial, HInv, CallsEnd, Running, Gone
<1>3. ASSUME StartUp PROVE CallsEnd'
  BY <1>3 DEF StartUp, HInv, CallsEnd, StopIsEnd, Running, Gone
<1>4. ASSUME StartUpFails PROVE CallsEnd'
  BY <1>4 DEF StartUpFails, NoDial, HInv, CallsEnd, Running, Gone
<1>5. ASSUME Quit PROVE CallsEnd'
  BY <1>5 DEF Quit, NoDial, HInv, CallsEnd, Running, Gone
<1>6. ASSUME Again PROVE CallsEnd'
  BY <1>6 DEF Again, NoDial, HInv, CallsEnd, Running, Gone
<1>7. ASSUME Poll PROVE CallsEnd'
  BY <1>7 DEF Poll, NoDial, HInv, CallsEnd, Running, Gone
<1>8. ASSUME IdlePoll PROVE CallsEnd'
  BY <1>8 DEF IdlePoll, NoDial, HInv, CallsEnd, Running, Gone
<1>9. ASSUME StartLater PROVE CallsEnd'
  BY <1>9 DEF StartLater, TooEarly, ReadSignal, Served, NoDial, HInv,
    CallsEnd, Running, Gone
<1>10. ASSUME Start PROVE CallsEnd'
  <2>1. PICK r \in Both(Dialled(4), Dialled(6)) : SetCalls(r)
    BY <1>10 DEF Start
  <2>2. Results(r)
    BY <1>10, StartResults DEF Start, ReadSignal
  <2> QED
    BY <1>10, <2>1, <2>2, CallsSet DEF Start, Served, CallsEnd, Gone
<1>11. ASSUME Check PROVE CallsEnd'
  <2>1. PICK r \in Both(Checked(4), Checked(6)) : SetCalls(r)
    BY <1>11 DEF Check
  <2>2. Results(r)
    BY <1>11, CheckResults DEF Check, ReadSignal
  <2> QED
    BY <1>11, <2>1, <2>2, CallsSet DEF Check, Served, CallsEnd, Gone
<1>12. ASSUME Stop PROVE CallsEnd'
  <2>1. PICK r \in Both(HungUp(4), HungUp(6)) : SetCalls(r)
    BY <1>12 DEF Stop
  <2>2. Results(r)
    BY <1>12, StopResults DEF Stop, ReadSignal
  <2> QED
    BY <1>12, <2>1, <2>2, CallsSet DEF Stop, CallsEnd, Running
<1>13. ASSUME Disconnected PROVE CallsEnd'
  BY <1>13, EventRead, EventPipe DEF Disconnected, HInv, CallsEnd, Running
<1>14. ASSUME Registration PROVE CallsEnd'
  BY <1>14, EventRead, EventPipe DEF Registration, Served, HInv, CallsEnd, Running
<1>15. ASSUME CallsChanged PROVE CallsEnd'
  BY <1>15, EventRead, EventPipe DEF CallsChanged, Served, HInv, CallsEnd, Running
<1>16. ASSUME ModemReset PROVE CallsEnd'
  BY <1>16, EventRead, EventPipe DEF ModemReset, HInv, CallsEnd, Running
<1>17. ASSUME Tick PROVE CallsEnd'
  BY <1>17 DEF Tick, Less, Write, NoDial, HInv, CallsEnd, Running, Gone
<1>18. ASSUME Interrupt PROVE CallsEnd'
  BY <1>18 DEF Interrupt, Write, NoDial, HInv, CallsEnd, Running, Gone
<1>19. ASSUME RegistrationChanges PROVE CallsEnd'
  BY <1>19, EventPipe DEF RegistrationChanges, News, Events, HInv, CallsEnd, Running
<1>20. ASSUME CallChanges PROVE CallsEnd'
  <2>1. ~Gone /\ ~Gone'
    BY <1>20, EventPipe DEF CallChanges, News, Events
  <2>2. \A f \in Families : call[f] = NoAddr => call'[f] = NoAddr
    BY <1>20 DEF CallChanges, HInv, CallTypes
  <2>3. call = Unaddressed => call' = Unaddressed
    BY <1>20 DEF CallChanges, Unaddressed
  <2> QED
    BY <1>20, <2>1, <2>2, <2>3 DEF CallChanges, News, HInv, CallsEnd
<1>21. ASSUME ModemGone PROVE CallsEnd'
  BY <1>21 DEF ModemGone, News, Unaddressed, CallsEnd
<1>22. ASSUME Terminated PROVE CallsEnd'
  BY <1>22 DEF Terminated, HInv, CallsEnd, Running, Gone
<1>23. ASSUME UNCHANGED vars PROVE CallsEnd'
  BY <1>23 DEF HInv, CallsEnd, Running, Gone
<1> QED
  BY <1>1, <1>2, <1>3, <1>4, <1>5, <1>6, <1>7, <1>8, <1>9, <1>10, <1>11,
    <1>12, <1>13, <1>14, <1>15, <1>16, <1>17, <1>18, <1>19, <1>20, <1>21,
    <1>22, <1>23 DEF Next, MainStep, Environment

\* main() does not start over after a SIGINT.
LEMMA StopIsEndStep ==
    ASSUME HInv, [Next]_vars
    PROVE  StopIsEnd'
<1>1. ASSUME Detect PROVE StopIsEnd'
  BY <1>1, SignalPipe DEF Detect, HInv, StopIsEnd, Running, Stopping
<1>2. ASSUME DetectFails PROVE StopIsEnd'
  BY <1>2 DEF DetectFails, NoDial, HInv, StopIsEnd, Running, Stopping
<1>3. ASSUME StartUp PROVE StopIsEnd'
  BY <1>3, SignalPipe DEF StartUp, Signals, HInv, StopIsEnd, Running, Stopping
<1>4. ASSUME StartUpFails PROVE StopIsEnd'
  BY <1>4 DEF StartUpFails, NoDial, HInv, StopIsEnd, Running, Stopping
<1>5. ASSUME Quit PROVE StopIsEnd'
  BY <1>5 DEF Quit, NoDial, HInv, StopIsEnd, Running, Stopping
<1>6. ASSUME Again PROVE StopIsEnd'
  BY <1>6 DEF Again, NoDial, HInv, StopIsEnd, Running, Stopping
<1>7. ASSUME Poll PROVE StopIsEnd'
  BY <1>7 DEF Poll, NoDial, HInv, StopIsEnd, Running, Stopping
<1>8. ASSUME IdlePoll PROVE StopIsEnd'
  <2>1. Range(<<"check">>) = {"check"}
    BY DEF Range
  <2> QED
    BY <1>8, <2>1 DEF IdlePoll, Idle, HInv, StopIsEnd, Running, Stopping
<1>9. ASSUME StartLater PROVE StopIsEnd'
  BY <1>9, SignalRead, SignalPipe DEF StartLater, Served, HInv, StopIsEnd, Running, Stopping
<1>10. ASSUME Start PROVE StopIsEnd'
  BY <1>10, SignalRead, SignalPipe DEF Start, Served, HInv, StopIsEnd, Running, Stopping
<1>11. ASSUME Check PROVE StopIsEnd'
  <2>1. Tail(signals) \in Seq(Signals) /\ Range(Tail(signals)) \subseteq Range(signals)
    BY <1>11, SignalRead, SignalPipe DEF Check
  <2>2. Range(Append(Tail(signals), "start")) = Range(Tail(signals)) \cup {"start"}
    <3>1. "start" \in Signals
      BY DEF Signals
    <3> QED
      BY <2>1, <3>1, Pipe
  <2>3. Stopping' => Stopping
    BY <1>11, <2>1, <2>2 DEF Check, AfterCheck, Stopping
  <2> QED
    BY <1>11, <2>3 DEF Check, ReadSignal, Served, HInv, StopIsEnd, Running
<1>12. ASSUME Stop PROVE StopIsEnd'
  <2>1. Stopping /\ stage = "serve"
    BY <1>12, SignalRead, SignalPipe DEF Stop, Stopping
  <2> QED
    BY <1>12, <2>1 DEF Stop, HInv, StopIsEnd, Running
<1>13. ASSUME Disconnected PROVE StopIsEnd'
  BY <1>13 DEF Disconnected, ReadEvent, NoDial, HInv, StopIsEnd, Running,
    Stopping
<1>14. ASSUME Registration PROVE StopIsEnd'
  BY <1>14, SignalPipe DEF Registration, ReadEvent, Served, Signals, HInv, StopIsEnd, Running,
    Stopping
<1>15. ASSUME CallsChanged PROVE StopIsEnd'
  BY <1>15, SignalPipe DEF CallsChanged, ReadEvent, Served, Signals, HInv, StopIsEnd, Running,
    Stopping
<1>16. ASSUME ModemReset PROVE StopIsEnd'
  BY <1>16 DEF ModemReset, ReadEvent, NoDial, HInv, StopIsEnd, Running,
    Stopping
<1>17. ASSUME Tick PROVE StopIsEnd'
  BY <1>17, SignalPipe DEF Tick, Write, Signals, HInv, StopIsEnd, Running, Stopping
<1>18. ASSUME Interrupt PROVE StopIsEnd'
  BY <1>18 DEF Interrupt, Write, NoDial, HInv, StopIsEnd, Running, Stopping
<1>19. ASSUME RegistrationChanges PROVE StopIsEnd'
  BY <1>19 DEF RegistrationChanges, News, NoDial, HInv, StopIsEnd, Running,
    Stopping
<1>20. ASSUME CallChanges PROVE StopIsEnd'
  BY <1>20 DEF CallChanges, News, NoDial, HInv, StopIsEnd, Running, Stopping
<1>21. ASSUME ModemGone PROVE StopIsEnd'
  BY <1>21 DEF ModemGone, News, NoDial, HInv, StopIsEnd, Running, Stopping
<1>22. ASSUME Terminated PROVE StopIsEnd'
  BY <1>22 DEF Terminated, HInv, StopIsEnd, Running, Stopping
<1>23. ASSUME UNCHANGED vars PROVE StopIsEnd'
  BY <1>23 DEF HInv, StopIsEnd, Running, Stopping
<1> QED
  BY <1>1, <1>2, <1>3, <1>4, <1>5, <1>6, <1>7, <1>8, <1>9, <1>10, <1>11,
    <1>12, <1>13, <1>14, <1>15, <1>16, <1>17, <1>18, <1>19, <1>20, <1>21,
    <1>22, <1>23 DEF Next, MainStep, Environment

\* Every step keeps track of the calls.
LEMMA CallsHeldStep ==
    ASSUME HInv, [Next]_vars
    PROVE  CallsHeld'
<1>1. ASSUME Detect PROVE CallsHeld'
  BY <1>1 DEF Detect, HInv, StopIsEnd, CallsHeld
<1>2. ASSUME DetectFails PROVE CallsHeld'
  BY <1>2 DEF DetectFails, NoDial, HInv, CallsHeld
<1>3. ASSUME StartUp PROVE CallsHeld'
  BY <1>3 DEF StartUp, HInv, CallsEnd, StopIsEnd, Unaddressed, CallsHeld
<1>4. ASSUME StartUpFails PROVE CallsHeld'
  BY <1>4 DEF StartUpFails, NoDial, HInv, CallsHeld
<1>5. ASSUME Quit PROVE CallsHeld'
  BY <1>5 DEF Quit, NoDial, HInv, CallsHeld
<1>6. ASSUME Again PROVE CallsHeld'
  BY <1>6 DEF Again, NoDial, HInv, CallsHeld
<1>7. ASSUME Poll PROVE CallsHeld'
  BY <1>7 DEF Poll, NoDial, HInv, CallsHeld
<1>8. ASSUME IdlePoll PROVE CallsHeld'
  BY <1>8 DEF IdlePoll, NoDial, HInv, CallsHeld
<1>9. ASSUME StartLater PROVE CallsHeld'
  BY <1>9 DEF StartLater, TooEarly, ReadSignal, Served, NoDial, HInv,
    CallsHeld
<1>10. ASSUME Start PROVE CallsHeld'
  <2>1. PICK r \in Both(Dialled(4), Dialled(6)) : SetCalls(r)
    BY <1>10 DEF Start
  <2>2. Results(r) /\ ~stopped
    BY <1>10, StartResults DEF Start, ReadSignal, HInv, StopIsEnd
  <2> QED
    BY <1>10, <2>1, <2>2, CallsSet DEF Start, CallsHeld
<1>11. ASSUME Check PROVE CallsHeld'
  <2>1. PICK r \in Both(Checked(4), Checked(6)) : SetCalls(r)
    BY <1>11 DEF Check
  <2>2. Results(r) /\ ~stopped
    BY <1>11, CheckResults DEF Check, ReadSignal, HInv, StopIsEnd
  <2> QED
    BY <1>11, <2>1, <2>2, CallsSet DEF Check, CallsHeld
<1>12. ASSUME Stop PROVE CallsHeld'
  <2>1. PICK r \in Both(HungUp(4), HungUp(6)) : SetCalls(r)
    BY <1>12 DEF Stop
  <2>2. Results(r) /\ \A f \in Families : ~trouble /\ r[f].clean => r[f].call = NoAddr
    BY <1>12, StopResults DEF Stop, ReadSignal
  <2>3. ~trouble' => call' = Unaddressed
    BY <2>1, <2>2, CallsSet DEF SetCalls, Unaddressed
  <2> QED
    BY <1>12, <2>3 DEF Stop, CallsHeld
<1>13. ASSUME Disconnected PROVE CallsHeld'
  BY <1>13 DEF Disconnected, ReadEvent, NoDial, HInv, CallsHeld
<1>14. ASSUME Registration PROVE CallsHeld'
  BY <1>14 DEF Registration, ReadEvent, Served, NoDial, HInv, CallsHeld
<1>15. ASSUME CallsChanged PROVE CallsHeld'
  BY <1>15 DEF CallsChanged, ReadEvent, Served, NoDial, HInv, CallsHeld
<1>16. ASSUME ModemReset PROVE CallsHeld'
  BY <1>16 DEF ModemReset, ReadEvent, NoDial, HInv, CallsHeld
<1>17. ASSUME Tick PROVE CallsHeld'
  BY <1>17 DEF Tick, Less, Write, NoDial, HInv, CallsHeld
<1>18. ASSUME Interrupt PROVE CallsHeld'
  BY <1>18 DEF Interrupt, Write, NoDial, HInv, CallsHeld
<1>19. ASSUME RegistrationChanges PROVE CallsHeld'
  BY <1>19 DEF RegistrationChanges, News, NoDial, HInv, CallsHeld
<1>20. ASSUME CallChanges PROVE CallsHeld'
  <2>1. \A f \in Families : call[f] = NoAddr => call'[f] = NoAddr
    BY <1>20 DEF CallChanges, HInv, CallTypes
  <2>2. ~stopped
    BY <1>20 DEF CallChanges, News, HInv, StopIsEnd
  <2> QED
    BY <1>20, <2>1, <2>2 DEF CallChanges, News, HInv, CallsHeld
<1>21. ASSUME ModemGone PROVE CallsHeld'
  BY <1>21 DEF ModemGone, News, Unaddressed, CallsHeld
<1>22. ASSUME Terminated PROVE CallsHeld'
  BY <1>22 DEF Terminated, HInv, CallsHeld
<1>23. ASSUME UNCHANGED vars PROVE CallsHeld'
  BY <1>23 DEF HInv, CallsHeld
<1> QED
  BY <1>1, <1>2, <1>3, <1>4, <1>5, <1>6, <1>7, <1>8, <1>9, <1>10, <1>11,
    <1>12, <1>13, <1>14, <1>15, <1>16, <1>17, <1>18, <1>19, <1>20, <1>21,
    <1>22, <1>23 DEF Next, MainStep, Environment

LEMMA NextHInv == HInv /\ [Next]_vars => HInv'
BY NextIInv, LoopTypesStep, CallTypesStep, EventReadyStep, CallsEndStep, StopIsEndStep,
   CallsHeldStep DEF HInv

LEMMA SpecHInv == Spec => []HInv
BY InitHInv, NextHInv, PTL DEF Spec
-----------------------------------------------------------------------------
\* The variables keep their types, for any back-off and any faults.
THEOREM Typed == Spec => []TypeOK
<1>1. HInv => TypeOK
  <2> SUFFICES ASSUME HInv PROVE TypeOK
    OBVIOUS
  <2>1. {allowIn, alarmIn, idle} \subseteq Nat /\ fail \in 0 .. Len(BackOff)
    BY DEF HInv, IInv, TimeTypes, LoopTypes
  <2>2. {goOn, attached, reg, asked, stopped, trouble} \subseteq BOOLEAN
    BY DEF HInv, LoopTypes, CallTypes
  <2>3. signals \in Seq(Signals)
    BY DEF HInv, IInv, TimeTypes
  <2> QED
    BY <2>1, <2>2, <2>3 DEF HInv, LoopTypes, CallTypes, Addresses, TypeOK
<1> QED
  BY <1>1, SpecHInv, PTL

\* Unless a request went astray, a call in the modem is one that main() knows to
\* be up and has the handle of; and SIG_EVENT_STOP leaves none, whatever resets,
\* changes of the network and repeated runs come before it.
THEOREM CallsKept == Spec => []CallsHeld
<1>1. HInv => CallsHeld
  BY DEF HInv
<1> QED
  BY <1>1, SpecHInv, PTL
=============================================================================
