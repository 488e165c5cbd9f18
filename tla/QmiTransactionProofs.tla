----------------------- MODULE QmiTransactionProofs -----------------------
(***************************************************************************)
(* Theorems about QmiTransaction, for every set of clients, every range of *)
(* transaction ids, every queue size and every number of requests,         *)
(* indications and signals.                                                *)
(***************************************************************************)
EXTENDS QmiTransaction, TLAPS

---------------------------------------------------------------------------
(* The inductive invariant *)

\* The counter that numbers the requests of client c, and its last value.
CurTid(c) == IF c = Ctl THEN ctlTid ELSE muxTid
MaxTid(c) == IF c = Ctl THEN MaxCtlTid ELSE MaxMuxTid

\* s_commandmutex is held exactly while a thread is in its critical section.
LockInv ==
  /\ mutex = "main" <=> mpc \in {"check", "write"}
  /\ mutex = "qmi" <=> qpc = "event"

\* The request in the caller's hands is the newest one; the registered one
\* is the newest one or, before the newest has been registered, an older.
SlotInv ==
  /\ InCall => /\ req.n = reqNo /\ reqNo > 0
               /\ req.tid = CurTid(req.client) /\ req.tid > 0
  /\ s_pRequest.n = 0 => s_pRequest = NoReq
  /\ s_pRequest.n <= reqNo
  /\ mpc = "lock" => s_pRequest.n < reqNo
  /\ mpc \in {"check", "write", "wait"} => s_pRequest = req
  /\ mpc = "wake" => s_pRequest \in {req, NoReq}

HeapInv ==
  /\ s_pRequest # NoReq => s_pRequest.n \in heap
  /\ mpc \in {"lock", "check", "write"} => req.n \in heap

\* The fd is closed before the QMI thread cancels for the last time.
FdInv ==
  /\ qpc \in {"start", "quitEvent", "quitCancel", "exited"} => cdc_wdm_fd = "closed"
  /\ qpc = "start" => mpc = "init" /\ evq = <<>>
  /\ qpc = "exited" => mpc \notin {"write", "wait"}

\* The request or reply x was composed at most MaxLag requests ago, when n
\* are composed, and its counter, now at cur, has moved on at least lo times
\* since x drew its transaction id from it.
AgedIn(x, n, cur, lo) ==
  /\ x.n > 0 /\ x.n <= n /\ n < x.n + MaxLag
  /\ x.tid > 0 /\ x.tid <= MaxTid(x.client)
  /\ \E a \in lo .. (n - x.n) :
       cur = x.tid + a \/ cur = x.tid + a - MaxTid(x.client)

\* The counter has moved on if the request in progress, a younger one, draws
\* from the same counter.
Moved(x) ==
  IF InCall /\ x.n < reqNo /\ (req.client = Ctl <=> x.client = Ctl) THEN 1 ELSE 0

Aged(x) == AgedIn(x, reqNo, CurTid(x.client), Moved(x))

\* Only replies carry a request number.
Numbered(m) == m.kind # "reply" => m.n = 0

MsgInv(m) == Numbered(m) /\ (m.kind = "reply" => Aged(m))

FlightInv ==
  /\ \A r \in pending : Aged(r)
  /\ \A i \in 1 .. Len(wire) : MsgInv(wire[i])
  /\ MsgInv(hand)

AnswerInv ==
  /\ Numbered(s_pResponse) /\ Numbered(got)
  /\ mpc \in {"check", "write", "wait", "wake"} => got = NoMsg
  /\ mpc \in {"check", "write", "wait", "wake"} /\ s_pResponse.kind = "reply"
       => s_pResponse.n = reqNo
  /\ mpc # "lock" /\ got.kind = "reply" => got.n = reqNo

ControlInv == LockInv /\ SlotInv /\ HeapInv /\ FdInv

IInv == TypeOK /\ ControlInv /\ FlightInv /\ AnswerInv

---------------------------------------------------------------------------
(* Type correctness *)

\* The NULL values, replies and indications have their types.
LEMMA ValueTypes ==
  /\ NoReq \in Request /\ NoMsg \in Message
  /\ \A r \in Request : Reply(r) \in Message
  /\ \A c \in Clients, t \in IndTids : Ind(c, t) \in Message
BY ConstAssumption DEF NoReq, NoMsg, Reply, Ind, Request, Message

\* Every step of the two threads and of the modem preserves the types.
LEMMA TypeStep == TypeOK /\ [Next]_vars => TypeOK'
<1> SUFFICES ASSUME TypeOK, [Next]_vars PROVE TypeOK'
  OBVIOUS
<1> USE ConstAssumption, ValueTypes
    DEF TypeOK, MainPcs, QmiPcs, vars, mainVars, tidVars, slotVars, qmiVars, modemVars, pipeVars
<1>1. CASE MainInit
  BY <1>1 DEF MainInit
<1>2. CASE SendLock
  BY <1>2 DEF SendLock
<1>3. CASE SendCheck
  BY <1>3 DEF SendCheck, SendReturn
<1>4. CASE SendWritten
  BY <1>4 DEF SendWritten
<1>5. CASE SendNotWritable
  BY <1>5 DEF SendNotWritable
<1>6. CASE SendFailed
  BY <1>6 DEF SendFailed, SendReturn
<1>7. CASE WaitTimeout
  BY <1>7 DEF WaitTimeout, WaitEnds
<1>8. CASE WaitSpurious
  BY <1>8 DEF WaitSpurious, WaitEnds
<1>9. CASE SendWake
  BY <1>9 DEF SendWake, SendReturn
<1>10. CASE MainReadEvent
  BY <1>10 DEF MainReadEvent
<1>11. CASE MainQuit
  BY <1>11 DEF MainQuit
<1>12. CASE MainJoin
  BY <1>12 DEF MainJoin
<1>13. CASE QmiOpen
  BY <1>13 DEF QmiOpen, SendEvent
<1>14. CASE QmiOpenFails
  BY <1>14 DEF QmiOpenFails, SendEvent
<1>15. CASE QmiHangup
  BY <1>15 DEF QmiHangup
<1>16. CASE QmiControl
  BY <1>16 DEF QmiControl
<1>17. CASE QmiRead
  BY <1>17 DEF QmiRead
<1>18. CASE RecvMatch
  BY <1>18 DEF RecvMatch, CondSignal
<1>19. CASE RecvIndication
  BY <1>19 DEF RecvIndication
<1>20. CASE RecvEvent
  BY <1>20 DEF RecvEvent, SendEvent
<1>21. CASE RecvIgnored
  BY <1>21 DEF RecvIgnored
<1>22. CASE QmiCancel
  BY <1>22 DEF QmiCancel, RecvNull, CondSignal
<1>23. CASE QmiClose
  BY <1>23 DEF QmiClose
<1>24. CASE QmiQuitEvent
  BY <1>24 DEF QmiQuitEvent, SendEvent
<1>25. CASE QmiExit
  BY <1>25 DEF QmiExit, RecvNull, CondSignal
<1>26. CASE Unplug
  <2>1. pending' \subseteq Request /\ wire' \in Seq(Message)
    BY <1>26 DEF Unplug
  <2>2. plugged' \in BOOLEAN
    BY <1>26, Zenon DEF Unplug
  <2> QED
    BY <1>26, <2>1, <2>2 DEF Unplug
<1>27. CASE Signal
  BY <1>27 DEF Signal
<1>28. CASE Terminated
  BY <1>28 DEF Terminated
<1>29. ASSUME NEW c \in Clients, NEW want \in BOOLEAN, Compose(c, want)
      PROVE  TypeOK'
  BY <1>29 DEF Compose, NextTid, Request
<1>30. ASSUME NEW r \in pending, ModemReply(r)
      PROVE  TypeOK'
  BY <1>30 DEF ModemReply
<1>31. ASSUME NEW r \in pending, ModemDrop(r)
      PROVE  TypeOK'
  BY <1>31 DEF ModemDrop
<1>32. ASSUME NEW c \in Clients, NEW t \in IndTids, ModemIndicate(c, t)
      PROVE  TypeOK'
  BY <1>32 DEF ModemIndicate
<1>33. CASE UNCHANGED vars
  BY <1>33
<1>34. QED
  BY <1>1, <1>2, <1>3, <1>4, <1>5, <1>6, <1>7, <1>8, <1>9, <1>10, <1>11,
     <1>12, <1>13, <1>14, <1>15, <1>16, <1>17, <1>18, <1>19, <1>20, <1>21, <1>22,
     <1>23, <1>24, <1>25, <1>26, <1>27, <1>28, <1>29, <1>30, <1>31, <1>32, <1>33
  DEF Next, MainStep, QmiStep, EnvStep

\* TypeOK holds in every reachable state of the transaction layer.
THEOREM TypeCorrect == Spec => []TypeOK
<1>1. Init => TypeOK
  BY ConstAssumption, ValueTypes DEF Init, TypeOK, MainPcs, QmiPcs
<1>2. QED
  BY <1>1, TypeStep, PTL DEF Spec

---------------------------------------------------------------------------
(* Locks, the registered request, the heap, the fd *)

\* Every step preserves the invariant of the mutex, of s_pRequest, of the
\* allocated requests, of cdc_wdm_fd and of the transaction counters.
LEMMA ControlStep == TypeOK /\ ControlInv /\ [Next]_vars => ControlInv'
<1> SUFFICES ASSUME TypeOK, ControlInv, [Next]_vars PROVE ControlInv'
  OBVIOUS
<1> USE ConstAssumption
    DEF TypeOK, MainPcs, QmiPcs, NoReq, NoMsg, Request, Message, InCall, CurTid,
        ControlInv, LockInv, SlotInv, HeapInv, FdInv,
        vars, mainVars, tidVars, slotVars, qmiVars, modemVars, pipeVars
<1>1. CASE MainInit
  BY <1>1 DEF MainInit
<1>2. CASE SendLock
  BY <1>2, SMTT(30) DEF SendLock
<1>3. CASE SendCheck
  BY <1>3 DEF SendCheck, SendReturn
<1>4. CASE SendWritten
  BY <1>4 DEF SendWritten
<1>5. CASE SendNotWritable
  BY <1>5 DEF SendNotWritable
<1>6. CASE SendFailed
  BY <1>6 DEF SendFailed, SendReturn
<1>7. CASE WaitTimeout
  BY <1>7 DEF WaitTimeout, WaitEnds
<1>8. CASE WaitSpurious
  BY <1>8 DEF WaitSpurious, WaitEnds
<1>9. CASE SendWake
  BY <1>9 DEF SendWake, SendReturn
<1>10. CASE MainReadEvent
  BY <1>10 DEF MainReadEvent
<1>11. CASE MainQuit
  BY <1>11 DEF MainQuit
<1>12. CASE MainJoin
  BY <1>12 DEF MainJoin
<1>13. CASE QmiOpen
  BY <1>13 DEF QmiOpen, SendEvent
<1>14. CASE QmiOpenFails
  BY <1>14 DEF QmiOpenFails, SendEvent
<1>15. CASE QmiHangup
  BY <1>15 DEF QmiHangup
<1>16. CASE QmiControl
  BY <1>16 DEF QmiControl
<1>17. CASE QmiRead
  BY <1>17 DEF QmiRead
<1>18. CASE RecvMatch
  BY <1>18, SMTT(30) DEF RecvMatch, CondSignal
<1>19. CASE RecvIndication
  BY <1>19 DEF RecvIndication
<1>20. CASE RecvEvent
  BY <1>20 DEF RecvEvent, SendEvent
<1>21. CASE RecvIgnored
  BY <1>21 DEF RecvIgnored
<1>22. CASE QmiCancel
  <2>1. CASE s_pRequest = NoReq
    BY <1>22, <2>1, SMTT(30) DEF QmiCancel, RecvNull
  <2>2. CASE s_pRequest # NoReq
    BY <1>22, <2>2, SMTT(30) DEF QmiCancel, RecvNull, CondSignal
  <2> QED BY <2>1, <2>2
<1>23. CASE QmiClose
  BY <1>23 DEF QmiClose
<1>24. CASE QmiQuitEvent
  BY <1>24 DEF QmiQuitEvent, SendEvent
<1>25. CASE QmiExit
  <2>1. CASE s_pRequest = NoReq
    BY <1>25, <2>1, SMTT(30) DEF QmiExit, RecvNull
  <2>2. CASE s_pRequest # NoReq
    BY <1>25, <2>2, SMTT(30) DEF QmiExit, RecvNull, CondSignal
  <2> QED BY <2>1, <2>2
<1>26. CASE Unplug
  BY <1>26 DEF Unplug
<1>27. CASE Signal
  BY <1>27 DEF Signal
<1>28. CASE Terminated
  BY <1>28 DEF Terminated
<1>29. ASSUME NEW c \in Clients, NEW want \in BOOLEAN, Compose(c, want)
      PROVE  ControlInv'
  BY <1>29, SMTT(30) DEF Compose, NextTid
<1>30. ASSUME NEW r \in pending, ModemReply(r)
      PROVE  ControlInv'
  BY <1>30 DEF ModemReply
<1>31. ASSUME NEW r \in pending, ModemDrop(r)
      PROVE  ControlInv'
  BY <1>31 DEF ModemDrop
<1>32. ASSUME NEW c \in Clients, NEW t \in IndTids, ModemIndicate(c, t)
      PROVE  ControlInv'
  BY <1>32 DEF ModemIndicate
<1>33. CASE UNCHANGED vars
  BY <1>33
<1>34. QED
  BY <1>1, <1>2, <1>3, <1>4, <1>5, <1>6, <1>7, <1>8, <1>9, <1>10, <1>11,
     <1>12, <1>13, <1>14, <1>15, <1>16, <1>17, <1>18, <1>19, <1>20, <1>21, <1>22,
     <1>23, <1>24, <1>25, <1>26, <1>27, <1>28, <1>29, <1>30, <1>31, <1>32, <1>33,
     SMTT(30)
  DEF Next, MainStep, QmiStep, EnvStep

---------------------------------------------------------------------------
(* The answers under way *)

\* An answer may forget that its counter has moved on.
LEMMA AgedWeaken == \A x, n, cur : AgedIn(x, n, cur, 1) => AgedIn(x, n, cur, 0)
BY DEF AgedIn

\* A request that has just been composed is of age zero.
LEMMA AgedNew ==
  ASSUME NEW r \in Request, r.n > 0, r.tid > 0, r.tid <= MaxTid(r.client)
  PROVE  AgedIn(r, r.n, r.tid, 0)
BY ConstAssumption DEF AgedIn, Request, MaxTid

\* The next request makes an answer in time one older; the counter moves if
\* it is the one the next request draws from.
LEMMA AgedNext ==
  ASSUME NEW x, x.n \in Nat, x.tid \in Nat, NEW n \in Nat, NEW lo \in {0, 1},
         NEW cur \in 0 .. MaxTid(x.client), AgedIn(x, n, cur, lo), n + 1 < x.n + MaxLag
  PROVE  /\ AgedIn(x, n + 1, cur, 0)
         /\ AgedIn(x, n + 1, NextTid(cur, MaxTid(x.client)), 1)
<1>1. MaxTid(x.client) \in Nat /\ MaxLag <= MaxTid(x.client) /\ MaxLag \in Nat
  BY ConstAssumption DEF MaxTid
<1>2. PICK a \in lo .. (n - x.n) :
         cur = x.tid + a \/ cur = x.tid + a - MaxTid(x.client)
  BY DEF AgedIn
<1>3. /\ a \in 0 .. ((n + 1) - x.n) /\ a + 1 \in 1 .. ((n + 1) - x.n)
      /\ a + 1 < MaxTid(x.client)
  BY <1>1, <1>2 DEF AgedIn
<1>4. \/ NextTid(cur, MaxTid(x.client)) = x.tid + (a + 1)
      \/ NextTid(cur, MaxTid(x.client)) = x.tid + (a + 1) - MaxTid(x.client)
  BY <1>1, <1>2, <1>3 DEF NextTid, AgedIn
<1>5. QED
  BY <1>1, <1>2, <1>3, <1>4 DEF AgedIn

\* A counter that has moved on does not show the old transaction id again
\* while the answer is in time.
LEMMA AgedDiffers ==
  ASSUME NEW x, x.n \in Nat, x.tid \in Nat, NEW n \in Nat, NEW cur, AgedIn(x, n, cur, 1)
  PROVE  x.tid # cur
BY ConstAssumption, SMTT(30) DEF AgedIn, MaxTid

\* Every step keeps the answers under way in time.
LEMMA FlightStep ==
  TypeOK /\ ControlInv /\ FlightInv /\ [Next]_vars => FlightInv'
<1> SUFFICES ASSUME TypeOK, ControlInv, FlightInv, [Next]_vars PROVE FlightInv'
  OBVIOUS
<1> USE AgedWeaken
    DEF ControlInv, SlotInv, FlightInv, InCall, CurTid, MsgInv, Numbered, Aged, Moved,
        NoMsg, vars, mainVars, tidVars, slotVars, qmiVars, modemVars, pipeVars
<1>1. CASE MainInit
  BY <1>1 DEF MainInit
<1>2. CASE SendLock
  BY <1>2 DEF SendLock
<1>3. CASE SendCheck
  BY <1>3 DEF SendCheck, SendReturn
<1>4. CASE SendWritten
  <2> req \in Request /\ req.n = reqNo /\ req.n > 0 /\ req.tid > 0
    BY <1>4 DEF SendWritten, TypeOK
  <2> req.tid = CurTid(req.client) /\ req.tid <= MaxTid(req.client)
    BY <1>4, ConstAssumption DEF SendWritten, TypeOK, CurTid, MaxTid
  <2>1. AgedIn(req, reqNo, CurTid(req.client), 0)
    BY AgedNew
  <2>2. Moved(req) = 0 /\ \A x : Moved(x)' = Moved(x)
    BY <1>4 DEF SendWritten, TypeOK
  <2>3. Aged(req)' /\ \A r \in pending : Aged(r)'
    BY <1>4, <2>1, <2>2 DEF SendWritten
  <2> QED
    BY <1>4, <2>3 DEF SendWritten
<1>5. CASE SendNotWritable
  BY <1>5 DEF SendNotWritable
<1>6. CASE SendFailed
  BY <1>6 DEF SendFailed, SendReturn
<1>7. CASE WaitTimeout
  BY <1>7 DEF WaitTimeout, WaitEnds
<1>8. CASE WaitSpurious
  BY <1>8 DEF WaitSpurious, WaitEnds
<1>9. CASE SendWake
  BY <1>9 DEF SendWake, SendReturn
<1>10. CASE MainReadEvent
  BY <1>10 DEF MainReadEvent
<1>11. CASE MainQuit
  BY <1>11 DEF MainQuit
<1>12. CASE MainJoin
  BY <1>12 DEF MainJoin
<1>13. CASE QmiOpen
  BY <1>13 DEF QmiOpen, SendEvent
<1>14. CASE QmiOpenFails
  BY <1>14 DEF QmiOpenFails, SendEvent
<1>15. CASE QmiHangup
  BY <1>15 DEF QmiHangup
<1>16. CASE QmiControl
  BY <1>16 DEF QmiControl
<1>17. CASE QmiRead
  BY <1>17 DEF QmiRead, TypeOK
<1>18. CASE RecvMatch
  BY <1>18 DEF RecvMatch, CondSignal
<1>19. CASE RecvIndication
  BY <1>19 DEF RecvIndication
<1>20. CASE RecvEvent
  BY <1>20 DEF RecvEvent, SendEvent
<1>21. CASE RecvIgnored
  BY <1>21 DEF RecvIgnored
<1>22. CASE QmiCancel
  BY <1>22 DEF QmiCancel, RecvNull, CondSignal
<1>23. CASE QmiClose
  BY <1>23 DEF QmiClose
<1>24. CASE QmiQuitEvent
  BY <1>24 DEF QmiQuitEvent, SendEvent
<1>25. CASE QmiExit
  BY <1>25 DEF QmiExit, RecvNull, CondSignal
<1>26. CASE Unplug
  BY <1>26 DEF Unplug
<1>27. CASE Signal
  BY <1>27 DEF Signal
<1>28. CASE Terminated
  BY <1>28 DEF Terminated
<1>29. ASSUME NEW c \in Clients, NEW want \in BOOLEAN, Compose(c, want)
      PROVE  FlightInv'
  <2> DEFINE Next1(x) == /\ AgedIn(x, reqNo + 1, CurTid(x.client), 0)
                         /\ AgedIn(x, reqNo + 1, NextTid(CurTid(x.client), MaxTid(x.client)), 1)
  <2>1. ASSUME NEW x, x.n \in Nat, x.tid \in Nat, InTime(x.n), Aged(x)
        PROVE  Next1(x)
    <3>1. CurTid(x.client) \in 0 .. MaxTid(x.client) /\ Moved(x) \in {0, 1}
      BY DEF TypeOK, MaxTid
    <3>2. reqNo + 1 < x.n + MaxLag
      BY <2>1 DEF InTime, AgedIn
    <3> QED
      BY <2>1, <3>1, <3>2, AgedNext DEF TypeOK
  <2>2. ASSUME NEW x, x.n \in Nat, x.tid \in Nat, InTime(x.n), Aged(x)
        PROVE  AgedIn(x, reqNo', IF x.client = Ctl THEN ctlTid' ELSE muxTid',
                      IF x.client = Ctl <=> c = Ctl THEN 1 ELSE 0)
    BY <1>29, <2>1, <2>2 DEF Compose, MaxTid
  <2>3. \A r \in pending : Aged(r)'
    <3> TAKE r \in pending
    <3>1. r.n \in Nat /\ r.tid \in Nat /\ Aged(r) /\ InTime(r.n)
      BY <1>29 DEF Compose, Underway, TypeOK, Request
    <3> QED
      BY <1>29, <2>2, <3>1 DEF Compose
  <2>4. \A i \in 1 .. Len(wire) : MsgInv(wire[i])'
    <3> TAKE i \in 1 .. Len(wire)
    <3>1. i \in DOMAIN wire /\ wire[i] \in Message
      BY DEF TypeOK
    <3>2. wire[i].n \in Underway /\ wire[i].n \in Nat /\ wire[i].tid \in Nat
      BY <3>1 DEF Underway, Message
    <3>3. MsgInv(wire[i]) /\ InTime(wire[i].n)
      BY <1>29, <3>2 DEF Compose
    <3> QED
      BY <1>29, <2>2, <3>2, <3>3 DEF Compose
  <2>5. MsgInv(hand)'
    <3>1. hand.n \in Nat /\ hand.tid \in Nat /\ MsgInv(hand) /\ InTime(hand.n)
      BY <1>29 DEF Compose, Underway, TypeOK, Message
    <3> QED
      BY <1>29, <2>2, <3>1 DEF Compose
  <2> QED
    BY <1>29, <2>3, <2>4, <2>5 DEF Compose
<1>30. ASSUME NEW r \in pending, ModemReply(r)
      PROVE  FlightInv'
  <2>1. \A n, cur, lo : AgedIn(r, n, cur, lo) => AgedIn(Reply(r), n, cur, lo)
    BY DEF AgedIn, Reply
  <2>2. Reply(r).n = r.n /\ Reply(r).client = r.client /\ Reply(r).kind = "reply"
    BY DEF Reply
  <2>3. MsgInv(Reply(r))
    BY <2>1, <2>2
  <2> QED
    BY <1>30, <2>3 DEF ModemReply, TypeOK
<1>31. ASSUME NEW r \in pending, ModemDrop(r)
      PROVE  FlightInv'
  BY <1>31 DEF ModemDrop
<1>32. ASSUME NEW c \in Clients, NEW t \in IndTids, ModemIndicate(c, t)
      PROVE  FlightInv'
  BY <1>32 DEF ModemIndicate, Ind, TypeOK
<1>33. CASE UNCHANGED vars
  BY <1>33
<1>34. QED
  BY <1>1, <1>2, <1>3, <1>4, <1>5, <1>6, <1>7, <1>8, <1>9, <1>10, <1>11,
     <1>12, <1>13, <1>14, <1>15, <1>16, <1>17, <1>18, <1>19, <1>20, <1>21, <1>22,
     <1>23, <1>24, <1>25, <1>26, <1>27, <1>28, <1>29, <1>30, <1>31, <1>32, <1>33
  DEF Next, MainStep, QmiStep, EnvStep

---------------------------------------------------------------------------
(* The answers handed to the caller *)

\* A reply that matches the request in progress answers it.
LEMMA MatchIsOwn ==
  ASSUME TypeOK, ControlInv, FlightInv, InCall,
         hand.kind = "reply", is_response(req, hand)
  PROVE  hand.n = reqNo
<1>1. hand.n \in Nat /\ hand.tid \in Nat /\ reqNo \in Nat
  BY DEF TypeOK, Message
<1>2. AgedIn(hand, reqNo, CurTid(hand.client), Moved(hand))
  BY DEF FlightInv, MsgInv, Aged
<1>3. hand.tid = CurTid(hand.client)
  BY DEF ControlInv, SlotInv, is_response
<1>4. SUFFICES ASSUME hand.n < reqNo PROVE FALSE
  BY <1>1, <1>2 DEF AgedIn
<1>5. Moved(hand) = 1
  BY <1>4 DEF Moved, is_response
<1>6. QED
  BY <1>1, <1>2, <1>3, <1>5, AgedDiffers

\* Every step preserves the invariant of the answers handed over.
LEMMA AnswerStep ==
  TypeOK /\ ControlInv /\ FlightInv /\ AnswerInv /\ [Next]_vars => AnswerInv'
<1> SUFFICES ASSUME TypeOK, ControlInv, FlightInv, AnswerInv, [Next]_vars
             PROVE  AnswerInv'
  OBVIOUS
<1> USE DEF ControlInv, LockInv, SlotInv, AnswerInv, InCall, Numbered, NoMsg, vars, mainVars, tidVars, slotVars, qmiVars, modemVars, pipeVars
<1>1. CASE MainInit
  BY <1>1 DEF MainInit
<1>2. CASE SendLock
  BY <1>2 DEF SendLock
<1>3. CASE SendCheck
  BY <1>3 DEF SendCheck, SendReturn
<1>4. CASE SendWritten
  BY <1>4 DEF SendWritten
<1>5. CASE SendNotWritable
  BY <1>5 DEF SendNotWritable
<1>6. CASE SendFailed
  BY <1>6 DEF SendFailed, SendReturn
<1>7. CASE WaitTimeout
  BY <1>7 DEF WaitTimeout, WaitEnds
<1>8. CASE WaitSpurious
  BY <1>8 DEF WaitSpurious, WaitEnds
<1>9. CASE SendWake
  BY <1>9 DEF SendWake, SendReturn
<1>10. CASE MainReadEvent
  BY <1>10 DEF MainReadEvent
<1>11. CASE MainQuit
  BY <1>11 DEF MainQuit
<1>12. CASE MainJoin
  BY <1>12 DEF MainJoin
<1>13. CASE QmiOpen
  BY <1>13 DEF QmiOpen, SendEvent
<1>14. CASE QmiOpenFails
  BY <1>14 DEF QmiOpenFails, SendEvent
<1>15. CASE QmiHangup
  BY <1>15 DEF QmiHangup
<1>16. CASE QmiControl
  BY <1>16 DEF QmiControl
<1>17. CASE QmiRead
  BY <1>17 DEF QmiRead
<1>18. CASE RecvMatch
  <2>1. Numbered(hand)
    BY DEF FlightInv, MsgInv
  <2>2. mpc \in {"wait", "wake"} /\ hand.kind = "reply" => hand.n = reqNo
    BY <1>18, MatchIsOwn DEF RecvMatch
  <2>3. mpc \notin {"check", "write"}
    BY <1>18 DEF RecvMatch
  <2> QED
    BY <1>18, <2>1, <2>2, <2>3 DEF RecvMatch, CondSignal
<1>19. CASE RecvIndication
  BY <1>19 DEF RecvIndication
<1>20. CASE RecvEvent
  BY <1>20 DEF RecvEvent, SendEvent
<1>21. CASE RecvIgnored
  BY <1>21 DEF RecvIgnored
<1>22. CASE QmiCancel
  BY <1>22 DEF QmiCancel, RecvNull, CondSignal
<1>23. CASE QmiClose
  BY <1>23 DEF QmiClose
<1>24. CASE QmiQuitEvent
  BY <1>24 DEF QmiQuitEvent, SendEvent
<1>25. CASE QmiExit
  BY <1>25 DEF QmiExit, RecvNull, CondSignal
<1>26. CASE Unplug
  BY <1>26 DEF Unplug
<1>27. CASE Signal
  BY <1>27 DEF Signal
<1>28. CASE Terminated
  BY <1>28 DEF Terminated
<1>29. ASSUME NEW c \in Clients, NEW want \in BOOLEAN, Compose(c, want)
      PROVE  AnswerInv'
  BY <1>29 DEF Compose, TypeOK
<1>30. ASSUME NEW r \in pending, ModemReply(r)
      PROVE  AnswerInv'
  BY <1>30 DEF ModemReply
<1>31. ASSUME NEW r \in pending, ModemDrop(r)
      PROVE  AnswerInv'
  BY <1>31 DEF ModemDrop
<1>32. ASSUME NEW c \in Clients, NEW t \in IndTids, ModemIndicate(c, t)
      PROVE  AnswerInv'
  BY <1>32 DEF ModemIndicate
<1>33. CASE UNCHANGED vars
  BY <1>33
<1>34. QED
  BY <1>1, <1>2, <1>3, <1>4, <1>5, <1>6, <1>7, <1>8, <1>9, <1>10, <1>11,
     <1>12, <1>13, <1>14, <1>15, <1>16, <1>17, <1>18, <1>19, <1>20, <1>21, <1>22,
     <1>23, <1>24, <1>25, <1>26, <1>27, <1>28, <1>29, <1>30, <1>31, <1>32, <1>33
  DEF Next, MainStep, QmiStep, EnvStep

---------------------------------------------------------------------------
(* The theorems *)

\* The inductive invariant holds in every reachable state.
THEOREM Invariance == Spec => []IInv
<1>1. Init => IInv
  <2>1. Init => TypeOK
    BY ConstAssumption, ValueTypes DEF Init, TypeOK, MainPcs, QmiPcs
  <2>2. Init => ControlInv
    BY ConstAssumption
    DEF Init, ControlInv, LockInv, SlotInv, HeapInv, FdInv, InCall, NoReq
  <2>3. Init => FlightInv /\ AnswerInv
    BY DEF Init, FlightInv, AnswerInv, MsgInv, Numbered, NoMsg
  <2> QED
    BY <2>1, <2>2, <2>3 DEF IInv
<1>2. IInv /\ [Next]_vars => IInv'
  BY TypeStep, ControlStep, FlightStep, AnswerStep DEF IInv
<1>3. QED
  BY <1>1, <1>2, PTL DEF Spec

\* A reply handed to a caller of QmiThreadSendQMITimeout is the answer to its
\* own request, however late answers, timeouts, cancels and the reuse of
\* transaction ids fall, as long as no answer is as late as the ids are many.
THEOREM OwnResponse == Spec => []ResponseIsOwn
<1>1. IInv => ResponseIsOwn
  BY DEF IInv, AnswerInv, ResponseIsOwn
<1>2. QED
  BY <1>1, Invariance, PTL

\* The requests passed between the threads are never used or freed after
\* they were freed.
THEOREM NoUseAfterFree == Spec => []RequestAlive
<1>1. IInv => RequestAlive
  BY DEF IInv, ControlInv, HeapInv, RequestAlive
<1>2. QED
  BY <1>1, Invariance, PTL

\* No wakeup is lost: the request that the main thread waits for in
\* QmiThreadSendQMITimeout is registered, so that whoever takes it signals.
THEOREM NoLostWakeup == Spec => []WaiterIsRegistered
<1>1. IInv => WaiterIsRegistered
  BY DEF IInv, ControlInv, SlotInv, WaiterIsRegistered
<1>2. QED
  BY <1>1, Invariance, PTL

\* Nobody waits once the QMI thread has gone: the fd is closed before its last
\* cancel, and a sender that finds it closed does not wait.
THEOREM NobodyOrphaned == Spec => []NoOrphanWaiter
<1>1. IInv => NoOrphanWaiter
  BY DEF IInv, ControlInv, FdInv, NoOrphanWaiter
<1>2. QED
  BY <1>1, Invariance, PTL

---------------------------------------------------------------------------
(* The refinement of QmiCall *)

\* A step that begins a call, ends one, or is invisible to the caller.
Begins == ~ InCall /\ InCall' /\ reqNo' = reqNo + 1
Ends == InCall /\ ~ InCall' /\ reqNo' = reqNo
Invisible == (InCall <=> InCall') /\ reqNo' = reqNo /\ (InCall \/ got' = got)

\* Every step of the threads and the modem is one of them.
LEMMA CallShape == [Next]_vars => Begins \/ Ends \/ Invisible
<1> SUFFICES ASSUME [Next]_vars PROVE Begins \/ Ends \/ Invisible
  OBVIOUS
<1> USE DEF Begins, Ends, Invisible, InCall, vars, mainVars, tidVars, slotVars, qmiVars, modemVars, pipeVars
<1>1. CASE MainInit
  BY <1>1 DEF MainInit
<1>2. CASE SendLock
  BY <1>2 DEF SendLock
<1>3. CASE SendCheck
  BY <1>3 DEF SendCheck, SendReturn
<1>4. CASE SendWritten
  BY <1>4 DEF SendWritten
<1>5. CASE SendNotWritable
  BY <1>5 DEF SendNotWritable
<1>6. CASE SendFailed
  BY <1>6 DEF SendFailed, SendReturn
<1>7. CASE WaitTimeout
  BY <1>7 DEF WaitTimeout, WaitEnds
<1>8. CASE WaitSpurious
  BY <1>8 DEF WaitSpurious, WaitEnds
<1>9. CASE SendWake
  BY <1>9 DEF SendWake, SendReturn
<1>10. CASE MainReadEvent
  BY <1>10 DEF MainReadEvent
<1>11. CASE MainQuit
  BY <1>11 DEF MainQuit
<1>12. CASE MainJoin
  BY <1>12 DEF MainJoin
<1>13. CASE QmiOpen
  BY <1>13 DEF QmiOpen, SendEvent
<1>14. CASE QmiOpenFails
  BY <1>14 DEF QmiOpenFails, SendEvent
<1>15. CASE QmiHangup
  BY <1>15 DEF QmiHangup
<1>16. CASE QmiControl
  BY <1>16 DEF QmiControl
<1>17. CASE QmiRead
  BY <1>17 DEF QmiRead
<1>18. CASE RecvMatch
  BY <1>18 DEF RecvMatch, CondSignal
<1>19. CASE RecvIndication
  BY <1>19 DEF RecvIndication
<1>20. CASE RecvEvent
  BY <1>20 DEF RecvEvent, SendEvent
<1>21. CASE RecvIgnored
  BY <1>21 DEF RecvIgnored
<1>22. CASE QmiCancel
  BY <1>22 DEF QmiCancel, RecvNull, CondSignal
<1>23. CASE QmiClose
  BY <1>23 DEF QmiClose
<1>24. CASE QmiQuitEvent
  BY <1>24 DEF QmiQuitEvent, SendEvent
<1>25. CASE QmiExit
  BY <1>25 DEF QmiExit, RecvNull, CondSignal
<1>26. CASE Unplug
  BY <1>26 DEF Unplug
<1>27. CASE Signal
  BY <1>27 DEF Signal
<1>28. CASE Terminated
  BY <1>28 DEF Terminated
<1>29. ASSUME NEW c \in Clients, NEW want \in BOOLEAN, Compose(c, want)
      PROVE  (Begins \/ Ends \/ Invisible)
  BY <1>29 DEF Compose, NextTid
<1>30. ASSUME NEW r \in pending, ModemReply(r)
      PROVE  (Begins \/ Ends \/ Invisible)
  BY <1>30 DEF ModemReply
<1>31. ASSUME NEW r \in pending, ModemDrop(r)
      PROVE  (Begins \/ Ends \/ Invisible)
  BY <1>31 DEF ModemDrop
<1>32. ASSUME NEW c \in Clients, NEW t \in IndTids, ModemIndicate(c, t)
      PROVE  (Begins \/ Ends \/ Invisible)
  BY <1>32 DEF ModemIndicate
<1>33. CASE UNCHANGED vars
  BY <1>33
<1>34. QED
  BY <1>1, <1>2, <1>3, <1>4, <1>5, <1>6, <1>7, <1>8, <1>9, <1>10, <1>11,
     <1>12, <1>13, <1>14, <1>15, <1>16, <1>17, <1>18, <1>19, <1>20, <1>21, <1>22,
     <1>23, <1>24, <1>25, <1>26, <1>27, <1>28, <1>29, <1>30, <1>31, <1>32, <1>33
  DEF Next, MainStep, QmiStep, EnvStep

\* Every step begins a call, ends one with nothing but an answer of its
\* own, or is invisible to the caller.
LEMMA CallStep == IInv /\ IInv' /\ [Next]_vars => [Call!Next]_(Call!vars)
<1> SUFFICES ASSUME IInv, IInv', [Next]_vars PROVE [Call!Next]_(Call!vars)
  OBVIOUS
<1>1. CASE Begins
  BY <1>1 DEF Begins, Call!Next, Call!Begin, Call!Nothing
<1>2. CASE Ends
  <2>1. got'.kind \in {"none", "reply", "ind"} /\ mpc' # "lock"
    BY <1>2 DEF IInv, TypeOK, Message, Ends, InCall
  <2>2. got'.kind = "reply" => got'.n = reqNo
    BY <1>2, <2>1 DEF IInv, AnswerInv, Ends
  <2>3. got'.kind # "reply" => got'.n = 0
    BY DEF IInv, AnswerInv, Numbered
  <2> QED
    BY <1>2, <2>1, <2>2, <2>3
    DEF Ends, Call!Next, Call!End, Call!Nothing, Call!Unsolicited, Call!AnswerTo
<1>3. CASE Invisible
  BY <1>3 DEF Invisible, Call!vars
<1>4. QED
  BY <1>1, <1>2, <1>3, CallShape

\* QmiThreadSendQMITimeout does nothing its caller's view, QmiCall, does not
\* allow.
THEOREM CallRefinement == Spec => Call!SafeSpec
<1>1. Init => Call!Init
  BY DEF Init, Call!Init, Call!Nothing, InCall, NoMsg
<1>2. QED
  BY <1>1, CallStep, Invariance, PTL DEF Spec, Call!SafeSpec
=============================================================================
