-------------------------- MODULE QmiTransaction --------------------------
(***************************************************************************)
(* The QMI request/response layer of quectel-CM (QMIThread.c, QmiWwanCM.c) *)
(* at the granularity of its mutex, its condition variable and its two     *)
(* socket pairs.                                                           *)
(*                                                                         *)
(* The main thread composes a request, registers it in s_pRequest, writes  *)
(* it to the modem and waits on s_commandcond with a timeout.  The QMI     *)
(* thread reads the modem and the control socket, hands a matching message *)
(* to the waiting request, turns indications into events for the main      *)
(* thread, and cancels a pending request on a signal or when the device    *)
(* goes away.  The modem answers late, out of step, or not at all.         *)
(***************************************************************************)
EXTENDS Integers, Sequences, FiniteSets

CONSTANTS
  Clients,      \* (QMIType, ClientId) pairs that requests are sent from
  Ctl,          \* the one of QMUX_TYPE_CTL, with its own transaction ids
  MaxCtlTid,    \* 0xFF: the last id of GetQCTLTransactionId
  MaxMuxTid,    \* 0xFFFF: the last id of GetQMUXTransactionId
  IndTids,      \* transaction ids the modem puts on indications
  MaxLag,       \* an answer is less than this many requests late
  QueueCap,     \* events the socket pair to the main thread can hold
  MaxReq,       \* bound: requests composed
  MaxInd,       \* bound: indications sent
  MaxSig        \* bound: SIGTERM/SIGHUP/SIGINT delivered

ASSUME ConstAssumption ==
  /\ Ctl \in Clients
  /\ MaxCtlTid \in Nat /\ MaxMuxTid \in Nat /\ MaxLag \in Nat
  /\ 0 < MaxLag /\ MaxLag <= MaxCtlTid /\ MaxLag <= MaxMuxTid
  /\ IndTids \subseteq Nat
  /\ QueueCap \in Nat \ {0}
  /\ MaxReq \in Nat /\ MaxInd \in Nat /\ MaxSig \in Nat

VARIABLES
  mpc,          \* where the main thread is
  req,          \* the request the main thread is busy with (its pRequest)
  wake,         \* why pthread_cond_timedwait returned
  got,          \* *ppResponse of the last call, NoMsg for NULL
  reqNo,        \* requests composed so far (numbers them)
  ctlTid,       \* TransactionId of GetQCTLTransactionId
  muxTid,       \* TransactionId of GetQMUXTransactionId
  mutex,        \* holder of s_commandmutex
  s_pRequest,   \* the registered request, NoReq for NULL
  s_pResponse,  \* the stored response, NoMsg for NULL
  heap,         \* requests malloc'ed and not freed
  qpc,          \* where the QMI thread is
  hand,         \* the message the QMI thread has read and not yet handled
  cdc_wdm_fd,   \* "open", or "closed" for -1
  plugged,      \* the device is there
  pending,      \* requests the modem has received and may still answer
  wire,         \* messages the modem has sent and the QMI thread not read
  ctrl,         \* qmidevice_control_fd, main thread to QMI thread
  evq,          \* qmidevice_control_fd, QMI thread to main thread
  inds,         \* indications sent so far
  sigs          \* signals delivered so far

mainVars  == <<mpc, req, wake, got>>
tidVars   == <<reqNo, ctlTid, muxTid>>
slotVars  == <<mutex, s_pRequest, s_pResponse, heap>>
qmiVars   == <<qpc, hand, cdc_wdm_fd>>
modemVars == <<plugged, pending, wire, inds>>
pipeVars  == <<ctrl, evq, sigs>>
vars == <<mainVars, tidVars, slotVars, qmiVars, modemVars, pipeVars>>

---------------------------------------------------------------------------
(* Requests and messages *)

\* No request and no message: the NULL pointers.  n numbers requests from 1.
NoReq == [n |-> 0, client |-> Ctl, tid |-> 0, want |-> FALSE]
NoMsg == [kind |-> "none", n |-> 0, client |-> Ctl, tid |-> 0]

\* want: the caller passes a ppResponse.
Request == [n : Nat, client : Clients, tid : Nat, want : BOOLEAN]
Message == [kind : {"none", "reply", "ind"}, n : Nat, client : Clients, tid : Nat]

Reply(r) == [kind |-> "reply", n |-> r.n, client |-> r.client, tid |-> r.tid]
Ind(c, t) == [kind |-> "ind", n |-> 0, client |-> c, tid |-> t]

\* Mutant: the id is never wrapped.
NextTidNoWrap(t, max) == t + 1

\* ++TransactionId > max ? 1 : TransactionId
NextTid(t, max) == IF t + 1 > max THEN 1 ELSE t + 1

\* Mutant: the transaction id is not compared.
IsResponseNoTid(r, m) == r.client = m.client

\* The comparison of QMIType, ClientId and TransactionId.  The flag that
\* tells a response from an indication is not looked at.
is_response(r, m) == r.client = m.client /\ r.tid = m.tid

\* An answer reaches is_response before MaxLag further requests have been
\* composed, or never.  Each of them takes the main thread a round trip, a
\* timeout of a second or more, or a failed write.
InTime(n) == n = 0 \/ reqNo + 1 < n + MaxLag

\* The answers that are still on their way.
Underway == {r.n : r \in pending} \cup {wire[i].n : i \in DOMAIN wire} \cup {hand.n}

---------------------------------------------------------------------------
(* The main thread: QmiThreadSendQMITimeout and its caller *)

\* main reads RIL_INDICATE_DEVICE_CONNECTED, or anything else and returns.
MainInit ==
  /\ mpc = "init" /\ evq # <<>>
  /\ mpc' = IF Head(evq) = "CONNECTED" THEN "idle" ELSE "done"
  /\ evq' = Tail(evq)
  /\ UNCHANGED <<req, wake, got, tidVars, slotVars, qmiVars, modemVars, ctrl, sigs>>

\* ComposeQCTLMsg / ComposeQMUXMsg: draw a transaction id and allocate.
Compose(c, want) ==
  /\ mpc = "idle" /\ reqNo < MaxReq
  /\ \A n \in Underway : InTime(n)
  /\ ctlTid' = IF c = Ctl THEN NextTid(ctlTid, MaxCtlTid) ELSE ctlTid
  /\ muxTid' = IF c = Ctl THEN muxTid ELSE NextTid(muxTid, MaxMuxTid)
  /\ reqNo' = reqNo + 1
  /\ req' = [n |-> reqNo', client |-> c, want |-> want,
             tid |-> IF c = Ctl THEN ctlTid' ELSE muxTid']
  /\ heap' = heap \cup {reqNo'}
  /\ mpc' = "lock"
  /\ UNCHANGED <<wake, got, mutex, s_pRequest, s_pResponse, qmiVars, modemVars, pipeVars>>

\* pthread_mutex_lock; *ppResponse = NULL; register the request.
SendLock ==
  /\ mpc = "lock" /\ mutex = "free"
  /\ mutex' = "main"
  /\ got' = NoMsg
  /\ s_pRequest' = req
  /\ s_pResponse' = NoMsg
  /\ mpc' = "check"
  /\ UNCHANGED <<req, wake, tidVars, heap, qmiVars, modemVars, pipeVars>>

\* The call ends: pthread_mutex_unlock and return.
SendReturn == mpc' = "idle" /\ req' = NoReq /\ mutex' = "free"

\* QmiWwanSendQMI: -ENODEV when the fd is closed, else on to poll and write.
SendCheck ==
  /\ mpc = "check"
  /\ IF cdc_wdm_fd = "closed"
       THEN SendReturn
       ELSE mpc' = "write" /\ UNCHANGED <<req, mutex>>
  /\ UNCHANGED <<wake, got, tidVars, s_pRequest, s_pResponse, heap, qmiVars, modemVars, pipeVars>>

\* Written; pthread_cond_timedwait releases the mutex as it starts to wait.
SendWritten ==
  /\ mpc = "write" /\ cdc_wdm_fd = "open" /\ plugged
  /\ pending' = pending \cup {req}
  /\ mpc' = "wait" /\ mutex' = "free"
  /\ UNCHANGED <<req, wake, got, tidVars, s_pRequest, s_pResponse, heap, qmiVars,
                 plugged, wire, inds, pipeVars>>

\* poll for POLLOUT timed out: it returns 0, which is taken for success.
SendNotWritable ==
  /\ mpc = "write"
  /\ mpc' = "wait" /\ mutex' = "free"
  /\ UNCHANGED <<req, wake, got, tidVars, s_pRequest, s_pResponse, heap, qmiVars,
                 modemVars, pipeVars>>

\* Mutants: the request is freed while it stays registered; the mutex is
\* not released.
SendFailedFrees ==
  /\ mpc = "write"
  /\ SendReturn
  /\ heap' = heap \ {req.n}
  /\ UNCHANGED <<wake, got, tidVars, s_pRequest, s_pResponse, qmiVars, modemVars, pipeVars>>

SendFailedKeepsLock ==
  /\ mpc = "write"
  /\ mpc' = "idle" /\ req' = NoReq
  /\ UNCHANGED <<wake, got, tidVars, slotVars, qmiVars, modemVars, pipeVars>>

\* poll reports an error, or write fails or is short.
SendFailed ==
  /\ mpc = "write"
  /\ SendReturn
  /\ UNCHANGED <<wake, got, tidVars, s_pRequest, s_pResponse, heap, qmiVars, modemVars, pipeVars>>

\* pthread_cond_timedwait gives up, or returns without a signal, which POSIX
\* allows; either way it must first get the mutex back.
WaitEnds(why) ==
  /\ mpc = "wait"
  /\ mpc' = "wake" /\ wake' = why
  /\ UNCHANGED <<req, got, tidVars, slotVars, qmiVars, modemVars, pipeVars>>

WaitTimeout == WaitEnds("timeout")
WaitSpurious == WaitEnds("spurious")

\* With the mutex back: hand s_pResponse to the caller, or free it when the
\* caller does not want it, or report the timeout; unlock.
SendWake ==
  /\ mpc = "wake" /\ mutex = "free"
  /\ got' = IF wake # "timeout" /\ req.want THEN s_pResponse ELSE got
  /\ s_pResponse' = IF wake # "timeout" /\ ~ req.want THEN NoMsg ELSE s_pResponse
  /\ wake' = "none"
  /\ SendReturn
  /\ UNCHANGED <<tidVars, s_pRequest, heap, qmiVars, modemVars, pipeVars>>

\* The main loop reads an event; DISCONNECTED makes it leave and join.
MainReadEvent ==
  /\ mpc = "idle" /\ evq # <<>>
  /\ evq' = Tail(evq)
  /\ mpc' = IF Head(evq) = "DISCONNECTED" THEN "join" ELSE "idle"
  /\ UNCHANGED <<req, wake, got, tidVars, slotVars, qmiVars, modemVars, ctrl, sigs>>

\* The signal branch of the main loop ends with RIL_REQUEST_QUIT and joins.
MainQuit ==
  /\ mpc = "idle" /\ sigs > 0
  /\ ctrl' = Append(ctrl, "QUIT")
  /\ mpc' = "join"
  /\ UNCHANGED <<req, wake, got, tidVars, slotVars, qmiVars, modemVars, evq, sigs>>

\* pthread_join returns.
MainJoin ==
  /\ mpc = "join" /\ qpc = "exited"
  /\ mpc' = "done"
  /\ UNCHANGED <<req, wake, got, tidVars, slotVars, qmiVars, modemVars, pipeVars>>

---------------------------------------------------------------------------
(* The QMI thread: QmiWwanThread and QmiThreadRecvQMI *)

\* qmidevice_send_event_to_main: a blocking write to the socket pair.
SendEvent(e) ==
  /\ Len(evq) < QueueCap
  /\ evq' = Append(evq, e)

\* open succeeds and CONNECTED is announced, or fails and the thread exits.
QmiOpen ==
  /\ qpc = "start" /\ plugged
  /\ cdc_wdm_fd' = "open"
  /\ SendEvent("CONNECTED")
  /\ qpc' = "poll"
  /\ UNCHANGED <<mainVars, tidVars, slotVars, hand, modemVars, ctrl, sigs>>

QmiOpenFails ==
  /\ qpc = "start"
  /\ SendEvent("DISCONNECTED")
  /\ qpc' = "exited"
  /\ UNCHANGED <<mainVars, tidVars, slotVars, hand, cdc_wdm_fd, modemVars, ctrl, sigs>>

\* poll reports POLLHUP or POLLNVAL.
QmiHangup ==
  /\ qpc = "poll" /\ ~ plugged
  /\ qpc' = "close"
  /\ UNCHANGED <<mainVars, tidVars, slotVars, hand, cdc_wdm_fd, modemVars, pipeVars>>

\* A control event: RIL_REQUEST_QUIT, or a signal number.
QmiControl ==
  /\ qpc = "poll" /\ ctrl # <<>>
  /\ ctrl' = Tail(ctrl)
  /\ qpc' = IF Head(ctrl) = "QUIT" THEN "close" ELSE "cancel"
  /\ UNCHANGED <<mainVars, tidVars, slotVars, hand, cdc_wdm_fd, modemVars, evq, sigs>>

\* A message is read from the modem.
QmiRead ==
  /\ qpc = "poll" /\ plugged /\ wire # <<>>
  /\ hand' = Head(wire)
  /\ wire' = Tail(wire)
  /\ qpc' = "recv"
  /\ UNCHANGED <<mainVars, tidVars, slotVars, cdc_wdm_fd, plugged, pending, inds, pipeVars>>

\* pthread_cond_signal(&s_commandcond): wakes the main thread if it waits.
CondSignal ==
  IF mpc = "wait"
    THEN mpc' = "wake" /\ wake' = "signal" /\ UNCHANGED <<req, got>>
    ELSE UNCHANGED mainVars

\* QmiThreadRecvQMI of a message that matches the registered request: free
\* the request, store the response (NULL if malloc fails), signal.
RecvMatch ==
  /\ qpc = "recv" /\ mutex = "free"
  /\ s_pRequest # NoReq /\ is_response(s_pRequest, hand)
  /\ heap' = heap \ {s_pRequest.n}
  /\ s_pRequest' = NoReq
  /\ s_pResponse' \in {hand, NoMsg}
  /\ CondSignal
  /\ hand' = NoMsg
  /\ qpc' = "poll"
  /\ UNCHANGED <<tidVars, mutex, cdc_wdm_fd, modemVars, pipeVars>>

\* ... of an indication: the event is written with the mutex held.
RecvIndication ==
  /\ qpc = "recv" /\ mutex = "free"
  /\ ~ (s_pRequest # NoReq /\ is_response(s_pRequest, hand))
  /\ hand.kind = "ind"
  /\ mutex' = "qmi"
  /\ qpc' = "event"
  /\ UNCHANGED <<mainVars, tidVars, s_pRequest, s_pResponse, heap, hand, cdc_wdm_fd,
                 modemVars, pipeVars>>

RecvEvent ==
  /\ qpc = "event"
  /\ SendEvent("IND")
  /\ mutex' = "free"
  /\ hand' = NoMsg
  /\ qpc' = "poll"
  /\ UNCHANGED <<mainVars, tidVars, s_pRequest, s_pResponse, heap, cdc_wdm_fd,
                 modemVars, ctrl, sigs>>

\* ... of anything else: "nobody care this qmi msg!!"
RecvIgnored ==
  /\ qpc = "recv" /\ mutex = "free"
  /\ ~ (s_pRequest # NoReq /\ is_response(s_pRequest, hand))
  /\ hand.kind # "ind"
  /\ hand' = NoMsg
  /\ qpc' = "poll"
  /\ UNCHANGED <<mainVars, tidVars, slotVars, cdc_wdm_fd, modemVars, pipeVars>>

\* Mutant: the request is cancelled and its waiter not signalled.
RecvNullNoSignal ==
  /\ mutex = "free"
  /\ heap' = heap \ {s_pRequest.n}
  /\ s_pRequest' = NoReq
  /\ s_pResponse' = NoMsg
  /\ UNCHANGED <<mainVars, tidVars, mutex, hand, cdc_wdm_fd, modemVars, pipeVars>>

\* QmiThreadRecvQMI(NULL): cancel the registered request, if there is one.
RecvNull ==
  /\ mutex = "free"
  /\ IF s_pRequest # NoReq
       THEN /\ heap' = heap \ {s_pRequest.n}
            /\ s_pRequest' = NoReq
            /\ s_pResponse' = NoMsg
            /\ CondSignal
       ELSE UNCHANGED <<s_pRequest, s_pResponse, heap, mainVars>>
  /\ UNCHANGED <<tidVars, mutex, hand, cdc_wdm_fd, modemVars, pipeVars>>

QmiCancel == qpc = "cancel" /\ RecvNull /\ qpc' = "poll"

\* __QmiWwanThread_quit: close the fd, announce it, cancel, exit.
QmiClose ==
  /\ qpc = "close"
  /\ cdc_wdm_fd' = "closed"
  /\ qpc' = "quitEvent"
  /\ UNCHANGED <<mainVars, tidVars, slotVars, hand, modemVars, pipeVars>>

\* Mutant: the end of the thread is not announced.
QmiQuitSilently ==
  /\ qpc = "quitEvent"
  /\ qpc' = "quitCancel"
  /\ UNCHANGED <<mainVars, tidVars, slotVars, hand, cdc_wdm_fd, modemVars, pipeVars>>

QmiQuitEvent ==
  /\ qpc = "quitEvent"
  /\ SendEvent("DISCONNECTED")
  /\ qpc' = "quitCancel"
  /\ UNCHANGED <<mainVars, tidVars, slotVars, hand, cdc_wdm_fd, modemVars, ctrl, sigs>>

\* Mutant: the thread ends without the last QmiThreadRecvQMI(NULL).
QmiExitNoCancel ==
  /\ qpc = "quitCancel"
  /\ qpc' = "exited"
  /\ UNCHANGED <<mainVars, tidVars, slotVars, hand, cdc_wdm_fd, modemVars, pipeVars>>

QmiExit == qpc = "quitCancel" /\ RecvNull /\ qpc' = "exited"

---------------------------------------------------------------------------
(* The environment: the modem and the signals *)

\* The modem answers a request it has received, in any order.
ModemReply(r) ==
  /\ plugged /\ r \in pending
  /\ pending' = pending \ {r}
  /\ wire' = Append(wire, Reply(r))
  /\ UNCHANGED <<mainVars, tidVars, slotVars, qmiVars, plugged, inds, pipeVars>>

\* ... or never will.
ModemDrop(r) ==
  /\ r \in pending
  /\ pending' = pending \ {r}
  /\ UNCHANGED <<mainVars, tidVars, slotVars, qmiVars, plugged, wire, inds, pipeVars>>

ModemIndicate(c, t) ==
  /\ plugged /\ inds < MaxInd /\ c # Ctl
  /\ inds' = inds + 1
  /\ wire' = Append(wire, Ind(c, t))
  /\ UNCHANGED <<mainVars, tidVars, slotVars, qmiVars, plugged, pending, pipeVars>>

\* The device is unplugged or resets: what it had not delivered is lost.
Unplug ==
  /\ plugged
  /\ plugged' = FALSE
  /\ pending' = {} /\ wire' = <<>>
  /\ UNCHANGED <<mainVars, tidVars, slotVars, qmiVars, inds, pipeVars>>

\* ql_sigaction: the signal goes to the main loop and to the QMI thread.
Signal ==
  /\ sigs < MaxSig /\ mpc # "done"
  /\ sigs' = sigs + 1
  /\ ctrl' = Append(ctrl, "SIG")
  /\ UNCHANGED <<mainVars, tidVars, slotVars, qmiVars, modemVars, evq>>

---------------------------------------------------------------------------
Init ==
  /\ mpc = "init" /\ req = NoReq /\ wake = "none" /\ got = NoMsg
  /\ reqNo = 0 /\ ctlTid = 0 /\ muxTid = 0
  /\ mutex = "free" /\ s_pRequest = NoReq /\ s_pResponse = NoMsg /\ heap = {}
  /\ qpc = "start" /\ hand = NoMsg /\ cdc_wdm_fd = "closed"
  /\ plugged = TRUE /\ pending = {} /\ wire = <<>> /\ inds = 0
  /\ ctrl = <<>> /\ evq = <<>> /\ sigs = 0

MainStep ==
  \/ MainInit \/ SendLock \/ SendCheck \/ SendWritten \/ SendNotWritable
  \/ SendFailed \/ WaitTimeout \/ WaitSpurious \/ SendWake
  \/ MainReadEvent \/ MainQuit \/ MainJoin
  \/ \E c \in Clients, want \in BOOLEAN : Compose(c, want)

QmiStep ==
  \/ QmiOpen \/ QmiOpenFails \/ QmiHangup \/ QmiControl \/ QmiRead
  \/ RecvMatch \/ RecvIndication \/ RecvEvent \/ RecvIgnored \/ QmiCancel
  \/ QmiClose \/ QmiQuitEvent \/ QmiExit

EnvStep ==
  \/ \E r \in pending : ModemReply(r) \/ ModemDrop(r)
  \/ \E c \in Clients, t \in IndTids : ModemIndicate(c, t)
  \/ Unplug \/ Signal

\* The process has ended.
Terminated == mpc = "done" /\ UNCHANGED vars

Next == MainStep \/ QmiStep \/ EnvStep \/ Terminated

Spec == Init /\ [][Next]_vars

\* The threads run.  A lock, and each descriptor of a poll set, that is
\* ready again and again is taken in the end: strong fairness.  The modem
\* and the user owe nothing.
Fairness ==
  /\ WF_vars(\/ MainInit \/ SendCheck \/ SendWritten \/ SendNotWritable
             \/ SendFailed \/ WaitTimeout \/ MainJoin)
  /\ SF_vars(SendLock \/ SendWake)
  /\ SF_vars(MainReadEvent)
  /\ WF_vars(\/ QmiOpen \/ QmiOpenFails \/ QmiHangup \/ QmiRead \/ RecvEvent
             \/ QmiClose \/ QmiQuitEvent)
  /\ SF_vars(RecvMatch \/ RecvIndication \/ RecvIgnored \/ QmiCancel \/ QmiExit)
  /\ SF_vars(QmiControl)

FairSpec == Spec /\ Fairness

---------------------------------------------------------------------------
(* Properties *)

MainPcs == {"init", "idle", "lock", "check", "write", "wait", "wake", "join", "done"}
QmiPcs == {"start", "poll", "recv", "event", "cancel", "close", "quitEvent",
           "quitCancel", "exited"}

\* The main thread is inside QmiThreadSendQMITimeout.
InCall == mpc \in {"lock", "check", "write", "wait", "wake"}

\* Types of the state of the two threads, their shared slot and their pipes.
TypeOK ==
  /\ mpc \in MainPcs /\ qpc \in QmiPcs
  /\ req \in Request /\ s_pRequest \in Request
  /\ got \in Message /\ s_pResponse \in Message /\ hand \in Message
  /\ wake \in {"none", "signal", "timeout", "spurious"}
  /\ reqNo \in Nat /\ ctlTid \in 0 .. MaxCtlTid /\ muxTid \in 0 .. MaxMuxTid
  /\ mutex \in {"free", "main", "qmi"}
  /\ heap \subseteq Nat
  /\ cdc_wdm_fd \in {"open", "closed"} /\ plugged \in BOOLEAN
  /\ pending \subseteq Request /\ wire \in Seq(Message)
  /\ ctrl \in Seq({"QUIT", "SIG"})
  /\ evq \in Seq({"CONNECTED", "DISCONNECTED", "IND"})
  /\ inds \in Nat /\ sigs \in Nat

\* A reply that QmiThreadSendQMITimeout hands to its caller answers the very
\* request of that call: never an earlier one that timed out, whatever the
\* order in which late answers, timeouts and cancels arrive and although
\* transaction ids are reused.
ResponseIsOwn ==
  mpc # "lock" /\ got.kind = "reply" => got.n = reqNo

\* No request is used or freed after it was freed: the registered request
\* is allocated, and so is the one the main thread is about to write.
RequestAlive ==
  /\ s_pRequest # NoReq => s_pRequest.n \in heap
  /\ mpc \in {"lock", "check", "write"} => req.n \in heap

\* A request is waited for only while it is registered: whoever takes it out
\* of s_pRequest signals, so that no wakeup is lost.
WaiterIsRegistered == mpc = "wait" => s_pRequest = req

\* Once the QMI thread is gone nobody waits for it: the last
\* QmiThreadRecvQMI(NULL) of QmiWwanThread releases the main thread, and the
\* closed fd keeps the main thread from waiting again.
NoOrphanWaiter == qpc = "exited" => mpc \notin {"write", "wait"}

\* QmiThreadSendQMITimeout implements QmiCall: every call returns, and with
\* nothing but its own answer, a message that carried its transaction id, or
\* nothing at all.
Call == INSTANCE QmiCall WITH
  call <- IF InCall THEN "in" ELSE "out",
  number <- reqNo,
  result <- IF InCall THEN [kind |-> "none", n |-> 0]
                      ELSE [kind |-> got.kind, n |-> got.n]

ImplementsCall == Call!Spec

\* Removal of the device ends the process, through the hangup, the
\* DISCONNECTED event and the join.
UnplugEnds == ~ plugged ~> mpc = "done"

\* "main may be wating qmi response" (main.c:315): a signal that finds the main
\* thread in a call gets it out of the call.
SignalReleases == (InCall /\ sigs > 0) ~> ~ InCall
=============================================================================
