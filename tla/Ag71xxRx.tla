------------------------------ MODULE Ag71xxRx ------------------------------
(***************************************************************************)
(* Reception in the Ethernet driver of the router's MAC (ag71xx_main.c):   *)
(* the ring of DMA descriptors, the interrupt, the NAPI poll with refill,  *)
(* failed allocations and the timer that tries again, overflow, link       *)
(* changes and the restart.  The SoC has one core: only the device acts in *)
(* between the steps of a poll.  curr and dirty wrap: modulo Wrap.         *)
(***************************************************************************)
EXTENDS Integers, FiniteSets

CONSTANTS
  Size,         \* ring->size
  Wrap,         \* 2^32 in the code
  Limit,        \* AG71XX_NAPI_WEIGHT
  LinkChanges,  \* link changes and restarts happen
  MaxFail       \* bound: allocations that fail

ConstAssumption ==
  /\ Size \in Nat \ {0} /\ Wrap \in Nat /\ Wrap > Size
  /\ Limit \in Nat \ {0} /\ LinkChanges \in BOOLEAN /\ MaxFail \in Nat

VARIABLES
  full,         \* the device has filled the descriptor: DESC_EMPTY is off
  buf,          \* ring->buf[i].rx_buf is set
  curr, dirty,
  poll,         \* idle, scheduled, or where ag71xx_poll is
  done,         \* rx_done
  oom,          \* oom_timer is pending
  fails,        \* counter of the bound
  devp, rxe,    \* device: next descriptor, engine on
  pr, of,       \* device: RX_STATUS, packets received and overflow
  ie            \* device: interrupt enabled

ring == <<full, buf, curr, dirty>>
dev == <<devp, rxe, pr, of, ie>>
vars == <<ring, poll, done, oom, fails, dev>>

Slots == 0 .. Size - 1
Slot(q) == (q % Wrap) % Size
Used == (curr - dirty) % Wrap   \* processed and not refilled

Init ==         \* after ag71xx_open and the first link up
  /\ full = [i \in Slots |-> FALSE] /\ buf = [i \in Slots |-> TRUE]
  /\ curr = 0 /\ dirty = 0 /\ poll = "idle" /\ done = 0 /\ oom = FALSE /\ fails = 0
  /\ devp = 0 /\ rxe = TRUE /\ pr = 0 /\ of = FALSE /\ ie = TRUE

---------------------------------------------------------------------------
(* The device (external) *)

DeviceReceives ==
  /\ rxe /\ ~full[devp]
  /\ full' = [full EXCEPT ![devp] = TRUE]
  /\ devp' = (devp + 1) % Size
  /\ pr' = pr + 1
  /\ UNCHANGED <<buf, curr, dirty, poll, done, oom, fails, rxe, of, ie>>

\* A packet arrives and the descriptor is not empty: reception stops.
DeviceOverflows ==
  /\ rxe /\ full[devp]
  /\ rxe' = FALSE /\ of' = TRUE
  /\ UNCHANGED <<ring, poll, done, oom, fails, devp, pr, ie>>

\* While reception is stopped packets are lost.
DeviceLoses == ~rxe /\ UNCHANGED vars

---------------------------------------------------------------------------
(* The driver *)

ag71xx_interrupt ==
  /\ ie /\ (pr > 0 \/ of)
  /\ ie' = FALSE
  /\ poll' = IF poll = "idle" THEN "scheduled" ELSE poll
  /\ UNCHANGED <<ring, done, oom, fails, devp, rxe, pr, of>>

ag71xx_oom_timer_handler ==
  /\ oom /\ poll \in {"idle", "scheduled"}
  /\ oom' = FALSE /\ poll' = "scheduled"
  /\ UNCHANGED <<ring, done, fails, dev>>

PollStart ==
  /\ poll = "scheduled" /\ poll' = "rx" /\ done' = 0
  /\ UNCHANGED <<ring, oom, fails, dev>>

\* One round of ag71xx_rx_packets: the packet goes to the stack, or build_skb
\* fails and it is dropped.
RxPacket ==
  /\ poll = "rx" /\ done < Limit /\ full[Slot(curr)] /\ Used # Size
  /\ pr' = IF pr > 0 THEN pr - 1 ELSE 0
  /\ buf' = [buf EXCEPT ![Slot(curr)] = FALSE]
  /\ done' = done + 1 /\ curr' = (curr + 1) % Wrap
  /\ UNCHANGED <<full, dirty, poll, oom, fails, devp, rxe, of, ie>>

\* ag71xx_assert(0): BUG().
RxAssert ==
  /\ poll = "rx" /\ done < Limit /\ full[Slot(curr)] /\ Used = Size
  /\ poll' = "bug"
  /\ UNCHANGED <<ring, done, oom, fails, dev>>

RxEnd ==
  /\ poll = "rx" /\ (done = Limit \/ ~full[Slot(curr)])
  /\ poll' = "refill"
  /\ UNCHANGED <<ring, done, oom, fails, dev>>

\* Mutant: the descriptor is given back although there is no buffer.
RefillAnyway ==
  /\ poll = "refill" /\ Used > 0
  /\ \E ok \in BOOLEAN :
       /\ ~ok => fails < MaxFail
       /\ fails' = IF ok THEN fails ELSE fails + 1
       /\ buf' = [buf EXCEPT ![Slot(dirty)] = ok]
  /\ full' = [full EXCEPT ![Slot(dirty)] = FALSE]
  /\ dirty' = (dirty + 1) % Wrap
  /\ UNCHANGED <<curr, poll, done, oom, dev>>

\* One round of ag71xx_ring_rx_refill.
ag71xx_ring_rx_refill ==
  /\ poll = "refill" /\ Used > 0
  /\ buf' = [buf EXCEPT ![Slot(dirty)] = TRUE]
  /\ full' = [full EXCEPT ![Slot(dirty)] = FALSE]
  /\ dirty' = (dirty + 1) % Wrap
  /\ UNCHANGED <<curr, poll, done, oom, fails, dev>>

\* Mutant: a failed allocation waits for the next interrupt.
RefillFailsQuietly ==
  /\ poll = "refill" /\ Used > 0 /\ ~buf[Slot(dirty)]
  /\ fails < MaxFail /\ fails' = fails + 1
  /\ poll' = "idle"
  /\ UNCHANGED <<ring, done, oom, dev>>

\* ag71xx_fill_rx_buf fails.  In ag71xx_poll the buffer at dirty is missing:
\* the timer is started, interrupts stay off and polling ends.
RefillFails ==
  /\ poll = "refill" /\ Used > 0 /\ ~buf[Slot(dirty)]
  /\ fails < MaxFail /\ fails' = fails + 1
  /\ oom' = TRUE /\ poll' = "idle"
  /\ UNCHANGED <<ring, done, dev>>

\* RX_STATUS is read: after an overflow reception is started again; more
\* packets or a full quota mean to stay in polling mode.
PollStatus ==
  /\ poll = "refill" /\ Used = 0
  /\ of' = FALSE /\ rxe' = (rxe \/ of)
  /\ poll' = IF done < Limit /\ pr = 0 THEN "complete" ELSE "scheduled"
  /\ UNCHANGED <<ring, done, oom, fails, devp, pr, ie>>

\* napi_complete and ag71xx_int_enable.
PollComplete ==
  /\ poll = "complete" /\ poll' = "idle" /\ ie' = TRUE
  /\ UNCHANGED <<ring, done, oom, fails, devp, rxe, pr, of>>

---------------------------------------------------------------------------
(* Link changes and restart *)

Outside == poll \in {"idle", "scheduled"}

LinkDown ==     \* ag71xx_hw_stop
  /\ LinkChanges /\ Outside
  /\ ie' = FALSE /\ rxe' = FALSE
  /\ UNCHANGED <<ring, poll, done, oom, fails, devp, pr, of>>

\* ag71xx_fast_reset: RX_STATUS is cleared, RX_DESC is read before and written
\* back; ag71xx_hw_start.
LinkUp ==
  /\ LinkChanges /\ Outside
  /\ pr' = 0 /\ of' = FALSE /\ ie' = TRUE /\ rxe' = TRUE
  /\ UNCHANGED <<ring, poll, done, oom, fails, devp>>

\* ag71xx_restart_work_func: napi_disable and del_timer_sync, a new ring, and
\* ag71xx_hw_start.
ag71xx_restart_work_func ==
  /\ LinkChanges /\ poll = "idle"
  /\ full' = [i \in Slots |-> FALSE] /\ buf' = [i \in Slots |-> TRUE]
  /\ curr' = 0 /\ dirty' = 0 /\ oom' = FALSE
  /\ devp' = 0 /\ rxe' = TRUE /\ pr' = 0 /\ of' = FALSE /\ ie' = TRUE
  /\ UNCHANGED <<poll, done, fails>>

PollStep == \/ PollStart \/ RxPacket \/ RxAssert \/ RxEnd \/ ag71xx_ring_rx_refill \/ RefillFails
            \/ PollStatus \/ PollComplete

Next == \/ DeviceReceives \/ DeviceOverflows \/ DeviceLoses
        \/ ag71xx_interrupt \/ ag71xx_oom_timer_handler \/ PollStep
        \/ LinkDown \/ LinkUp \/ ag71xx_restart_work_func

Spec == Init /\ [][Next]_vars

\* Interrupts are taken, softirqs and timers run.
FairSpec == Spec /\ WF_vars(ag71xx_interrupt) /\ WF_vars(ag71xx_oom_timer_handler) /\ WF_vars(PollStep)

---------------------------------------------------------------------------
(* Properties *)

\* Every variable has its type and the counters are not further apart than
\* the ring is long.
TypeOK ==
  /\ full \in [Slots -> BOOLEAN] /\ buf \in [Slots -> BOOLEAN]
  /\ curr \in 0 .. Wrap - 1 /\ dirty \in 0 .. Wrap - 1 /\ Used <= Size
  /\ poll \in {"idle", "scheduled", "rx", "refill", "complete", "bug"}
  /\ done \in 0 .. Limit /\ devp \in Slots /\ pr \in 0 .. Size

\* The device never writes through a descriptor without a buffer, and a packet
\* that waits for the driver has one.
DmaHasBuffer ==
  \A i \in Slots : buf[i] <=> ~\E k \in 0 .. Used - 1 : i = Slot(dirty + k)

\* The driver and the device stay in step: the descriptors that are not empty
\* are those from dirty on up to the one the device fills next.
InStep ==
  \E k \in 0 .. Size :
    /\ devp = Slot(curr + k)
    /\ Used + k <= Size
    /\ \A i \in Slots : full[i] <=> \E j \in 0 .. Used + k - 1 : i = Slot(dirty + j)

\* The assertion of ag71xx_rx_packets.
NeverAsserts == poll # "bug"

\* Every packet that was received is processed and its descriptor refilled.
PacketsDelivered == \A i \in Slots : full[i] ~> ~full[i]

\* After an overflow reception is started again.
ReceptionResumes == ~rxe ~> rxe

\* The ring as a whole: the driver and the device agree on the next descriptor, also after
\* a link change (ag71xx_fast_reset puts RX_DESC back), and the device never writes through
\* one of which the buffer is gone, also when ag71xx_fill_rx_buf fails.
RxRingOK == TypeOK /\ DmaHasBuffer /\ InStep
=============================================================================
