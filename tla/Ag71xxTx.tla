------------------------------ MODULE Ag71xxTx ------------------------------
(***************************************************************************)
(* Transmission in the Ethernet driver of the router's MAC (ag71xx_main.c, *)
(* ag71xx_phy.c): the ring of DMA descriptors between the network stack    *)
(* and the device, completion in NAPI, link changes and the restart work.  *)
(*                                                                         *)
(* The SoC has one core.  hard_start_xmit and poll run as softirqs or with *)
(* these disabled, and a link change runs with interrupts disabled: only   *)
(* the device acts in between their steps.  The restart work runs as a     *)
(* process and after ag71xx_hw_disable it does not hold ag->lock: xmit and *)
(* poll come in between its steps.                                         *)
(*                                                                         *)
(* curr and dirty are unsigned int and wrap: modulo Wrap.                  *)
(***************************************************************************)
EXTENDS Integers, FiniteSets

CONSTANTS
  Size,         \* ring->size, in descriptors
  Wrap,         \* 2^32 in the code
  MaxSeg,       \* AG71XX_TX_RING_DS_PER_PKT, 1 if ring->desc_split is 0
  Is724x,       \* pdata->is_ar724x
  Restarts,     \* the restart work may be scheduled
  MaxFlaps      \* bound: link changes, for a MAC that is not reset by them

ConstAssumption ==
  /\ Size \in Nat \ {0} /\ Wrap \in Nat /\ Wrap > Size
  /\ MaxSeg \in Nat \ {0} /\ Is724x \in BOOLEAN /\ Restarts \in BOOLEAN
  /\ MaxFlaps \in Nat

VARIABLES
  empty, more,  \* DESC_EMPTY and DESC_MORE of each descriptor (FALSE once it is done with)
  skb,          \* ring->buf[i].skb is set
  curr, dirty,
  queueStopped, \* netif_stop_queue
  xmit,         \* segments of the packet that hard_start_xmit works on, and done
  napi,         \* the poll is scheduled
  link, flaps,  \* ag->link; changes counted by the bound
  adjusting,    \* ag71xx_fast_reset is at work for a link change
  restart,      \* where the restart work is
  devp, txe,    \* device: next descriptor, engine on
  ps, ie        \* device: TX_STATUS count of sent descriptors, interrupt enabled

ring == <<empty, more, skb, curr, dirty>>
dev == <<devp, txe, ps, ie>>
vars == <<ring, queueStopped, xmit, napi, link, flaps, adjusting, restart, dev>>

Slots == 0 .. Size - 1
StopDesc == Size        \* ag->stop_desc
NoXmit == [segs |-> 0, n |-> 0]

Init ==         \* after ag71xx_open and the first link up
  /\ empty = [i \in Slots |-> TRUE] /\ more = [i \in Slots |-> FALSE]
  /\ skb = [i \in Slots |-> FALSE]
  /\ curr = 0 /\ dirty = 0 /\ queueStopped = FALSE
  /\ xmit = NoXmit /\ napi = FALSE /\ link = TRUE /\ flaps = 0 /\ adjusting = FALSE
  /\ restart = "idle"
  /\ devp = 0 /\ txe = FALSE /\ ps = 0 /\ ie = TRUE

Pending == (curr - dirty) % Wrap        \* curr - dirty
Slot(q) == (q % Wrap) % Size            \* counter % ring->size
RingMin == IF MaxSeg = 1 THEN 2 ELSE 2 * MaxSeg
InWindow(i) == \E k \in 0 .. Pending - 1 : i = Slot(dirty + k)

CpuFree == xmit = NoXmit /\ ~adjusting

---------------------------------------------------------------------------
(* ag71xx_hard_start_xmit *)

\* The stack sends a packet that takes segs descriptors.
XmitStart(segs) ==
  /\ CpuFree /\ link /\ ~queueStopped
  /\ xmit' = [segs |-> segs, n |-> 0]
  /\ UNCHANGED <<ring, queueStopped, napi, link, flaps, adjusting, restart, dev>>

\* One round of ag71xx_fill_dma_desc; the first descriptor stays EMPTY.
ag71xx_fill_dma_desc ==
  LET i == Slot(curr + xmit.n)
  IN  /\ xmit.n < xmit.segs /\ empty[i]
      /\ empty' = [empty EXCEPT ![i] = xmit.n = 0]
      /\ more' = [more EXCEPT ![i] = xmit.n + 1 < xmit.segs]
      /\ xmit' = [xmit EXCEPT !.n = @ + 1]
      /\ UNCHANGED <<skb, curr, dirty, queueStopped, napi, link, flaps, adjusting, restart, dev>>

\* A descriptor is not empty: the packet is dropped.
XmitDrop ==
  /\ xmit.n < xmit.segs /\ ~empty[Slot(curr + xmit.n)]
  /\ xmit' = NoXmit
  /\ UNCHANGED <<ring, queueStopped, napi, link, flaps, adjusting, restart, dev>>

\* netif_stop_queue: no room for two more packets (unsigned int).
Stops(pending) == pending >= (Size - RingMin) % Wrap

\* Mutant: the skb is stored with the first descriptor.
DoneAtFirst ==
  /\ xmit # NoXmit /\ xmit.n = xmit.segs
  /\ skb' = [skb EXCEPT ![Slot(curr)] = TRUE]
  /\ empty' = [empty EXCEPT ![Slot(curr)] = FALSE]
  /\ curr' = (curr + xmit.n) % Wrap
  /\ queueStopped' = (queueStopped \/ Stops((curr + xmit.n - dirty) % Wrap))
  /\ txe' = TRUE
  /\ xmit' = NoXmit
  /\ UNCHANGED <<more, dirty, napi, link, flaps, adjusting, restart, devp, ps, ie>>

\* The packet is handed over.
XmitDone ==
  /\ xmit # NoXmit /\ xmit.n = xmit.segs
  /\ skb' = [skb EXCEPT ![Slot(curr + xmit.n - 1)] = TRUE]
  /\ empty' = [empty EXCEPT ![Slot(curr)] = FALSE]
  /\ curr' = (curr + xmit.n) % Wrap
  /\ queueStopped' = (queueStopped \/ Stops((curr + xmit.n - dirty) % Wrap))
  /\ txe' = TRUE
  /\ xmit' = NoXmit
  /\ UNCHANGED <<more, dirty, napi, link, flaps, adjusting, restart, devp, ps, ie>>

---------------------------------------------------------------------------
(* The device (external) *)

\* It sends the descriptor that it has come to.
DeviceSends ==
  /\ txe /\ devp # StopDesc /\ ~empty[devp]
  /\ empty' = [empty EXCEPT ![devp] = TRUE]
  /\ devp' = (devp + 1) % Size
  /\ ps' = IF ps < Size THEN ps + 1 ELSE ps
  /\ UNCHANGED <<more, skb, curr, dirty, queueStopped, xmit, napi, link, flaps, adjusting, restart, txe, ie>>

\* It stops at a descriptor that is empty.
DeviceStops ==
  /\ txe /\ (IF devp = StopDesc THEN TRUE ELSE empty[devp])
  /\ txe' = FALSE
  /\ UNCHANGED <<ring, queueStopped, xmit, napi, link, flaps, adjusting, restart, devp, ps, ie>>

---------------------------------------------------------------------------
(* Completion *)

\* How many descriptors from dirty on belong to packets that are done with
\* (all of them when flush): up to the last one with an skb.
Completed(flush) ==
  LET Gone(k) == \A j \in 0 .. k - 1 : flush \/ empty[Slot(dirty + j)]
      Ends == {k \in 1 .. Pending : Gone(k) /\ skb[Slot(dirty + k - 1)]}
  IN  IF Ends = {} THEN 0 ELSE CHOOSE k \in Ends : \A l \in Ends : l <= k

\* netif_wake_queue after n descriptors were done with.
Wakes(n) == n > 0 /\ Pending - n < (Size * 3) \div 4

\* ag71xx_tx_packets
ag71xx_tx_packets(flush) ==
  LET n == Completed(flush)
      gone == {Slot(dirty + j) : j \in 0 .. n - 1}
  IN  /\ skb' = [i \in Slots |-> skb[i] /\ i \notin gone]
      /\ empty' = [i \in Slots |-> empty[i] \/ (flush /\ InWindow(i))]
      /\ more' = [i \in Slots |-> more[i] /\ i \notin gone]
      /\ dirty' = (dirty + n) % Wrap
      /\ ps' = IF ps > n THEN ps - n ELSE 0
      /\ queueStopped' = (queueStopped /\ ~Wakes(n))

\* The interrupt is level triggered.
ag71xx_interrupt ==
  /\ CpuFree /\ ie /\ ps > 0 /\ restart # "disable"
  /\ ie' = FALSE /\ napi' = TRUE
  /\ UNCHANGED <<ring, queueStopped, xmit, link, flaps, adjusting, restart, devp, txe, ps>>

\* ag71xx_poll without reception; check_dma_stuck may ask for a restart.
ag71xx_poll ==
  /\ CpuFree /\ napi
  /\ ag71xx_tx_packets(FALSE)
  /\ napi' = (ps' > 0)
  /\ ie' = (ie \/ ps' = 0)
  /\ \/ UNCHANGED restart
     \/ /\ Restarts /\ Is724x /\ link /\ restart = "idle"
        /\ dirty' # curr /\ ~empty[Slot(dirty')]
        /\ restart' = "scheduled"
  /\ UNCHANGED <<curr, xmit, link, flaps, adjusting, devp, txe>>

---------------------------------------------------------------------------
(* Link changes, with ag->lock held *)

\* Mutant: fast_reset does not stop the engine.
DmaKeepsRunning == ie' = FALSE /\ ps' = 0 /\ UNCHANGED <<devp, txe>>

\* ag71xx_hw_stop and ag71xx_dma_reset.
DmaReset == ie' = FALSE /\ txe' = FALSE /\ ps' = 0 /\ devp' = StopDesc

LinkDown ==     \* ag71xx_hw_stop
  /\ CpuFree /\ restart # "disable" /\ link /\ link' = FALSE
  /\ Is724x \/ flaps < MaxFlaps
  /\ ie' = FALSE /\ txe' = FALSE
  /\ UNCHANGED <<ring, queueStopped, xmit, napi, flaps, adjusting, restart, devp, ps>>

\* The link is up, or up with another speed: __ag71xx_link_adjust.  A MAC that
\* is not reset goes on to ag71xx_hw_start.
LinkUp ==
  /\ CpuFree /\ restart # "disable" /\ link' = TRUE
  /\ \/ Is724x /\ DmaReset /\ adjusting' = TRUE /\ UNCHANGED <<queueStopped, flaps>>
     \/ /\ ~Is724x /\ flaps < MaxFlaps /\ flaps' = flaps + 1
        /\ ie' = TRUE /\ queueStopped' = FALSE
        /\ UNCHANGED <<adjusting, devp, txe, ps>>
  /\ UNCHANGED <<ring, xmit, napi, restart>>

\* The rest of ag71xx_fast_reset: the ring is flushed and starts from 0.
ag71xx_fast_reset ==
  /\ skb' = [i \in Slots |-> skb[i] /\ ~InWindow(i)]
  /\ empty' = [i \in Slots |-> empty[i] \/ InWindow(i)]
  /\ curr' = 0 /\ dirty' = 0 /\ devp' = 0

\* Mutant: the stack's queue is not started again.
ResetKeepsQueue ==
  /\ adjusting /\ adjusting' = FALSE
  /\ ag71xx_fast_reset
  /\ ie' = TRUE
  /\ UNCHANGED <<more, queueStopped, xmit, napi, link, flaps, restart, txe, ps>>

LinkReset ==    \* then ag71xx_hw_start
  /\ adjusting /\ adjusting' = FALSE
  /\ ag71xx_fast_reset
  /\ ie' = TRUE /\ queueStopped' = FALSE
  /\ UNCHANGED <<more, xmit, napi, link, flaps, restart, txe, ps>>

---------------------------------------------------------------------------
(* ag71xx_restart_work_func *)

ag71xx_tx_timeout ==    \* the stack's watchdog
  /\ Restarts /\ restart = "idle" /\ queueStopped /\ link
  /\ restart' = "scheduled"
  /\ UNCHANGED <<ring, queueStopped, xmit, napi, link, flaps, adjusting, dev>>

\* ag71xx_hw_disable up to napi_disable, which waits for the poll.
RestartDisable ==
  /\ CpuFree /\ restart = "scheduled" /\ restart' = "disable"
  /\ queueStopped' = TRUE /\ DmaReset
  /\ UNCHANGED <<ring, xmit, napi, link, flaps, adjusting>>

\* ag71xx_rings_cleanup and ag71xx_hw_enable: a new ring.
RestartEnable ==
  /\ CpuFree /\ restart = "disable" /\ ~napi
  /\ empty' = [i \in Slots |-> TRUE] /\ skb' = [i \in Slots |-> FALSE]
  /\ curr' = 0 /\ dirty' = 0 /\ devp' = 0
  /\ queueStopped' = FALSE
  /\ restart' = IF link THEN "stop" ELSE "idle"
  /\ UNCHANGED <<more, xmit, napi, link, flaps, adjusting, txe, ps, ie>>

\* ag71xx_fast_reset without the lock: ag71xx_hw_stop and ag71xx_dma_reset,
RestartStop ==
  /\ CpuFree /\ restart = "stop" /\ restart' = IF Is724x THEN "flush" ELSE "start"
  /\ IF Is724x THEN DmaReset ELSE UNCHANGED dev
  /\ UNCHANGED <<ring, queueStopped, xmit, napi, link, flaps, adjusting>>

\* ag71xx_tx_packets,
RestartFlush ==
  /\ CpuFree /\ restart = "flush" /\ restart' = "zero"
  /\ ag71xx_tx_packets(TRUE)
  /\ UNCHANGED <<curr, xmit, napi, link, flaps, adjusting, devp, txe, ie>>

\* the counters and TX_DESC,
RestartZero ==
  /\ CpuFree /\ restart = "zero" /\ restart' = "start"
  /\ curr' = 0 /\ dirty' = 0 /\ devp' = 0
  /\ UNCHANGED <<empty, more, skb, queueStopped, xmit, napi, link, flaps, adjusting, txe, ps, ie>>

\* and ag71xx_hw_start.
RestartStart ==
  /\ CpuFree /\ restart = "start" /\ restart' = "idle"
  /\ ie' = TRUE /\ queueStopped' = FALSE
  /\ UNCHANGED <<ring, xmit, napi, link, flaps, adjusting, devp, txe, ps>>

RestartStep == \/ RestartDisable \/ RestartEnable \/ RestartStop
               \/ RestartFlush \/ RestartZero \/ RestartStart

Xmit == \/ \E segs \in 1 .. MaxSeg : XmitStart(segs)
        \/ ag71xx_fill_dma_desc \/ XmitDrop \/ XmitDone

Next == \/ Xmit \/ DeviceSends \/ DeviceStops
        \/ ag71xx_interrupt \/ ag71xx_poll
        \/ LinkDown \/ LinkUp \/ LinkReset
        \/ ag71xx_tx_timeout \/ RestartStep

Spec == Init /\ [][Next]_vars

\* The CPU finishes what it has begun, takes interrupts and runs softirqs, and
\* the device sends while its engine is on.  The kernel's worker gets its turn.
FairSpec ==
  /\ Spec
  /\ WF_vars(ag71xx_fill_dma_desc \/ XmitDrop \/ XmitDone) /\ WF_vars(LinkReset)
  /\ SF_vars(ag71xx_interrupt) /\ SF_vars(ag71xx_poll)
  /\ WF_vars(DeviceSends)
  /\ SF_vars(RestartStep)

---------------------------------------------------------------------------
(* Properties *)

\* Every variable has its type.
TypeOK ==
  /\ empty \in [Slots -> BOOLEAN] /\ more \in [Slots -> BOOLEAN] /\ skb \in [Slots -> BOOLEAN]
  /\ curr \in 0 .. Wrap - 1 /\ dirty \in 0 .. Wrap - 1 /\ Pending <= Size
  /\ xmit \in [segs : 0 .. MaxSeg, n : 0 .. MaxSeg]
  /\ devp \in 0 .. Size /\ ps \in 0 .. Size

\* "prevent early tx attempt of this descriptor": what the device is about to
\* send belongs to a packet that was handed over.
NoEarlyTx == txe /\ devp \in Slots /\ ~empty[devp] => InWindow(devp)

\* Every packet of the ring is in the part that completion will reach, with
\* its skb at its last descriptor: none is lost and none is freed twice.
SkbsReachable ==
  \A i \in Slots : skb[i] <=> InWindow(i) /\ ~more[i]

\* "clearing the descriptors too early causes random memory corruption"
\* (ag71xx_dma_reset): a packet that the device has not sent is freed only
\* while the device's engine is stopped.
StoppedBeforeClear ==
  [][\A i \in Slots : skb[i] /\ ~skb'[i] /\ ~empty[i] => ~txe]_vars

\* "packet injected into TX queue" (ag71xx_hard_start_xmit): while the link is
\* up every packet of the ring is sent, or flushed, and its skb freed.
PacketsLeave == \A i \in Slots : (skb[i] /\ link) ~> (~skb[i] \/ ~link)

\* A restart comes to its end (napi_disable waits for the poll) and leaves the
\* stack's queue running.
RestartEnds == (restart = "scheduled") ~> (restart = "idle" /\ ~queueStopped)

\* While the link is up a queue that was stopped is woken again.
QueueWakes == (queueStopped /\ link) ~> (~queueStopped \/ ~link)

\* The ring as a whole: completion reaches every packet, and the device no other.
TxRingOK == TypeOK /\ NoEarlyTx /\ SkbsReachable
=============================================================================
