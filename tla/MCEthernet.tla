----------------------------- MODULE MCEthernet -----------------------------
(***************************************************************************)
(* The two rings of the Ethernet driver, instantiated for TLC.  A          *)
(* behaviour is one of a single ring: part says of which instance, no step *)
(* changes it, and the variables of the other ring stay as they are at the *)
(* start.  The state space is the sum of theirs.  Ag71xxRx is extended, so *)
(* that its RxRingOK is checked as it is.                                  *)
(***************************************************************************)
EXTENDS Ag71xxRx

VARIABLES
  part,
  empty, more, skb, txCurr, txDirty, queueStopped, xmit, napi, link, flaps, adjusting, restart,
  txDevp, txe, ps, txIe

txVars == <<empty, more, skb, txCurr, txDirty, queueStopped, xmit, napi, link, flaps, adjusting,
            restart, txDevp, txe, ps, txIe>>
allVars == <<part, txVars, vars>>

---------------------------------------------------------------------------
(* Instances *)

\* The router's MAC: a link change resets the ring.
Tx == INSTANCE Ag71xxTx WITH
  Size <- 4, Wrap <- 8, MaxSeg <- 1, Is724x <- TRUE, Restarts <- FALSE, MaxFlaps <- 0,
  curr <- txCurr, dirty <- txDirty, devp <- txDevp, ie <- txIe
\* Packets are split over two descriptors and a link change leaves the ring.
Split == INSTANCE Ag71xxTx WITH
  Size <- 10, Wrap <- 20, MaxSeg <- 2, Is724x <- FALSE, Restarts <- FALSE, MaxFlaps <- 1,
  curr <- txCurr, dirty <- txDirty, devp <- txDevp, ie <- txIe
\* The restart work runs.
Restart == INSTANCE Ag71xxTx WITH
  Size <- 4, Wrap <- 8, MaxSeg <- 1, Is724x <- TRUE, Restarts <- TRUE, MaxFlaps <- 0,
  curr <- txCurr, dirty <- txDirty, devp <- txDevp, ie <- txIe

\* Reception on a link that stays up, and one allocation fails.
Steady == INSTANCE Ag71xxRx WITH LinkChanges <- FALSE, MaxFail <- 1

ASSUME Tx!ConstAssumption /\ Split!ConstAssumption /\ Restart!ConstAssumption
ASSUME ConstAssumption /\ Steady!ConstAssumption

AllInit ==
  /\ part \in {"tx", "split", "restart", "rx", "steady"}
  /\ IF part = "split" THEN Split!Init ELSE Tx!Init
  /\ Init

TxNext == \/ part = "tx" /\ Tx!Next
          \/ part = "split" /\ Split!Next
          \/ part = "restart" /\ Restart!Next
RxNext == \/ part = "rx" /\ Next
          \/ part = "steady" /\ Steady!Next

AllNext ==
  /\ UNCHANGED part
  /\ \/ TxNext /\ UNCHANGED vars
     \/ RxNext /\ UNCHANGED txVars

\* The CPU finishes what it has begun, takes interrupts and runs softirqs, timers
\* and the worker; the device sends while its engine is on.
Fairness ==
  /\ WF_txVars(part = "tx" /\ (Tx!ag71xx_fill_dma_desc \/ Tx!XmitDrop \/ Tx!XmitDone))
  /\ WF_txVars(part = "tx" /\ Tx!LinkReset)
  /\ SF_txVars(part = "tx" /\ Tx!ag71xx_interrupt)
  /\ SF_txVars(part = "tx" /\ Tx!ag71xx_poll)
  /\ WF_txVars(part = "tx" /\ Tx!DeviceSends)
  /\ WF_txVars(part = "restart"
               /\ (Restart!ag71xx_fill_dma_desc \/ Restart!XmitDrop \/ Restart!XmitDone))
  /\ WF_txVars(part = "restart" /\ Restart!LinkReset)
  /\ SF_txVars(part = "restart" /\ Restart!ag71xx_poll)
  /\ SF_txVars(part = "restart" /\ Restart!RestartStep)
  /\ WF_vars(part = "steady" /\ Steady!ag71xx_interrupt)
  /\ WF_vars(part = "steady" /\ Steady!ag71xx_oom_timer_handler)
  /\ WF_vars(part = "steady" /\ Steady!PollStep)

AllSpec == AllInit /\ [][AllNext]_allVars /\ Fairness

---------------------------------------------------------------------------
(* Properties: those of the components, beside RxRingOK of Ag71xxRx *)

\* ag71xx_tx_packets reaches every packet of the ring, none is lost or freed twice, and
\* the device sends only packets that were handed over ("prevent early tx attempt of
\* this descriptor"); also when packets are split.
TxRingOK == /\ part = "tx" => Tx!TxRingOK
            /\ part = "split" => Split!NoEarlyTx /\ Split!SkbsReachable
            /\ part = "restart" => Restart!TypeOK

\* ag71xx_dma_reset, "clearing the descriptors too early causes random memory
\* corruption": a packet that was not sent is freed only with the engine stopped.
StoppedBeforeClear ==
  [][part = "tx" => \A i \in Tx!Slots : skb[i] /\ ~skb'[i] /\ ~empty[i] => ~txe]_allVars

\* While the link is up every packet of the ring is sent or flushed, and a queue that
\* was stopped is woken; ag71xx_restart_work_func ends and leaves the queue running.
TxGoesOn == /\ part = "tx" => Tx!PacketsLeave /\ Tx!QueueWakes
            /\ part = "restart" => Restart!RestartEnds

\* Every packet that was received is processed and its descriptor refilled, and
\* after an overflow ag71xx_poll starts reception again.
RxGoesOn == part = "steady" => Steady!PacketsDelivered /\ Steady!ReceptionResumes
=============================================================================
