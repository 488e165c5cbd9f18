----------------------------- MODULE MCQConnMan -----------------------------
(***************************************************************************)
(* The start of quectel-CM and its main loop, instantiated for what they   *)
(* must get done.  A behaviour is one of a single instance: part says of   *)
(* which, no step changes it, and the variables of the other component     *)
(* stay as they are at the start.  The state space is the sum of theirs.   *)
(***************************************************************************)
EXTENDS Integers, FiniteSets

VARIABLES
  part,
  pc, boot, ready, signal_fd, event_fd, alarm, main_loop, IPv4ConnectionStatus, PSAttachedState,
  handle, Address, s_link, dhcp, clients, opened, plugged, network, radio, call, lastAddr, cancels,
  losses, flaps, plugs, sigs, resets,
  startPc, tries, ids, s_9x07, pResponse, twice, SIMStatus, card, sent, link

connVars  == <<pc, boot, ready, signal_fd, event_fd, alarm, main_loop, IPv4ConnectionStatus,
               PSAttachedState, handle, Address, s_link, dhcp, clients, opened, plugged, network,
               radio, call, lastAddr, cancels, losses, flaps, plugs, sigs, resets>>
startVars == <<startPc, tries, ids, s_9x07, pResponse, twice, SIMStatus, card, sent, link>>
vars == <<part, connVars, startVars>>

---------------------------------------------------------------------------
(* Instances *)

\* Calls and requests are lost, the modem is unplugged, nobody ends the process.
Run == INSTANCE QConnMan WITH
  Dual <- FALSE, Loop <- TRUE, HasAuth <- FALSE, MaxAddr <- 4,
  Fallible <- {"reg", "query", "ip", "stop", "mode", "ind"},
  MaxLoss <- 1, MaxFlap <- 1, MaxPlug <- 1, MaxSig <- 0, MaxReset <- 1
\* Every kind of request fails, and a signal ends the process.
Ended == INSTANCE QConnMan WITH
  Dual <- FALSE, Loop <- TRUE, HasAuth <- TRUE, MaxAddr <- 1,
  Fallible <- {"client", "reg", "query", "ip", "start", "stop", "mode", "ind"},
  MaxLoss <- 1, MaxFlap <- 1, MaxPlug <- 0, MaxSig <- 1, MaxReset <- 0

\* Client ids may be missing.
Single == INSTANCE QStartup WITH
  DualIp <- FALSE, Qmap <- TRUE, Pincode <- TRUE, IdsFail <- TRUE, Reliable <- TRUE,
  MaxBusy <- 2, pc <- startPc
\* IPv6 too; the requests for the SIM card may fail.
Double == INSTANCE QStartup WITH
  DualIp <- TRUE, Qmap <- FALSE, Pincode <- TRUE, IdsFail <- FALSE, Reliable <- FALSE,
  MaxBusy <- 2, pc <- startPc

ASSUME Single!ConstAssumption /\ Double!ConstAssumption

\* Where start-up has several initial states the main loop takes one.
Init ==
  /\ part \in {"run", "ended", "single", "double"}
  /\ IF part = "ended" THEN Ended!Init ELSE Run!Init
  /\ Single!Init
  /\ part \in {"run", "ended"} =>
       SIMStatus = Single!SIM_READY /\ card = [present |-> TRUE, pin1 |-> "disabled"]

ConnNext  == \/ part = "run" /\ Run!Next
             \/ part = "ended" /\ Ended!Next
StartNext == \/ part = "single" /\ Single!Next
             \/ part = "double" /\ Double!Next

Next ==
  /\ UNCHANGED part
  /\ \/ ConnNext /\ UNCHANGED startVars
     \/ StartNext /\ UNCHANGED connVars

\* The main thread runs, the clock runs, and the modem does not dial for ever.
\* Nothing is assumed of the network, the plug and the user.
Fairness ==
  /\ WF_connVars(part = "run" /\ Run!MainStep)
  /\ SF_connVars(part = "run" /\ Run!Usr1Reset)
  /\ WF_connVars(part = "run" /\ Run!AlarmRings)
  /\ \A f \in {4, 6} : WF_connVars(part = "run" /\ Run!DialEnds(f))
  /\ WF_connVars(part = "ended" /\ Ended!MainStep)
  /\ SF_connVars(part = "ended" /\ Ended!Usr1Reset)
  /\ WF_connVars(part = "ended" /\ Ended!AlarmRings)
  /\ \A f \in {4, 6} : WF_connVars(part = "ended" /\ Ended!DialEnds(f))
  /\ WF_startVars(part = "single" /\ Single!Step)
  /\ WF_startVars(part = "double" /\ Double!Step)

Spec == Init /\ [][Next]_vars /\ Fairness

---------------------------------------------------------------------------
(* Properties: those of the components *)

\* However many requests of the start-up fail, main gets to its loop or gives up,
\* requestSetEthMode frees an answer once, and a locked card and no other is given the
\* PIN, through DMS or UIM ("Verify sim card pin if sim card is locked").
StartsUp ==
  /\ [](part = "single" => Single!TypeOK /\ Single!NoDoubleFree /\ Single!LockedGetsPin)
  /\ [](part = "double" => Double!NoDoubleFree)
  /\ [][part = "single" /\ sent' /\ ~sent => card.present /\ card.pin1 = "not_verif"]_vars
  /\ part = "single" => Single!Starts
  /\ part = "double" => Double!Starts

\* While there is a network and a modem the router ends up online, with the link up
\* and the address that the modem has.
Served == part = "run" => Run!Served

\* A lost call takes the link down, even if its indication is lost.
LinkFollowsCall == part = "ended" => Ended!LinkFollowsCall

\* A signal ends the process, whatever request it is waiting for.
SignalEnds == part = "ended" => Ended!SignalEnds
=============================================================================
