----------------------------- MODULE QConnMan -----------------------------
(***************************************************************************)
(* The main thread of quectel-CM (main.c): detection of the modem, the     *)
(* start-up requests, and the poll loop that keeps a data call up, the     *)
(* link and DHCP in step with it, and tears both down.                     *)
(*                                                                         *)
(* A QMI request is one step, as QmiCall allows: it is answered, refused,  *)
(* lost (a timeout or a failed write; the modem may still act on it) or    *)
(* cancelled by the QMI thread (it returns 0 with no response).  Between   *)
(* two requests of a handler the modem, the network and signals move on.   *)
(***************************************************************************)
EXTENDS Integers, Sequences, FiniteSets

CONSTANTS
  Dual,         \* profile.IsDualIPSupported (-6)
  Loop,         \* main_loop at the start (-l)
  HasAuth,      \* a user and a password are configured
  MaxAddr,      \* addresses the network hands out, one after the other
  Fallible,     \* kinds of request, and "ind", that may fail
  MaxLoss,      \* bound: requests refused or lost, indications lost
  MaxFlap,      \* bound: calls dropped, network outages
  MaxPlug,      \* bound: unplugs
  MaxSig,       \* bound: SIGTERM/SIGHUP/SIGINT delivered
  MaxReset      \* bound: radio resets, but for one that turns the radio on

\* GET_CLIENT_ID, registration, status, address, START_NETWORK_INTERFACE,
\* STOP_NETWORK_INTERFACE, operating mode; indications.
Kinds == {"client", "reg", "query", "ip", "start", "stop", "mode", "ind"}

ASSUME ConstAssumption ==
  /\ Dual \in BOOLEAN /\ Loop \in BOOLEAN /\ HasAuth \in BOOLEAN
  /\ MaxAddr \in Nat \ {0}
  /\ Fallible \subseteq Kinds
  /\ MaxLoss \in Nat /\ MaxFlap \in Nat /\ MaxPlug \in Nat /\ MaxSig \in Nat
  /\ MaxReset \in Nat

VARIABLES
  pc,           \* where the main thread is, "done" when the process ended
  boot,         \* the link is being raised by the start-up code
  ready,        \* descriptors that the last poll reported
  signal_fd,    \* signal_control_fd: signals for the main loop
  event_fd,     \* qmidevice_control_fd: events from the QMI thread
  alarm,        \* alarm(5) is running
  main_loop,
  IPv4ConnectionStatus,
  PSAttachedState,
  handle,       \* WdsConnectionIPv4Handle and WdsConnectionIPv6Handle
  Address,      \* profile.ipv4.Address
  s_link,       \* static s_link of usbnet_link_change
  dhcp,         \* the address udhcpc_start ran for, 0 for none
  clients,      \* services whose qmiclientId is not 0
  opened,       \* the QMI thread has the modem open
  plugged,      \* the modem is there
  network,      \* there is a network to attach to
  radio,        \* the modem's operating mode is online
  call,         \* the data call of each family: Down, Dialing or an address
  lastAddr,     \* the address handed out last
  cancels,      \* cancels the QMI thread may still apply to a request
  losses, flaps, plugs, sigs, resets    \* counters of the bounds

loopVars  == <<boot, ready, alarm, main_loop>>
connVars  == <<IPv4ConnectionStatus, PSAttachedState, handle>>
linkVars  == <<Address, s_link, dhcp>>
netVars   == <<opened, plugged, network, radio, flaps, plugs>>
callVars  == <<call, lastAddr>>
lossVars  == <<losses, cancels>>
boundVars == <<sigs, resets>>
vars == <<pc, loopVars, signal_fd, event_fd, connVars, linkVars, clients, netVars,
          callVars, lossVars, boundVars>>

Families == {4, 6}
Wds(f) == IF f = 4 THEN "WDS" ELSE "WDS_IPV6"
Services == {"WDS", "DMS", "NAS"} \cup (IF Dual THEN {"WDS_IPV6"} ELSE {})
Down == 0
Dialing == -1
Attached == network /\ radio

---------------------------------------------------------------------------
(* Requests and indications *)

\* How a request of kind k to service s can end.  Without a client id it is
\* not sent (-EINVAL).  An unplugged modem answers nothing: the QMI thread
\* cancels the request in progress, later ones get -ENODEV.
Ends(k, s) ==
  IF s \notin clients THEN {"lost"}
  ELSE IF ~ opened THEN {"lost", "cancelled"}
  ELSE {"answered"}
       \cup (IF k \in Fallible /\ losses < MaxLoss THEN {"refused", "lost"} ELSE {})
       \cup (IF cancels > 0 THEN {"cancelled"} ELSE {})

\* The modem has seen a request to s, whatever became of the answer.
Reaches(s) == opened /\ s \in clients

\* The request ends as e; failures count against the bounds.
Request(k, s, e) ==
  /\ e \in Ends(k, s)
  /\ losses' = IF Reaches(s) /\ e \in {"refused", "lost"} THEN losses + 1 ELSE losses
  /\ cancels' = IF Reaches(s) /\ e = "cancelled" THEN cancels - 1 ELSE cancels

\* The calls become c; the QMI thread passes the modem's indication on.
CallsBecome(c) ==
  /\ call' = c
  /\ lastAddr' = IF c[4] > 0 THEN c[4] ELSE lastAddr
  /\ event_fd' = IF c = call THEN event_fd ELSE Append(event_fd, "CALL")

NextAddr == (lastAddr % MaxAddr) + 1

\* ConnectionStatus of a call; one with ReconfigReqd counts as down.
StatusOf(c) ==
  CASE c = Down -> "DISCONNECTED" [] c = Dialing -> "OTHER" [] c > 0 -> "CONNECTED"

\* requestQueryDataCall: nothing changes unless it is answered, and a call
\* that is down loses its handle.
QueryDataCall(e) ==
  /\ Request("query", "WDS", e)
  /\ IPv4ConnectionStatus' =
       IF e = "answered" THEN StatusOf(call[4]) ELSE IPv4ConnectionStatus
  /\ handle' =
       IF e = "answered" /\ call[4] = Down THEN [handle EXCEPT ![4] = 0] ELSE handle

\* requestRegistrationState: nothing changes unless it is answered.
RegistrationState(e) ==
  /\ Request("reg", "NAS", e)
  /\ PSAttachedState' = IF e = "answered" THEN Attached ELSE PSAttachedState

CanDial(f) == Attached /\ call[f] = Down

\* requestSetupDataCall: START_NETWORK_INTERFACE, whose answer carries the
\* handle.  The modem refuses when it has no network or a call already; when
\* the answer is lost or cancelled it may be dialing.
SetupDataCall(f, e) ==
  \/ /\ e = "answered" /\ CanDial(f)
     /\ Request("start", Wds(f), e)
     /\ CallsBecome([call EXCEPT ![f] = IF f = 4 THEN NextAddr ELSE 1])
     /\ handle' = [handle EXCEPT ![f] = call'[f]]
  \/ /\ e = "refused"
     /\ IF Reaches(Wds(f)) /\ ~ CanDial(f)
          THEN UNCHANGED lossVars
          ELSE Request("start", Wds(f), e)
     /\ UNCHANGED <<callVars, event_fd, handle>>
  \/ /\ e \in {"lost", "cancelled"}
     /\ Request("start", Wds(f), e)
     /\ call' \in {call} \cup {c \in {[call EXCEPT ![f] = Dialing]} :
                                  Reaches(Wds(f)) /\ CanDial(f)}
     /\ UNCHANGED <<lastAddr, event_fd, handle>>

\* requestDeactivateDefaultPDP: STOP_NETWORK_INTERFACE for the handle, if
\* there is one.
DeactivateDefaultPDP(f, e) ==
  IF handle[f] = 0
    THEN e = "answered" /\ UNCHANGED <<lossVars, callVars, event_fd, handle>>
    ELSE /\ Request("stop", Wds(f), e)
         /\ handle' = IF e = "answered" THEN [handle EXCEPT ![f] = 0] ELSE handle
         /\ \E acts \in BOOLEAN :
              /\ e = "answered" => acts
              /\ acts => Reaches(Wds(f)) /\ e # "refused"
              /\ CallsBecome(IF acts THEN [call EXCEPT ![f] = Down] ELSE call)

\* requestGetIPAddress of IPv4 into a: without a handle it reports success
\* and address 0; a failed request leaves 0.  ok: it returned 0.
GetIPAddress(e, a, ok) ==
  IF handle[4] = 0
    THEN e = "answered" /\ a = 0 /\ ok /\ UNCHANGED lossVars
    ELSE /\ Request("ip", "WDS", e)
         /\ a = IF e = "answered" /\ call[4] > 0 THEN call[4] ELSE 0
         /\ ok <=> \/ e = "cancelled"
                   \/ e = "answered" /\ call[4] > 0

Results == {"answered", "refused", "lost", "cancelled"}

---------------------------------------------------------------------------
(* The link *)

\* Mutant: udhcpc_stop is not called.
LinkDownNoStop == s_link' = 0 /\ UNCHANGED <<dhcp, Address>>

\* usbnet_link_change(0): udhcpc_stop, once.
LinkDown == s_link' = 0 /\ dhcp' = (IF s_link = 0 THEN dhcp ELSE 0) /\ UNCHANGED Address

\* usbnet_link_change(1) has work to do: on to requestGetIPAddress.
LinkUp(raise, otherwise) ==
  IF s_link = 1 THEN pc' = otherwise /\ UNCHANGED s_link
                ELSE pc' = raise /\ s_link' = 1

\* The address is fetched, then udhcpc_start runs DHCP if it is not 0.  The
\* IPv6 address is fetched too and starts dibbler, which is left out.
LinkAddress(e) ==
  /\ pc = "linkAddress"
  /\ \E a \in 0 .. MaxAddr, ok \in BOOLEAN :
       GetIPAddress(e, a, ok) /\ Address' = a /\ dhcp' = a
  /\ pc' = "poll"
  /\ boot' = FALSE
  /\ signal_fd' = IF boot THEN Append(signal_fd, "USR1") ELSE signal_fd
  /\ UNCHANGED <<ready, alarm, main_loop, event_fd, connVars, s_link, clients,
                 netVars, callVars, boundVars>>

---------------------------------------------------------------------------
(* Start-up *)

\* Mutant: the QMI thread is started without a modem.
DetectBlind ==
  /\ pc = "detect"
  /\ pc' = "init" /\ opened' = TRUE
  /\ UNCHANGED <<loopVars, signal_fd, event_fd, connVars, linkVars, clients, plugged,
                 network, radio, flaps, plugs, callVars, lossVars, boundVars>>

\* qmidevice_detect finds the modem, the QMI thread opens it and announces
\* CONNECTED; without -l, or after a signal, main gives up.
Detect ==
  /\ pc = "detect"
  /\ \/ plugged /\ pc' = "init" /\ opened' = TRUE
     \/ ~ plugged /\ ~ main_loop /\ pc' = "done" /\ UNCHANGED opened
  /\ UNCHANGED <<loopVars, signal_fd, event_fd, connVars, linkVars, clients,
                 plugged, network, radio, flaps, plugs, callVars, lossVars,
                 boundVars>>

\* The modem is gone before it is opened, or ten SYNC requests fail: main
\* returns.
InitFails ==
  /\ pc = "init"
  /\ \/ ~ opened /\ UNCHANGED losses
     \/ opened /\ "client" \in Fallible /\ losses < MaxLoss /\ losses' = losses + 1
  /\ pc' = "done"
  /\ UNCHANGED <<loopVars, signal_fd, event_fd, connVars, linkVars, clients,
                 netVars, callVars, cancels, boundVars>>

\* Requests to get or release client ids fail for the services in failed.
ClientsFail(failed) ==
  IF opened
    THEN /\ failed # {} => "client" \in Fallible
         /\ losses' = losses + Cardinality(failed)
         /\ losses' <= MaxLoss
    ELSE UNCHANGED losses

\* QmiWwanInit: SYNC, then one client id per service; the id of a request
\* that fails stays 0.  Then the requests up to requestRegistrationState,
\* which leave nothing behind that the main loop reads.
QmiWwanInit ==
  /\ pc = "init"
  /\ \E missing \in SUBSET Services :
       ClientsFail(missing) /\ clients' = Services \ missing
  /\ pc' = "regFirst"
  /\ UNCHANGED <<loopVars, signal_fd, event_fd, connVars, linkVars, netVars,
                 callVars, cancels, boundVars>>

RegFirst(e) ==
  /\ pc = "regFirst"
  /\ RegistrationState(e)
  /\ pc' = "queryFirst"
  /\ UNCHANGED <<loopVars, signal_fd, event_fd, IPv4ConnectionStatus, handle,
                 linkVars, clients, netVars, callVars, boundVars>>

\* The first query; the link follows it and SIGUSR1 starts the work.
QueryFirst(e) ==
  /\ pc = "queryFirst"
  /\ QueryDataCall(e)
  /\ IF e \in {"answered", "cancelled"} /\ IPv4ConnectionStatus' = "CONNECTED"
       THEN /\ LinkUp("linkAddress", "poll")
            /\ boot' = (s_link = 0)
            /\ signal_fd' = IF s_link = 0 THEN signal_fd ELSE Append(signal_fd, "USR1")
            /\ UNCHANGED <<Address, dhcp>>
       ELSE /\ LinkDown
            /\ pc' = "poll"
            /\ signal_fd' = Append(signal_fd, "USR1")
            /\ UNCHANGED boot
  /\ UNCHANGED <<ready, alarm, main_loop, event_fd, PSAttachedState, clients,
                 netVars, callVars, boundVars>>

---------------------------------------------------------------------------
(* The poll loop *)

\* Mutant: a time-out of poll does not send SIGUSR2.
PollAgain ==
  /\ pc = "poll"
  /\ IF signal_fd = <<>> /\ event_fd = <<>>
       THEN UNCHANGED <<pc, ready>>
       ELSE /\ ready' = {fd \in {"signal", "event"} :
                           IF fd = "signal" THEN signal_fd # <<>> ELSE event_fd # <<>>}
            /\ pc' = IF signal_fd # <<>> THEN "signal" ELSE "event"
  /\ UNCHANGED <<boot, alarm, main_loop, signal_fd, event_fd, connVars, linkVars,
                 clients, netVars, callVars, lossVars, boundVars>>

\* poll returns what is ready, or after 15 seconds nothing: then SIGUSR2.
Poll ==
  /\ pc = "poll"
  /\ IF signal_fd = <<>> /\ event_fd = <<>>
       THEN signal_fd' = <<"USR2">> /\ UNCHANGED <<pc, ready>>
       ELSE /\ ready' = {fd \in {"signal", "event"} :
                           IF fd = "signal" THEN signal_fd # <<>> ELSE event_fd # <<>>}
            /\ pc' = IF signal_fd # <<>> THEN "signal" ELSE "event"
            /\ UNCHANGED signal_fd
  /\ UNCHANGED <<boot, alarm, main_loop, event_fd, connVars, linkVars, clients,
                 netVars, callVars, lossVars, boundVars>>

\* Where the loop goes after a signal.
AfterSignal == IF "event" \in ready THEN "event" ELSE "poll"

\* A signal is read: alarm(0), then the switch.
ReadSignal ==
  /\ pc = "signal"
  /\ signal_fd' = Tail(signal_fd)
  /\ alarm' = FALSE
  /\ pc' = CASE Head(signal_fd) = "USR1" -> "usr1Query"
             [] Head(signal_fd) = "USR2" ->
                  IF IPv4ConnectionStatus = "CONNECTED" THEN "usr2Query" ELSE "usr2Redial"
             [] Head(signal_fd) = "TERM" ->
                  IF IPv4ConnectionStatus = "CONNECTED" THEN "termStop" ELSE "termDown"
  /\ UNCHANGED <<boot, ready, main_loop, event_fd, connVars, linkVars, clients,
                 netVars, callVars, lossVars, boundVars>>

\* SIGUSR1: when there is no call, take the link down and dial.
Usr1Query(e) ==
  /\ pc = "usr1Query"
  /\ QueryDataCall(e)
  /\ IF IPv4ConnectionStatus' # "CONNECTED"
       THEN LinkDown /\ pc' = "usr1Reg"
       ELSE UNCHANGED linkVars /\ pc' = AfterSignal
  /\ UNCHANGED <<loopVars, signal_fd, event_fd, PSAttachedState, clients,
                 netVars, callVars, boundVars>>

Usr1Reg(e) ==
  /\ pc = "usr1Reg"
  /\ RegistrationState(e)
  /\ pc' = IF PSAttachedState' THEN "usr1Dial" ELSE "usr1Fail"
  /\ UNCHANGED <<loopVars, signal_fd, event_fd, IPv4ConnectionStatus, handle,
                 linkVars, clients, netVars, callVars, boundVars>>

\* Dial IPv4; a refusal is retried once with the other authentication.  A
\* cancelled request returns 0 and counts as a call.
Usr1Dial(e) ==
  /\ pc \in {"usr1Dial", "usr1Again"}
  /\ SetupDataCall(4, e)
  /\ pc' = CASE e = "refused" /\ HasAuth /\ pc = "usr1Dial" -> "usr1Again"
             [] e = "refused" /\ ~ (HasAuth /\ pc = "usr1Dial") -> "usr1Fail"
             [] e = "lost" -> "usr1Fail"
             [] e \in {"answered", "cancelled"} ->
                  IF Dual THEN "usr1Dial6" ELSE AfterSignal
  /\ UNCHANGED <<loopVars, signal_fd, IPv4ConnectionStatus, PSAttachedState,
                 linkVars, clients, netVars, boundVars>>

Usr1Dial6(e) ==
  /\ pc = "usr1Dial6"
  /\ SetupDataCall(6, e)
  /\ pc' = AfterSignal
  /\ UNCHANGED <<loopVars, signal_fd, IPv4ConnectionStatus, PSAttachedState,
                 linkVars, clients, netVars, boundVars>>

\* No call: reset the radio if the last reset is more than 45 seconds ago,
\* then alarm(5).
Usr1Reset ==
  /\ pc = "usr1Fail"
  /\ resets < MaxReset \/ ~ radio
  /\ resets' = IF resets < MaxReset THEN resets + 1 ELSE resets
  /\ pc' = "radioOff"
  /\ UNCHANGED <<loopVars, signal_fd, event_fd, connVars, linkVars, clients,
                 netVars, callVars, lossVars, sigs>>

Usr1Alarm ==
  /\ pc = "usr1Fail"
  /\ alarm' = TRUE
  /\ pc' = AfterSignal
  /\ UNCHANGED <<boot, ready, main_loop, signal_fd, event_fd, connVars,
                 linkVars, clients, netVars, callVars, lossVars, boundVars>>

\* requestSetOperatingMode(0x01), which ends all calls, and (0x00).
SetOperatingMode(e, on) ==
  /\ Request("mode", "DMS", e)
  /\ \E acts \in BOOLEAN :
       /\ e = "answered" => acts
       /\ acts => Reaches("DMS") /\ e # "refused"
       /\ radio' = IF acts THEN on ELSE radio
       /\ call' = IF acts /\ ~ on THEN [f \in Families |-> Down] ELSE call
  /\ event_fd' = event_fd \o (IF call' # call THEN <<"CALL">> ELSE <<>>)
                          \o (IF network /\ radio' # radio THEN <<"NET">> ELSE <<>>)

RadioOff(e) ==
  /\ pc = "radioOff"
  /\ SetOperatingMode(e, FALSE)
  /\ pc' = "radioOn"
  /\ UNCHANGED <<loopVars, signal_fd, connVars, linkVars, clients, opened,
                 plugged, network, flaps, plugs, lastAddr, boundVars>>

RadioOn(e) ==
  /\ pc = "radioOn"
  /\ SetOperatingMode(e, TRUE)
  /\ alarm' = TRUE
  /\ pc' = AfterSignal
  /\ UNCHANGED <<boot, ready, main_loop, signal_fd, connVars, linkVars, clients,
                 opened, plugged, network, flaps, plugs, lastAddr, boundVars>>

\* SIGUSR2: see whether the call is still there and has the same address.
Usr2Query(e) ==
  /\ pc = "usr2Query"
  /\ QueryDataCall(e)
  /\ pc' = IF IPv4ConnectionStatus' = "CONNECTED" THEN "usr2Check" ELSE "usr2Redial"
  /\ UNCHANGED <<loopVars, signal_fd, event_fd, PSAttachedState, linkVars,
                 clients, netVars, callVars, boundVars>>

\* check_ipv4_address, on a copy of the profile.
Usr2Check(e) ==
  /\ pc = "usr2Check"
  /\ \E a \in 0 .. MaxAddr, ok \in BOOLEAN :
       /\ GetIPAddress(e, a, ok)
       /\ pc' = IF ok /\ a = Address THEN AfterSignal ELSE "usr2Stop"
  /\ UNCHANGED <<loopVars, signal_fd, event_fd, connVars, linkVars, clients,
                 netVars, callVars, boundVars>>

Usr2Stop(e) ==
  /\ pc = "usr2Stop"
  /\ DeactivateDefaultPDP(4, e)
  /\ IPv4ConnectionStatus' = "DISCONNECTED"
  /\ pc' = "usr2Redial"
  /\ UNCHANGED <<loopVars, signal_fd, PSAttachedState, linkVars, clients,
                 netVars, boundVars>>

\* Mutant: SIGUSR2 does not send SIGUSR1.
Usr2NoRedial ==
  /\ pc = "usr2Redial"
  /\ pc' = AfterSignal
  /\ UNCHANGED <<loopVars, signal_fd, event_fd, connVars, linkVars, clients, netVars,
                 callVars, lossVars, boundVars>>

Usr2Redial ==
  /\ pc = "usr2Redial"
  /\ signal_fd' = Append(signal_fd, "USR1")
  /\ pc' = AfterSignal
  /\ UNCHANGED <<loopVars, event_fd, connVars, linkVars, clients, netVars,
                 callVars, lossVars, boundVars>>

\* SIGTERM, SIGHUP, SIGINT: stop the calls, take the link down, release the
\* client ids, RIL_REQUEST_QUIT.
TermStop(e) ==
  /\ pc \in {"termStop", "termStop6"}
  /\ DeactivateDefaultPDP(IF pc = "termStop" THEN 4 ELSE 6, e)
  /\ pc' = IF Dual /\ pc = "termStop" THEN "termStop6" ELSE "termDown"
  /\ UNCHANGED <<loopVars, signal_fd, IPv4ConnectionStatus, PSAttachedState,
                 linkVars, clients, netVars, boundVars>>

\* Mutants: the client ids are not released; the loop is not left.
TermDownNoRelease ==
  /\ pc = "termDown"
  /\ LinkDown
  /\ pc' = "quit"
  /\ UNCHANGED <<loopVars, signal_fd, event_fd, connVars, clients, netVars, callVars,
                 lossVars, boundVars>>

TermDownNoQuit ==
  /\ pc = "termDown"
  /\ LinkDown
  /\ clients' = {}
  /\ CallsBecome([f \in Families |-> IF f = 4 /\ Reaches("WDS") THEN Down ELSE call[f]])
  /\ pc' = AfterSignal
  /\ UNCHANGED <<loopVars, signal_fd, connVars, netVars, lossVars, boundVars>>

\* QmiWwanDeInit: the modem ends the call of a client it releases.  The client of IPv6
\* was fetched as one of WDS and is released as one of QMUX_TYPE_WDS_IPV6, which the
\* modem does not know: it keeps that client and its call.
TermDown ==
  /\ pc = "termDown"
  /\ LinkDown
  /\ \E kept \in SUBSET clients :
       /\ ClientsFail(kept)
       /\ CallsBecome([f \in Families |->
            IF f = 4 /\ Reaches("WDS") /\ "WDS" \notin kept THEN Down ELSE call[f]])
  /\ clients' = {}
  /\ pc' = "quit"
  /\ UNCHANGED <<loopVars, signal_fd, connVars, netVars, cancels, boundVars>>

\* An event of the QMI thread is read.
ReadEvent ==
  /\ pc = "event"
  /\ event_fd' = Tail(event_fd)
  /\ ready' = {}
  /\ pc' = CASE Head(event_fd) = "NET" -> "netReg"
             [] Head(event_fd) = "CALL" -> "callQuery"
             [] Head(event_fd) = "DISCONNECTED" -> "gone"
  /\ UNCHANGED <<boot, alarm, main_loop, signal_fd, connVars, linkVars, clients,
                 netVars, callVars, lossVars, boundVars>>

\* RIL_UNSOL_RESPONSE_VOICE_NETWORK_STATE_CHANGED
NetReg(e) ==
  /\ pc = "netReg"
  /\ RegistrationState(e)
  /\ signal_fd' = IF PSAttachedState' /\ IPv4ConnectionStatus = "DISCONNECTED"
                    THEN Append(signal_fd, "USR1") ELSE signal_fd
  /\ pc' = "poll"
  /\ UNCHANGED <<loopVars, event_fd, IPv4ConnectionStatus, handle, linkVars,
                 clients, netVars, callVars, boundVars>>

\* RIL_UNSOL_DATA_CALL_LIST_CHANGED: the link follows the call.
CallQuery(e) ==
  /\ pc = "callQuery"
  /\ QueryDataCall(e)
  /\ pc' = IF Dual THEN "callQuery6" ELSE "callLink"
  /\ UNCHANGED <<loopVars, signal_fd, event_fd, PSAttachedState, linkVars,
                 clients, netVars, callVars, boundVars>>

\* The status of IPv6 is fetched and never read; its handle is cleared.
CallQuery6(e) ==
  /\ pc = "callQuery6"
  /\ Request("query", "WDS_IPV6", e)
  /\ handle' =
       IF e = "answered" /\ call[6] = Down THEN [handle EXCEPT ![6] = 0] ELSE handle
  /\ pc' = "callLink"
  /\ UNCHANGED <<loopVars, signal_fd, event_fd, IPv4ConnectionStatus,
                 PSAttachedState, linkVars, clients, netVars, callVars,
                 boundVars>>

CallLink ==
  /\ pc = "callLink"
  /\ IF IPv4ConnectionStatus = "CONNECTED"
       THEN LinkUp("linkAddress", "poll") /\ UNCHANGED <<Address, dhcp, signal_fd>>
       ELSE LinkDown /\ pc' = "poll" /\ signal_fd' = Append(signal_fd, "USR1")
  /\ UNCHANGED <<loopVars, event_fd, connVars, clients, netVars, callVars,
                 lossVars, boundVars>>

\* RIL_INDICATE_DEVICE_DISCONNECTED: start over with -l, else quit.
Gone ==
  /\ pc = "gone"
  /\ LinkDown
  /\ pc' = IF main_loop THEN "detect" ELSE "quit"
  /\ UNCHANGED <<loopVars, signal_fd, event_fd, connVars, clients, netVars,
                 callVars, lossVars, boundVars>>

\* __main_quit: the link goes down and the QMI thread is joined.
Quit ==
  /\ pc = "quit"
  /\ LinkDown
  /\ pc' = "done"
  /\ UNCHANGED <<loopVars, signal_fd, event_fd, connVars, clients, netVars,
                 callVars, lossVars, boundVars>>

---------------------------------------------------------------------------
(* The environment: the modem, the network, the clock and the user *)

\* The QMI thread turns an indication into an event, if it is there.
Indicate(e) == event_fd' = IF opened THEN Append(event_fd, e) ELSE event_fd

\* A call that was being dialed comes up or fails; its START_NETWORK request
\* is no longer waited for.
DialEnds(f) ==
  /\ call[f] = Dialing
  /\ \E c \in {Down, IF f = 4 THEN NextAddr ELSE 1} :
       /\ c # Down => Attached
       /\ call' = [call EXCEPT ![f] = c]
       /\ lastAddr' = IF f = 4 /\ c > 0 THEN c ELSE lastAddr
  /\ Indicate("CALL")
  /\ UNCHANGED <<pc, loopVars, signal_fd, connVars, linkVars, clients, netVars,
                 lossVars, boundVars>>

\* The network or the modem ends a call.
CallDrops(f) ==
  /\ call[f] > 0 /\ flaps < MaxFlap
  /\ flaps' = flaps + 1
  /\ call' = [call EXCEPT ![f] = Down]
  /\ Indicate("CALL")
  /\ UNCHANGED <<pc, loopVars, signal_fd, connVars, linkVars, clients, opened,
                 plugged, network, radio, plugs, lastAddr, lossVars, boundVars>>

\* The network goes, and the calls with it.
NetworkGoes ==
  /\ network /\ flaps < MaxFlap
  /\ flaps' = flaps + 1
  /\ network' = FALSE
  /\ call' = [f \in Families |-> Down]
  /\ event_fd' =
       IF opened THEN event_fd \o (IF call' # call THEN <<"CALL", "NET">> ELSE <<"NET">>)
                 ELSE event_fd
  /\ UNCHANGED <<pc, loopVars, signal_fd, connVars, linkVars, clients, opened,
                 plugged, radio, plugs, lastAddr, lossVars, boundVars>>

NetworkComes ==
  /\ ~ network
  /\ network' = TRUE
  /\ IF radio THEN Indicate("NET") ELSE UNCHANGED event_fd
  /\ UNCHANGED <<pc, loopVars, signal_fd, connVars, linkVars, clients, opened,
                 plugged, radio, flaps, plugs, callVars, lossVars, boundVars>>

\* An indication never becomes an event: it was taken for a response, or its
\* length did not match.
IndicationLost ==
  /\ "ind" \in Fallible /\ losses < MaxLoss
  /\ Len(event_fd) > (IF "event" \in ready THEN 1 ELSE 0)
  /\ event_fd[Len(event_fd)] # "DISCONNECTED"
  /\ losses' = losses + 1
  /\ event_fd' = SubSeq(event_fd, 1, Len(event_fd) - 1)
  /\ UNCHANGED <<pc, loopVars, signal_fd, connVars, linkVars, clients, netVars,
                 callVars, cancels, boundVars>>

\* The modem is unplugged or resets; the QMI thread notices and ends.
Unplug ==
  /\ plugged /\ plugs < MaxPlug
  /\ plugs' = plugs + 1
  /\ plugged' = FALSE /\ opened' = FALSE
  /\ radio' = TRUE
  /\ call' = [f \in Families |-> Down]
  /\ cancels' = 0
  /\ Indicate("DISCONNECTED")
  /\ UNCHANGED <<pc, loopVars, signal_fd, connVars, linkVars, clients, network,
                 flaps, lastAddr, losses, boundVars>>

Replug ==
  /\ ~ plugged
  /\ plugged' = TRUE
  /\ UNCHANGED <<pc, loopVars, signal_fd, event_fd, connVars, linkVars, clients,
                 opened, network, radio, flaps, plugs, callVars, lossVars,
                 boundVars>>

\* SIGALRM becomes SIGUSR1.
AlarmRings ==
  /\ alarm /\ pc # "done"
  /\ alarm' = FALSE
  /\ signal_fd' = Append(signal_fd, "USR1")
  /\ UNCHANGED <<pc, boot, ready, main_loop, event_fd, connVars, linkVars,
                 clients, netVars, callVars, lossVars, boundVars>>

\* ql_sigaction of SIGTERM, SIGHUP, SIGINT: for the main loop and, to cancel
\* the request in progress, for the QMI thread.
Signal ==
  /\ sigs < MaxSig /\ pc # "done"
  /\ sigs' = sigs + 1
  /\ main_loop' = FALSE
  /\ signal_fd' = Append(signal_fd, "TERM")
  /\ cancels' = IF opened THEN cancels + 1 ELSE cancels
  /\ UNCHANGED <<pc, boot, ready, alarm, event_fd, connVars, linkVars, clients,
                 netVars, callVars, losses, resets>>

\* The QMI thread finds no request to cancel.
CancelsNothing ==
  /\ cancels > 0
  /\ cancels' = cancels - 1
  /\ UNCHANGED <<pc, loopVars, signal_fd, event_fd, connVars, linkVars, clients,
                 netVars, callVars, losses, boundVars>>

---------------------------------------------------------------------------
\* PSAttachedState is not initialised.
Init ==
  /\ pc = "detect" /\ boot = FALSE /\ ready = {}
  /\ signal_fd = <<>> /\ event_fd = <<>> /\ alarm = FALSE /\ main_loop = Loop
  /\ IPv4ConnectionStatus = "UNKNOWN" /\ PSAttachedState \in BOOLEAN
  /\ handle = [f \in Families |-> 0]
  /\ Address = 0 /\ s_link = 0 /\ dhcp = 0 /\ clients = {}
  /\ opened = FALSE /\ plugged = TRUE /\ network = TRUE /\ radio = TRUE
  /\ call = [f \in Families |-> Down] /\ lastAddr = 0
  /\ cancels = 0 /\ losses = 0 /\ flaps = 0 /\ plugs = 0 /\ sigs = 0 /\ resets = 0

MainStep ==
  \/ Detect \/ InitFails \/ QmiWwanInit \/ Poll \/ ReadSignal \/ Usr1Reset
  \/ Usr1Alarm \/ Usr2Redial \/ TermDown \/ ReadEvent \/ CallLink \/ Gone \/ Quit
  \/ \E e \in Results :
       \/ RegFirst(e) \/ QueryFirst(e) \/ LinkAddress(e)
       \/ Usr1Query(e) \/ Usr1Reg(e) \/ Usr1Dial(e) \/ Usr1Dial6(e)
       \/ RadioOff(e) \/ RadioOn(e)
       \/ Usr2Query(e) \/ Usr2Check(e) \/ Usr2Stop(e) \/ TermStop(e)
       \/ NetReg(e) \/ CallQuery(e) \/ CallQuery6(e)

EnvStep ==
  \/ \E f \in Families : DialEnds(f) \/ CallDrops(f)
  \/ NetworkGoes \/ NetworkComes \/ IndicationLost \/ Unplug \/ Replug
  \/ AlarmRings \/ Signal \/ CancelsNothing

Terminated == pc = "done" /\ UNCHANGED vars

Next == MainStep \/ EnvStep \/ Terminated

Spec == Init /\ [][Next]_vars

\* The main thread runs, the clock runs, and the modem does not dial for
\* ever.  Nothing is assumed of the network, the plug and the user.
FairSpec ==
  /\ Spec
  /\ WF_vars(MainStep) /\ SF_vars(Usr1Reset) /\ WF_vars(AlarmRings)
  /\ \A f \in Families : WF_vars(DialEnds(f))

---------------------------------------------------------------------------
(* Properties *)

\* Types of the main thread's state and of the modem's.
TypeOK ==
  /\ boot \in BOOLEAN /\ alarm \in BOOLEAN /\ main_loop \in BOOLEAN
  /\ ready \subseteq {"signal", "event"}
  /\ signal_fd \in Seq({"USR1", "USR2", "TERM"})
  /\ event_fd \in Seq({"CALL", "NET", "DISCONNECTED"})
  /\ IPv4ConnectionStatus \in {"UNKNOWN", "DISCONNECTED", "OTHER", "CONNECTED"}
  /\ PSAttachedState \in BOOLEAN
  /\ handle \in [Families -> 0 .. MaxAddr] /\ call \in [Families -> -1 .. MaxAddr]
  /\ Address \in 0 .. MaxAddr /\ dhcp \in 0 .. MaxAddr /\ s_link \in {0, 1}
  /\ clients \subseteq Services
  /\ cancels \in 0 .. MaxSig /\ losses \in 0 .. MaxLoss
  /\ opened => plugged

\* SIGTERM leaves no IPv4 call behind, also when it cancels the dialing: what
\* requestDeactivateDefaultPDP does not know of goes with the client id that
\* QmiWwanDeInit releases.
CleanExit == pc = "done" /\ losses = 0 => call[4] = Down

\* Observation: nor an IPv6 call.  Its client is not released, and it is stopped only
\* while IPv4 is connected.
NoCallLeft == pc = "done" /\ losses = 0 => \A f \in Families : call[f] = Down

\* The interface is configured only for a link that is up, and only with the
\* address last fetched; a process that ends leaves it down.
ConfiguredWhenLinked ==
  /\ dhcp # 0 => s_link = 1 /\ dhcp = Address
  /\ pc = "done" => s_link = 0

\* "quectel-CM starts udhcpc when data connection is active"
\* (qmi2.sh): while the network stays, the process ends up with a
\* data call whose address the interface has.
Served ==
  <>[](network /\ plugged /\ pc # "done")
    => <>[](call[4] > 0 /\ s_link = 1 /\ dhcp = call[4])

\* A lost call takes the link down, even if its indication is lost and
\* requests fail: the query of the 15 second timer finds out.
LinkFollowsCall == <>[](call[4] = Down) => <>[](s_link = 0)

\* A signal ends the process, whatever request it is waiting for.
SignalEnds == sigs > 0 ~> pc = "done"
=============================================================================
