# Verification of the RUT2xx router software

The repository is the GPL source tree of the Teltonika RUT2xx routers: an
OpenWrt build tree, mostly upstream packages, around the code that makes it
this product. This directory holds TLA+ specifications of the parts with state
machines, concurrency and failures of their own, TLC configurations that check
them, and TLAPS proofs. Four groups of components are covered:

- the mobile data path: `quectel-CM`, which keeps a cellular data call up over
  QMI, and `ql-tty2tcp`, which exposes the modem's serial port;
- the hotspot: the RADIUS queue, the address pool and the sessions of
  `coova-chilli`;
- the Ethernet driver of the SoC, `ag71xx`: its two descriptor rings;
- the service scripts: SIM idle protection, bridge mode, `mwan3`, dynamic DNS,
  `watchcat`, and the settings that survive an upgrade.

## Inventory

| Component | State | Operations | Hard because |
|---|---|---|---|
| QMI transactions (`quectel-CM/src/QMIThread.c`, `QmiWwanCM.c`, `util.c`) | `s_pRequest`, `s_pResponse`, mutex and condition variable, transaction ids, `cdc_wdm_fd`, two socket pairs | `QmiThreadSendQMITimeout`, `QmiWwanSendQMI`, `QmiThreadRecvQMI`, `QmiWwanThread` | two threads share one slot; answers come late, get lost, or collide with indications; requests time out and are cancelled; the device disappears |
| start-up of quectel-CM (`QmiWwanInit`, first half of `main`) | client ids, `s_9x07`, `pResponse`, `SIMStatus` | SYNC, client ids, data format, SIM status, PIN | any request can fail; a response pointer is used for several requests |
| connection manager (`main.c`, `udhcpc.c`, requests of `QMIThread.c`) | call status, registration, call handles, address, `s_link`, DHCP, alarm, client ids | SIGUSR1 (dial), SIGUSR2 (check), SIGTERM, indications, unplug | each handler makes several blocking requests, between which modem and network move on; indications get lost |
| `ql-tty2tcp` (`package/qtel`) | two ring buffers with free-running indices, descriptors, quit flag | open, poll, read, write, close, signal | index wrap, partial reads and writes, a stalled end, endless reconnection |
| RADIUS client (`coova-chilli`, `radius.c`) | table of requests threaded by a list, ids, last server | request, retransmit, answer, give up | one table is at once an array, a list and an id space; late and repeated answers; two servers; the clock is set |
| address pool (`ippool.c`) | members, hash chains, two free lists | build, find, take, give back | pointers spliced in place; static, dynamic and translated addresses |
| sessions (`chilli.c`, `dhcp.c`) | connection records of two layers, free lists, requests and portal messages in flight | DHCP request, log-in, log-out, MAC authentication, accept, reject, lease end | records are freed and used again while requests that name them are outstanding; two state fields for one client |
| Ethernet driver (`ag71xx_main.c`) | two rings with free-running indices, device registers, NAPI, timer | transmit, interrupt, poll, refill, link change, restart | the device acts between any two instructions; full and empty rings; failed allocations; reset with packets in the ring |
| SIM idle protection (`sim_idle_protection.sh`) | lock file, pid, active SIM, configuration | lock, wait, kill, switch, ping, put back | instances run at once, hang, die; pids are used again |
| bridge mode (`bridge_daemon.sh`, `ncm.sh`) | remembered address and client, dnsmasq, ebtables | three polling loops, restart | restart and flush between steps |
| mwan3 (`15-mwan3`, `mwan3track`) | chains, routes, rules, policies, trackers, pid files | ifup, ifdown, track, set policies | concurrent handlers, trackers that call handlers and are killed by them |
| dynamic DNS (`dynamic_dns_updater.sh`, `_functions.sh`) | registered and local address, time of last update, error counters | look up, compare, send, sleep, check | lost answers, slow name servers, restarts by hotplug |
| watchcat (`watchcat.sh`) | times of the last check and of the last success | ping, decide, reboot, force | time arithmetic |
| settings over an upgrade (`fw_upgrade.sh`, `keep_settings_new.sh`, `leave_config_new.sh`, `sysupgrade`, `mobile_settings_restore.sh`) | start-up files, configuration, staged change, flash block, archive | save, empty `/etc`, upgrade, restore, delete, commit, recover | power cuts, an image that is refused |
| GobiNet back end, `qmi2.sh`, `load_balancing`, ping and wget reboot, modem checks | | | see "Not modelled" |
| `gsmd`, `gsmctl`, `messaged`, `ioman`, `gpsd` | | | shipped as binaries, no source |
| LuCI, kernel, boot loader, build system, other packages | | | not this product's logic |

How they interact: `qmi2.sh` starts quectel-CM. Its main thread sends QMI
requests, one at a time, through the shared slot; its QMI thread owns
`/dev/cdc-wdm`, completes or cancels requests and sends events over a socket
pair; signal handlers write to one socket pair for the main loop and to the
other for the QMI thread. `usbnet_link_change` runs DHCP on the network
interface. In the hotspot one process handles DHCP, RADIUS and portal messages
in one loop: `dhcp.c` calls into `chilli.c` through callbacks, `chilli.c` takes
addresses from `ippool.c` and puts requests, with a pointer to the connection,
into the queue of `radius.c`, which calls back. netifd's hotplug events start the
handlers of mwan3 and dynamic DNS; mwan3track calls the handlers in turn.
cron starts SIM idle protection. The scripts share state only through files,
`uci` and the kernel's tables.

What makes them correct:

- transactions: a call gets its own answer or none; nothing is used after it
  was freed; no wakeup is lost; every call returns; unplugging ends the thread
  pair;
- start-up and connection manager: a locked SIM card and no other is sent the
  PIN; as long as there is a network, the interface ends up with the address of
  a live data call; a lost call takes the link down; SIGTERM ends the process
  and leaves no IPv4 call behind;
- bridge: each direction is a bounded FIFO stream; descriptors do not leak; one
  direction does not block the other; a signal ends it;
- hotspot: every accepted RADIUS request gets exactly one callback; no address
  is lost or given to two clients; packets pass if and only if the session is
  authenticated;
- driver: no packet is lost in a ring, freed twice or freed under the device;
  sending and receiving go on after a full ring, an overflow, a failed
  allocation or a link change;
- scripts: one instance at a time; what was changed is put back; the tables of
  an interface agree; traffic follows the interface that works; the name follows
  the address; a reset comes in time and not earlier; settings survive.

## Modules

| Module | Models | Composition |
|---|---|---|
| `QmiCall` | what a caller of `QmiThreadSendQMITimeout` may rely on | abstract |
| `QmiTransaction` | main thread, QMI thread, modem, at the granularity of lock, wait, read and write | shown to implement `QmiCall` |
| `QStartup` | quectel-CM up to its main loop | uses the outcomes of `QmiCall` |
| `QConnMan` | the main thread's program on top of calls that behave as `QmiCall` says | uses the outcomes of `QmiCall` |
| `ByteStream` | two bounded FIFO byte streams that can be dropped together | abstract |
| `Tty2Tcp` | `ql-tty2tcp` | shown to implement `ByteStream` |
| `RadiusCalls` | what `chilli.c` may rely on: one callback for each accepted request | abstract |
| `ChilliRadius` | the queue of `radius.c` | shown to implement `RadiusCalls` |
| `ChilliPool` | `ippool.c` and its callers | |
| `ChilliPoolRange` | which addresses `ippool_new` puts into the pool | algorithm, checked for every setting of a small subnet |
| `ChilliSession` | sessions and DHCP connections | requests end as `RadiusCalls` says; any free address stands for `ChilliPool` |
| `Ag71xxTx`, `Ag71xxRx` | the transmit and the receive ring | |
| `SimIdle`, `BridgeDaemon`, `Mwan3`, `DdnsUpdater`, `Watchcat`, `KeepSettings` | the scripts | |
| `Mwan3Policy` | `mwan3_set_policies_iptables` | algorithm, checked against the shares that the weights ask for |
| `QmiTransactionProofs`, `ChilliRadiusProofs`, `ChilliSessionProofs`, `Tty2TcpProofs` | theorems about the component of that name | EXTENDS it |
| `QConnManProofs`, `ChilliPoolProofs`, `Ag71xxProofs` | theorems about `QConnMan` and `QStartup`, `ChilliPool` and `ChilliPoolRange`, `Ag71xxRx` and `Ag71xxTx` | EXTENDS the first of the two, INSTANCE of the other |
| `ServicesProofs` | theorems about `Mwan3`, `Mwan3Policy`, `Watchcat`, `KeepSettings`, `BridgeDaemon`, `DdnsUpdater`, `SimIdle` | EXTENDS `Mwan3`, INSTANCE of the others |
| `MCTty2Tcp` | the function-valued constants of `Tty2Tcp` | EXTENDS it |
| `MCQConnMan`, `MCHotspot`, `MCEthernet`, `MCServices` | instances of the components of a group | INSTANCE; `MCHotspot` EXTENDS `ChilliRadius`, `MCEthernet` EXTENDS `Ag71xxRx`, `MCServices` EXTENDS `Mwan3` |

The last four modules put several instances of several components into one run.
The variable `part` is chosen in the initial state and says which instance a
behaviour is of; no step changes it, and the variables of the other components
keep their initial values. The state space is the sum of the instances', and
each property says for which of them it is stated. Where a property of a
component is checked in an instance only, the reason is given under "Runs".

### QmiTransaction

The variables are the C variables (`s_pRequest`, `s_pResponse`, `cdc_wdm_fd`,
the mutex), a program counter per thread, the modem's unanswered requests
(`pending`), the messages under way (`wire`) and the socket pairs (`ctrl`,
`evq`). A step is what happens between two points where another thread can
interfere: taking the mutex (`SendLock`), checking the descriptor
(`SendCheck`), writing (`SendWritten`, `SendNotWritable`, `SendFailed`), the
end of the wait (`WaitEnds`, `WaitTimeout`), waking up with the mutex
(`SendWake`). `QmiThreadRecvQMI` is one atomic step per case, because it holds
the mutex throughout, except that its write of an event can block *inside* the
critical section (`RecvIndication`, then `RecvEvent`). A request is a number, a
client and a transaction id; `heap` holds the requests that are allocated.

An answer is less than `MaxLag` requests late; the assumption
`MaxLag <= MaxCtlTid` and `MaxLag <= MaxMuxTid` says that it is not as late as a
whole round of the transaction ids (255 or 65535 requests in the code). Without
it a reused id could be mistaken. `IndTids` are the ids that the modem puts on
indications; they may collide with a request's id, since `is_response` does not
look at the response flag. An indication that is taken for an answer is allowed
by `QmiCall`, and its event is lost: this is `IndicationLost` in `QConnMan`.

### QStartup

One action per request, in the order of `QmiWwanInit` and `main`: up to ten SYNC
requests, a client id for each service (a failed one leaves 0, and every later
request of that service is not sent), the base band version, the data format
requests of `requestSetEthMode` with the fate of the one variable `pResponse`
that they share, the SIM status over UIM or DMS, the PIN. `SIMStatus` is not
initialised in the code and starts with any value. Left out: the requests that
only print (IMSI, firmware), and the profile.

### QConnMan

One action per QMI request a handler makes, in the order of `main()`: a request
is answered, refused, lost (time-out or failed write; the modem may have acted
on it) or cancelled (returns 0 without a response). Between two requests the
environment moves: the network comes and goes, calls drop, dialing ends late,
the modem is unplugged and replugged, signals arrive. `PSAttachedState` starts
with an arbitrary value as in the code. Abstractions: the start-up is `QStartup`
and here one step that succeeds or fails; a call with ReconfigReqd counts as
down; the IPv6 address and dibbler are left out (the IPv6 call itself is
modelled). `dhcp` is the address for which `udhcpc_start` was run last, which is
how the code configures the interface; the lease itself is outside.

### Tty2Tcp

The ring buffer operations are translated one to one with indices modulo
`2^W`, `&` bit by bit, contiguous reads and writes, the second read after a
wrap, the copy through `pwrap`, the reset of an empty ring. `Poll` computes the
events and lets the environment choose what is reported; `Read`, `Write` and
their failures follow in the order of the loop. Bytes are numbered modulo one
more than the ring's size, so that streams are unbounded and yet any loss,
duplication or reordering is noticed by the receiver (`given`). A slot whose
byte was written out is marked `Stale`: the code leaves the old byte there,
and marking it only makes reading it visible. `swap_sources` keeps a table of
descriptors with the kernel's lowest-free rule. `malloc` failures, the serial
line settings and the option parser are left out.

### ChilliRadius, ChilliPool, ChilliPoolRange, ChilliSession

`ChilliRadius` keeps the table of `radius.c` with its links as slot numbers, so
that `radius_queue_in`, `radius_queue_out` and `radius_queue_reschedule` splice
it as the code does. A request is its number, which stands for the random
authenticator and the callback argument; ids are drawn as in the code, by slot or,
with `radiusqsize`, from a counter that wraps. `Tick` is a second of the clock,
after which `radius_timeout` looks at the first entry. Answers come in any order,
late, twice, or never, from either server.

`ChilliPool` is the pool with its hash chains and its two doubly linked free
lists, members being numbers; `cb_dhcp_request` and `session_disconnect` take and
give back. The hash is a remainder; nothing depends on which function it is. `ChilliPoolRange` computes the
addresses of the dynamic members in 32-bit arithmetic, for every start, end and
listen address.

`ChilliSession` has one thread: a handler is a function from the record `st` to
the next one, translated from `chilli.c` and `dhcp.c` with what it calls. What
can come in between are the RADIUS requests in flight, each with the number of
its connection record, and the messages of portal processes, which name an
address. Records go through their free lists and are used again. Left out:
reserved leases, allowed MAC list, WPA, RADIUS proxy, CoA, administration
commands, layer 3 and splash mode, packet filtering.

### Ag71xxTx, Ag71xxRx

A descriptor is its flags, a ring its descriptors, its buffers and the counters
`curr` and `dirty` modulo `Wrap`. The SoC has one core: the transmit path and the
poll run to their end against each other, and the device takes a descriptor
between any two of their steps. What the device does (send, receive, overflow,
raise an interrupt) is external and taken from how the driver reads its
registers. A link change resets the transmit side, in the steps of
`ag71xx_fast_reset`. `Restarts` adds the restart work, a process that the other
parts interleave with. Left out: probe and removal, clocks, PHYs, statistics.

### The scripts

A step is a command of the script that reads or writes something shared. In
`SimIdle` instances run at once, hang, are killed, and pids are used again.
`BridgeDaemon` keeps the one line that is not the assignment it seems to be
(`bridge_daemon.sh:84`). `Mwan3` has the queue of handlers in the order of their
start, each table change as a step, and trackers with their score, pid file and
the handler they wait for. `DdnsUpdater` counts time in check intervals; the
provider may act on an update whose answer is lost. `Watchcat` counts seconds.
`KeepSettings` separates what is committed, what is staged and what is in flash,
and cuts the power between any two steps. `leave_config_new.sh` removes every file of
`/etc`: a cut there leaves any of the start-up files (`etc`) and the network
configuration or not. Without `inittab` the router does not start, without
`restore_settings` nothing is put back, and without `/etc/config/network`
`mobile_settings_restore.sh` gives up. `sysupgrade` may refuse the image, and the
router goes on with what is left. A router that does not start or has no network is
recovered by the web page of the boot loader, which leaves the partition of the
archive alone. That a user resets or recovers a router that still has its network, and
so gives up the settings or brings an archive back, is left out.

## Runs

| Run | Checks | Instance |
|---|---|---|
| `qmi_safety` | `TypeOK`, `ResponseIsOwn`, `RequestAlive`, `WaiterIsRegistered`, `NoOrphanWaiter` | 2 clients, ids wrap at 2, 3 requests, 1 indication, 1 signal, unplug at any time |
| `qmi_live` | `ImplementsCall`, `UnplugEnds` | same with 2 requests |
| `qmi_queue_full` | `SignalReleases` is violated | event queue of 1, 2 indications |
| `connman_safety` | `TypeOK`, `CleanExit`, `ConfiguredWhenLinked` | dual stack, authentication retry, 2 addresses, 1 failure of any kind, 1 flap, 1 unplug, 1 signal, 1 radio reset |
| `connman_live` | `StartsUp` | start-up with failing client ids; start-up with IPv6 and failing SIM requests |
| | `Served` | 4 addresses, 1 failed request (not START, not GET_CLIENT_ID) or lost indication, 1 flap, 1 unplug, radio reset |
| | `LinkFollowsCall`, `SignalEnds` | any one failure, 1 flap, 1 signal |
| `connman_late_call` | `Served` is violated | 1 failed START request |
| `tty2tcp_safety` | `TypeOK`, `BytesInOrder`, `NoFdLeak`, `ImplementsStream` | rings of 4 and 2, 3-bit indices, server and serial port |
| `tty2tcp_live` | `NoStall`, `QuitEnds` | rings of 2, 2-bit indices, pty and TCP client |
| `tty2tcp_odd_size` | `NothingCorrupted` is violated | ring of 3 |
| `hotspot` | `QueueOK`, `CallbackOnce` | `radius`: 4 requests in 3 slots, 2 retransmissions, 2 servers; `counted`: 3 requests, 2 slots, ids of a counter, a failed call, the clock set back by a second |
| | `PoolOK` | `pool`: 4 clients, 3 dynamic and 2 static members, ranges that overlap; `foreign`: 3 clients with translated addresses |
| | `RangeOK` | every setting of a subnet of 8 |
| | `SessionsOK`, `TwoStates` | 2 clients, 2 records, 2 addresses; `login`: 2 portal messages, 1 failed allocation; `mac`: 2 RADIUS requests, 1 portal message |
| `ethernet` | `TxRingOK`, `StoppedBeforeClear`, `TxGoesOn` | `tx`: 4 descriptors, counters modulo 8, link changes with reset; `split`: 10 descriptors, packets of 2, one link change without reset; `restart`: with the restart work |
| | `RxRingOK`, `RxGoesOn` | 4 descriptors, counters modulo 8, budget of 2, 2 failed allocations and link changes, or 1 and a steady link |
| `services` | `SwitchesAlone`, `EveryoneRuns` | 2 instances of SIM idle protection, for different cards, that hang; that also die |
| | `BridgeFollows` | 3 addresses, 2 clients, a flush; 2 addresses, a flush and a restart |
| | `TablesOK`, `FailsOver` | 2 interfaces, 4 trackers; 2 events of netifd and a handler that gives up; 3 losses or recoveries of hosts |
| | `PolicyOK` | every policy of 3 members with metrics 1 and 2 and weights 1, 3 and 7, every set of active interfaces |
| | `Registered` | 2 addresses, endless retry, slow name servers; a new name and 2 retries |
| | `ResetsOnTime` | period 9, ping period 2, ping of up to 2 s, reboot that hangs or not |
| | `SettingsRestored` | 3 settings, 2 upgrades, images that are refused, 3 power cuts; failing commands |

What the joint properties stand for, by the names of their parts in the
component modules:

- `StartsUp`: main gets to its loop or gives up (`Starts`), no answer is freed
  twice (`NoDoubleFree`), a locked card gets the PIN (`LockedGetsPin`) and no other
  does (`PinOnlyToLocked`);
- `QueueOK`: the links of the table make one list of exactly the requests that
  wait (`ListOK`), sorted by time-out (`OldestFirst`), an answer finds its request
  (`AnswerFindsRequest`), giving up follows both servers (`BothServersTried`); this is
  the definition of `ChilliRadius` itself;
- `CallbackOnce`: with counted ids, the refinement of `RadiusCalls`, steps and
  liveness, and `ListOK`. The rest of `QueueOK` does not hold there: an id may be
  in use twice, and a clock that is set back changes the order;
- `PoolOK`: `FreeListsOK`, `HashOK`, `InUseIsHeld`, and `OwnAddress` where clients
  cannot bring an address of their own;
- `SessionsOK`: `ConnectionsPaired`, `AddressOwned`;
- `TxRingOK`: `NoEarlyTx`, `SkbsReachable`; `TxGoesOn`: `PacketsLeave`,
  `QueueWakes`, `RestartEnds`. While the restart work runs, only its end is stated;
- `RxRingOK`: `DmaHasBuffer`, `InStep`, the definition of `Ag71xxRx` itself; `RxGoesOn`: `PacketsDelivered`,
  `ReceptionResumes`;
- `SwitchesAlone`: `OneInstance`, `EverythingPutBack`, `PingsItsSim`;
- `BridgeFollows`: `OneRule`, `FollowsIp`, `FollowsMac`;
- `TablesOK`: `TablesAgree`, `OneTracker`; `PolicyOK`: `LowestMetricOnly`,
  `SharesByWeight`;
- `Registered`: `Registered`, `Forced`, `CheckEnds`, `OnceOnStartups`;
- `ResetsOnTime`: `NotWhileConnected`, `ResetInTime`;
- `SettingsRestored`: `NeverLost`, `SettingsKept`, `PutsBackLatest`, `NothingLeft`,
  `WanOrDefault`; `NothingLeft` and `WanFollows` where commands of the backup fail too
  but the power is not cut.

Why the bounds are enough: with three requests and ids that wrap at 2 the answer
to an earlier request meets a later one both before and after the ids are
reused (any lag up to the size of the id space is covered by the proofs); one
indication, one signal and one unplug can each fall into every gap of a
transaction. In `QConnMan` one failure is placed at every request of every
handler, and in `QStartup` every request may fail. Four addresses mean that no
address comes back within a run, which is the case the 15 s check handles. A ring
of 4 bytes is the smallest whose content can wrap with both halves non-empty;
3-bit indices wrap after two rounds.

Three entries are the smallest list with an inner one, and four requests use a
slot again. Five members give both free lists an end and a middle, and two
buckets give chains of three. Two clients and two records make a record change
hands. A transmit ring of 4 fills with `RingMin` 2, and of 10 with packets of two
descriptors; the counters wrap after two rounds. In the scripts two instances,
interfaces or changes meet in every order; what a third could add is another
turn at the same places.

`CHECK_DEADLOCK FALSE` is set for `hotspot` and `services`: requests, messages and
events are bounded, and a router that has been reset, or a hotspot to which
nothing happens any more, really stops.

### Fairness

- `QmiTransaction`: the threads run (weak fairness of their steps). Strong
  fairness of taking the mutex and of each descriptor of a `poll` set: the other
  side releases the mutex again and again, and `poll` reports every ready
  descriptor. The modem and the user owe nothing; a time-out always comes.
- `QStartup`, `QConnMan`: the main thread runs, alarms ring, the modem does not
  dial for ever. `SF(Usr1Reset)` says that the radio reset interval, which is
  compared with the clock, is over at some retry. The network is only assumed to
  stay in `Served`'s own premise.
- `Tty2Tcp`: the thread runs when it does not wait for somebody; end 0 becomes
  writable again and again. Nothing is assumed of end 1, nor of clients.
- `ChilliRadius`: seconds pass, and the main loop calls `radius_timeout` every
  second. No answer ever has to come.
- `Ag71xxTx`, `Ag71xxRx`: the CPU finishes what it has begun and the device sends
  while its engine is on (weak). The interrupt, the poll and the steps of the
  restart work are taken if they are possible again and again (strong): they are
  pending, and only wait for the CPU to be free. Received packets owe nothing.
- `SimIdle`, `BridgeDaemon`, `Mwan3`: processes that do not hang run (weak
  fairness of each process).
- `DdnsUpdater`: the process runs, and name servers take over what the provider
  has. Strong fairness of look-ups, transfers and updates: they are tried again
  for ever and do not fail for ever.

## What the runs found

- **`QMIThread.c:584`** An event is written to a socket pair while
  `s_commandmutex` is held. When the pair is full both threads stop, and neither
  the time-out nor a signal gets the main thread out (`qmi_queue_full`).
- **`QMIThread.c:1839`** A START request that times out while the call comes up
  later leaves the link up without address or DHCP for ever
  (`connman_late_call`).
- **`ql-tty2tcp.c:141`** The rounding that the comment describes is commented
  out; a ring whose size is no power of two corrupts data (`tty2tcp_odd_size`).
  The program's own default of 512 KiB is a power of two; the size can be given
  in the library build (`ql_tty2tcp`).

### Observations

Other places where the code does not do what a comment, a document or an
assertion says. The modules model the code as it is; each property below is
defined in the component's module, fails for the constants given here, and is
left out of the runs, or stated only for instances in which it holds.

| Where | What | Property and constants |
|---|---|---|
| `main.c:871` | A failed status query of a call indication leaves the link down for ever when the network hands out the same address again. | `QConnMan!Served`, `MaxAddr` 1, `Fallible` `{"query"}` |
| `QmiWwanCM.c:171` | The client id of IPv6, fetched as one of `QMUX_TYPE_WDS` (line 157), is released as one of `QMUX_TYPE_WDS_IPV6`, and `main.c:924` stops the calls only while IPv4 is connected: with dual stack a SIGTERM before that leaves the IPv6 call in the modem. | `QConnMan!NoCallLeft`, `Dual` TRUE |
| `main.c:792` | `SIMStatus` is compared although `requestGetSIMStatus` failed and it was never assigned: a PIN may go to a SIM that did not ask ("Verify sim card pin if sim card is locked", `main.c:324`). | `QStartup!PinOnlyToLocked`, `Reliable` FALSE |
| `QMIThread.c:615` | With IPv6 and no client id for it, `requestSetEthMode` frees the answer of the request before. | `QStartup!NoDoubleFree`, `DualIp` and `IdsFail` TRUE |
| `radius.c:644` | "Retransmit any outstanding packets" handles the first entry only; n requests due in the same second wait for one another. | `ChilliRadius!RetransmitsAll` |
| `radius.c:336` | "First packet in queue (oldest timeout)" is not so after the clock was set back: the router has no battery clock. | `ChilliRadius!OldestFirst`, `MaxBack` 1 |
| `radius.c:252` | With `radiusqsize` the id is a counter modulo 256 and may belong to a request that still waits. | `ChilliRadius!AnswerFindsRequest`, `Sized` TRUE, `IdSpace` 2 |
| `ippool.c:512` | With `uamanyip` a static member that is in the table is given to a client that asks for its address without being taken off the free list. | `ChilliPool!AvailableIsFree`, `Anyip` TRUE |
| `ippool.c:360` | "skip the uamlisten address!" is an `if`: with `dhcplisten` next to it the second one gets into the pool. | `ChilliPoolRange!SkipsUamlisten`, `OneListen` FALSE |
| `ippool.c:260` | With `dhcpend` the broadcast address of the subnet, that address gets into the pool. | `ChilliPoolRange!UsableAddresses`, `EndInside` FALSE |
| `chilli.c:4532` | With `noradallow` an unanswered request takes an address for a record that may have been freed. | `ChilliSession!AddressOwned`, `Strict` and `NoRadAllow` TRUE |
| `chilli.c:2220` | A rejection stops the traffic of a client whose session stays authenticated and accounted: two requests of one client, one accepted, the later one rejected. | `ChilliSession!TwoStates`, `Macauth` TRUE, `MaxReq` 2 |
| `chilli.c:4505` | A record is freed and used for another client while a request that points at it is outstanding: the answer is applied to the wrong client. | `ChilliSession!ClientAuthenticated`, `Macauth` TRUE |
| `chilli.c:6005` | "Ensure that the session is not already authenticated" protects only the copy of the parameters: of two log-ins that cross, the second changes the session. | `ChilliSession!SessionKept`, `MaxMsg` 2 |
| `ag71xx_main.c:893` | The restart work calls `ag71xx_fast_reset` without `ag->lock` and without stopping the queue: a transmission enables the engine again before the descriptors are cleared ("random memory corruption", line 376). | `Ag71xxTx!StoppedBeforeClear`, `Restarts` TRUE |
| `ag71xx_main.c:819` | The default transmit ring of 48 entries does not divide 2^32: at the wrap of the counters the driver jumps by 16 slots and the device does not. | `Ag71xxTx!PacketsLeave`, `Wrap` no multiple of `Size` |
| `ag71xx_main.c:811` | A ring smaller than `ring_min` (possible through ethtool on the chips that split packets) never stops the queue. | `Ag71xxTx!NoEarlyTx`, `Size` below `RingMin` |
| `ag71xx_main.c:563` | On a MAC that is not reset by a link change, the change wakes the queue although the ring is full. | `Ag71xxTx!SkbsReachable`, `Size` 8, `Wrap` 16, `MaxSeg` 2, `Is724x` FALSE, `MaxFlaps` 1 |
| `ag71xx_main.c:1008` | `ag71xx_assert(0)` is reached when allocations fail for a whole round. | `Ag71xxRx!NeverAsserts`, `MaxFail` 2 |
| `sim_idle_protection.sh:13` | The file is tested at line 13 and written at line 37: instances started together both pass. | `SimIdle!OneInstance`, `Apart` FALSE |
| `sim_idle_protection.sh:29` | The pid in the lock file may belong to another process, which is killed. | `SimIdle!KillsInstances`, `Crashes` TRUE |
| `sim_idle_protection.sh:60` | An instance that follows one that was killed in the middle reads the test configuration as the initial one and puts that back. | `SimIdle!ResetsToInitial` |
| `bridge_daemon.sh:84` | `$old_ip=$IP` is a command and no assignment: a change back to the first address is not noticed, | `BridgeDaemon!FollowsIp`, `Returns` TRUE |
| `bridge_daemon.sh:82` | and after a change dnsmasq is restarted in every round. | `BridgeDaemon!OnlyOnChange` |
| `15-mwan3:290` | A tracker's ifdown handler that waits behind an ifdown and ifup of netifd runs last, although its tracker was replaced: a working interface is taken out, and the new tracker, whose score is right, does not put it back. | `Mwan3!Failover`, one interface, `MaxFlips` 2, `MaxEvents` 2, `MaxAborts` 0 |
| `dynamic_dns_updater.sh:331` | "should prevent multiple updates if hotplug fires multiple startups" compares with what the name servers give, which may be old. | `DdnsUpdater!OnceOnStartups`, `Lag` TRUE |
| `dynamic_dns_updater.sh:297` | The same comment: a process that is killed between `send_update` (line 367) and the saving of the time (line 381) is followed by one that sends the accepted address again, if no time was saved before or `FORCE_SECONDS` have passed. | `DdnsUpdater!NeverTwice` |
| `dynamic_dns_functions.sh:202` | "stop sections process incl. childs (sleeps)": updaters killed with -9 leave their sleep. | `DdnsUpdater!NoOrphans` |
| `dynamic_dns_updater.sh:403` | After a rejected update of a new name the look-up is repeated for ever and the update never. | `DdnsUpdater!CheckEnds`, `Named` `{""}`, `retry_count` 0 |
| `watchcat.sh:52` | The list of hosts is quoted and pinged as one name: with two hosts the router resets itself while it is connected. | `Watchcat!NotWhileConnected`, `Words` 2 |
| `leave_config_new.sh:43` | All files of `/etc` are removed before the new firmware is written, `inittab` and `restore_settings` among them: after a power cut in between the router does not start, or starts without a network and puts nothing back, until the boot loader writes a firmware. | `KeepSettings!StartsAgain`, `KeepSettings!HasNetwork`, `MaxCuts` 1 |
| `sysupgrade:211` | The image is checked after the settings were removed: when the check fails the router goes on without a network configuration, and a restart does not bring it back. | `KeepSettings!HasNetwork`, `Fails` `{"image"}` |
| `mobile_settings_restore.sh:24` | The flash copy is deleted before `network.wan.ifname` is committed: after a power cut in between wan keeps the factory interface. | `KeepSettings!WanFollows`, `MaxCuts` 1 |

Seen while reading, and outside of what the modules tell apart: `SIM_BAD` indexes
past the end of the status names (`QMIThread.c:828`); `GobiNetGetClientID` returns
-1 and is compared with 0 (`GobiNetCM.c:104`); `open_pts` does not close its
descriptor when `symlink` fails (`ql-tty2tcp.c:115`); the count of DHCP
connections is raised before `calloc` may fail (`dhcp.c:648`); `napi_disable`, which
may sleep, is called with a spin lock held (`ag71xx_main.c:673`); the restart
ignores the result of `ag71xx_hw_enable` (`:899`); `forcedelay` 0 lets watchcat wait for
a reboot that hangs.

## Proofs

Sixteen modules of components have theorems. Each one holds for every value of the constants
that satisfies the module's `ConstAssumption` and the hypotheses that its statement
names. Where the run checks instances of a component (`PoolOK`, `RangeOK`, `SessionsOK`,
`TwoStates`, `TxRingOK`, `SwitchesAlone`, `ResetsOnTime`, `SettingsRestored`, and the parts of `StartsUp`, `BridgeFollows`, `Registered`,
`PolicyOK` and `StoppedBeforeClear` that are listed here) the theorem is about the definition of that
name in the component's module; elsewhere theorem and run share the definition.

| Theorem | States | Under |
|---|---|---|
| `QmiTransactionProofs`: `TypeCorrect`, `OwnResponse`, `NoUseAfterFree`, `NoLostWakeup`, `NobodyOrphaned` | `[]TypeOK`, `[]ResponseIsOwn`, `[]RequestAlive`, `[]WaiterIsRegistered`, `[]NoOrphanWaiter` | |
| `CallRefinement` | the safety part of `QmiCall` | |
| `QConnManProofs`: `TypesHold`, `LinkInStep`, `NothingLeftUp` | `[]TypeOK`, `[]ConfiguredWhenLinked`, `[]CleanExit` and `~Dual => []NoCallLeft` | |
| `FreedOnce` | `[]NoDoubleFree` of `QStartup` | `~(DualIp /\ IdsFail)` |
| `LockedAndNoOther` | `PinOnlyToLocked`, `[]LockedGetsPin` of `QStartup` | `Reliable` |
| `ChilliRadiusProofs`: `ListHolds` | `[](TypeOK /\ ListOK)` | |
| `QueueHolds` | `[]QueueOK` | `~Sized`, `MaxBack = 0` |
| `CallbacksOnce` | the safety part of `RadiusCalls` | |
| `ChilliPoolProofs`: `PoolWhole` | `[]PoolOK` | |
| `AddressIsOwn` | `[](OwnAddress /\ AvailableIsFree)` | `~Anyip` |
| `RangeUsable` | `[](UsableAddresses /\ SkipsUamlisten)` of `ChilliPoolRange` | `OneListen`, `EndInside` |
| `ChilliSessionProofs`: `RecordsAgree` | `[]SessionsOK` | `~NoRadAllow` |
| `PassedAgree` | `[]TwoStates` | `~Macauth`, no `macreauth` in `Portal` |
| `Tty2TcpProofs`: `TypeCorrect` | `[]TypeOK` | |
| `NoDescriptorLeak` | `[]NoFdLeak` | `0 \in Std` |
| `InOrder`, `StreamRefinement` | `[]BytesInOrder`, `ByteStream` | `PowersOfTwo` |
| `Ag71xxProofs`: `RingsAgree` | `[]RxRingOK` | `SizeDivides` |
| `ClearedWhenStopped` | `StoppedBeforeClear` of `Ag71xxTx` | `Restarts = FALSE` |
| `NoneLost` | `[]TxRingOK` of `Ag71xxTx` | `TxAssumption`: `SizeDivides`, `HasRoom`, `ChangesReset`, `Restarts = FALSE` |
| `ServicesProofs`: `TablesHold`, `PidFilesHold` | `[]TablesOK`, `[]KillsItsOwn` of `Mwan3` | |
| `LowestOnly` | `[]LowestMetricOnly` of `Mwan3Policy` | `Ifaces` finite |
| `NotTooEarly` | `[]NotWhileConnected` | `Words = 1` |
| `NotTooLate` | `[](Resets => ResetInTime)` | |
| `OnTime` | `[]ResetsOnTime` | `Words = 1`, `forcedelay # 0` |
| `ArchiveCleared` | `[](TypeOK /\ NothingLeft)` | |
| `UpgradeKeeps` | `[]SettingsRestored` | `"backup" \notin Fails` |
| `WanUsesSettings` | `[]WanFollows` | `MaxCuts = 0` |
| `OneClient` | `[]OneRule` | `MaxRestarts = 0` |
| `SentOnce` | `OnceOnStartups` | `Lag = FALSE` |
| `LockWorks` | `[](TypeOK /\ OneInstance /\ PingsItsSim)` of `SimIdle` | `Apart` |
| `OneAtATime` | `[]SwitchesAlone` | `Apart`, `~Crashes` |

None of the hypotheses is a convenience: each one excludes a case in which the
code does otherwise. `ql-tty2tcp` tells an open descriptor from none by `> 0`, so
without standard input (`0 \in Std`) it would leave a descriptor 0 open; and a ring
whose size is no power of two loses and repeats bytes (`PowersOfTwo`, the finding of
`tty2tcp_odd_size`). Under "Observations" are ids from a counter and a clock that
is set back (`Sized`, `MaxBack`), a free address that is given out with
`uamanyip` (`Anyip`), a second address of the hotspot and a broadcast address that get
into the pool (`OneListen`, `EndInside`), a time-out that gives an address to a record
which was freed (`NoRadAllow`), a rejection that stops the traffic of a session which
stays authenticated (`Macauth`), instances of SIM idle protection that start
together (`Apart`) or die in the middle (`Crashes`), a list of several hosts
(`Words`) and a power cut between delete and commit (`MaxCuts`). With `forcedelay`
0 the script leaves a reboot that hangs to itself, and a backup of which a command
fails writes no archive, so that there is nothing to put back (`"backup"` in `Fails`). Two client
ids of which only the first is missing free one answer twice (`DualIp`, `IdsFail`), a
request for the card that fails leaves the status of the card as it was (`Reliable`),
name servers that are behind have an address sent twice (`Lag`), and a bridge daemon
that is started anew does not know the rule of the one before it (`MaxRestarts`).

The reception ring has to go into the range of the counters a whole number of times
(`SizeDivides`). The default of 128 descriptors goes into 2^32; `ethtool` may set another
size, and at one that is no power of two driver and device are out of step once a
counter wraps: TLC shows this for `Size` 3 and `Wrap` 8. The default of 48 transmit
descriptors is such a size. For it `NoneLost`, read with a `Wrap` that is a greater
multiple of 48, covers every behaviour up to the first wrap of a counter, which is
2^32 descriptors; what happens then is under "Observations". There too are the other
cases that `NoneLost` excludes: a ring below `ring_min` (`HasRoom`; from `ring_min` on
its second part holds by itself, as a packet has one segment or two) and a link change
that leaves the ring (`ChangesReset`). While the restart work is done the poll may wake the queue between the clearing of the descriptors and the end of the
restart (`Restarts`).

### QmiTransaction

Any set of clients, any id ranges and lags, any queue size, any number of
requests, signals and indications. The inductive invariant `IInv` has these parts:

- `LockInv`: which program counters hold the mutex;
- `SlotInv`: the request in the sender's hands is the newest; what is registered
  in `s_pRequest` at each point of the sender, a waiter's own request included;
- `HeapInv`: what is registered or about to be written is allocated;
- `FdInv`: the QMI thread leaves with the descriptor closed, so a sender that
  checks afterwards does not wait;
- `FlightInv`: every request pending at the modem and every reply on the wire
  or in the QMI thread's hand is less than `MaxLag` requests old, and its id
  counter has since moved on by at most as many steps, and by at least one if
  the request in progress draws from the same counter. This is what makes the
  others inductive: a counter that moved on by at least one and by less than a
  round cannot show the same id, so equal ids mean the same request;
- `AnswerInv`: a reply in `s_pResponse` or returned is that of the current
  request.

### QConnMan

- `LoopInv`: the types that `TypeOK` leaves open, and what the poll loop is about
  to read is there: a queue that was found ready is not empty, and no more
  requests are cancelled than signals came;
- `LinkInv`: DHCP runs only on a link that is up and for the address that main
  has, also between the steps of `usbnet_link_change`, and the link is down while
  there is no modem;
- `GoneInv`: a modem that is unplugged is announced once, and is not opened again
  before main has read that;
- `CallInv`: a modem that is not open has no call. As long as no request was lost
  main has all client ids from start-up to the way out, and when that of IPv4 is released
  the modem ends its call, also one that no handle names. `CleanExit` rests on it. For
  IPv6 it says only that without dual stack there is no call.

### ChilliRadius

- `Typed`: time-outs stay in the range that the clock, set back by `backs`
  seconds so far, allows;
- `ListInv`: there are a length `k` and an injection `at` of `1 .. k` into the slots
  such that the links of the table are those of `at[1]`, ..., `at[k]`, the slots in use
  are its range, and, when the clock is not set back, the time-outs are in
  its order. The lemmas show what `Unlink` and `LinkLast` do to the table cell by
  cell (`UnlinkCells`, `LinkLastCells`), and that this is the list without one
  member or with one more (`ListWithout`, `ListWith`, `HoldsWithout`, `HoldsWith`,
  `SortedWithout`, `SortedWith`). A new time-out is the largest, which is why
  adding at the end keeps the order; after the clock was set back it is not;
- `SlotInv`: slots in use and waiting requests correspond one to one, and the packet
  in a slot has the id and the number of its request;
- `SentInv`: which servers a request was sent to, by its retransmission count.

`ListOK` speaks of the slots that links lead to from `first` (the recursive
function `Nth`). `NthIs` computes it from `at`: the function that lists `at` satisfies
the recursive equation, so the equation has a solution, and a least index at which
`Nth` differs from it does not exist. `ListFits` bounds the length by the pigeonhole
principle. `Scan` says what the scans of the table return.

### ChilliPool

Any numbers of members, clients and buckets, any addresses, both options.

- `Linked` is a list that is linked both ways, with the list itself (a length and a
  numbering of the members) behind a quantifier. `Appended`, `Unlinked` and `SameLinks`
  say what can be done to one, `Ends` what its ends are, and `WayExists`, `Reaches`
  that following the links, as `Nth` and `ListOf` do, goes through all of it.
  The free lists and the hash chains are such lists; a chain has no links back, so that
  those are in the quantifier too.
- `FreeSound`: one list for the free dynamic members and one for the free static ones;
  a member in use has no successor, which is what lets `GiveBack` leave `next` alone.
- `HashSound`: `Chains` gives each bucket a list of its own, of exactly the members
  that hash there; a static member that is not hashed leads nowhere (without this
  `HashAdd` would tie the rest of an old chain to the new one), dynamic members have
  the address of their number, and hashed addresses differ.
- `HashAddIs`, `HashDelIs`, `TakeCells`, `GiveBackCells` say what the four ways
  of splicing do, `NewipIs`, `FreeIs` and `DisconnectedIs` what the operations leave of
  a sound pool. `NewIs` finds the solution of the recursion that `ippool_new` is, and
  `FillOne` goes through it.
- `PoolInv` adds who has what: a member in use is the one of a connection, or the one
  its packets are translated to, and only a connection with an address has the latter.
  For `AddressIsOwn` also `Owns`: a connection's member is in use, names it as its
  peer, and has the address its client was given.

- `StartAtIs` solves the other recursion of `ippool_new`, the counter `start` that one
  member raises: from the member on that would have had the hotspot's address it is one
  higher, and the size of the pool, computed modulo `UINT32`, leaves room for that
  (`DynsizeIs`, `Wraps`). Any size of the subnet, any start, end and listen address.

### ChilliSession

Any clients, addresses and number of records, any number of requests and messages in
flight and of failing allocations. The handlers are functions from the state of the data
structures to the next one, so that most lemmas say what one of them makes of any state
that is `Good`; actions come at the end.

- `Good` has three parts. `Linked`: a session in use and its DHCP connection point at
  each other and have one client, a record that is not in use is cleared, clients have
  one connection each, and the holder of an address is the one session with that
  address. `FreeList`, for both kinds of records: each at most once in its list, made,
  and not in use. `AllListed`, for sessions: none is lost.
- Handlers that only change how far a client is authenticated keep records, lists and
  addresses as they are (`SameShape`), which is enough (`SameShapeGood`), also when
  the record a late answer names was freed or belongs to another client by then.
- Those that take and free records are followed list by list (`Taken`, `TakenList`,
  `Given`) and pair by pair (`LinkedGood`, `ConnectGood`, `FreePair`). `ForcedGood`: where an
  address that RADIUS assigned replaces the connection, the two records just freed are
  taken again.
- `AInv` for `PassedAgree`: no request is in flight, and both sides of each client agree.
  `Decides` says that a step is about one client, so that agreement has to be shown for
  that one only (`DecidesAgree`).

### Tty2Tcp

Any width of the indices, any sizes, kinds of ends and number of descriptors.

- Arithmetic first: `2^W` is the recursive function `Two`, and `Recursion` shows
  that such an equation has a solution (by induction on the length of its domain),
  which gives `TwoIs` and `AndBitsIs`. `Mask` then says that for a
  size `2^k` the bitwise and with `2^k - 1` is the remainder, bit by bit
  (`MaskBit`, `NextBit`), and `Moved` that an index that wraps at `2^W` goes
  around the ring undisturbed, because `2^k` divides `2^W` (`ModMod`). `Counted`
  is the technique of the code's comment: the difference of the two wrapping
  indices follows every move of either.
- `RingInv`: each ring holds the bytes from `given` on, at the places from its out
  offset on, as many as the difference of the indices says. `InEffect`, `OutEffect`,
  `ResetEffect` and `ChunkIs` say what the operations of `__kfifo` and the copy into
  `pwrap` do to it, in all positions of the two indices; `ReadEffect` uses the
  first of them twice, for the second read at the beginning of the ring.
- `FdOK`: the descriptors of the session, those of the servers, the lost ones
  and those from the start are open and pairwise different, and an end
  that is yet to be opened has none. `FdsKnown`: nothing else is open.

The refinement maps `Read` to `Take` of all bytes of both reads, `Write` to `Give`,
every end of a session to `Drop`, and everything else to a stutter.

### Ag71xxRx, Ag71xxTx

- The invariant `RingInv` speaks of `Window(i, d, n)`: slot `i` is one of the `n` from the
  counter `d` on. `Buffers` says which slots have a buffer, those that are not in the
  window of the packets taken and not yet refilled, and `Received(k)` that the device is
  `k` slots ahead of the driver and which descriptors it has handed over. The lemmas
  `WindowGrows` and `WindowShrinks` say what one packet and one refill do to
  a window; they rest on `SlotIs`, `SlotsDiffer` and `SlotNext`, that a counter
  which wraps stays in step with the ring. `RingsAgree` follows for
  any number of failed allocations and link changes.
- `ResetInv`: from the moment when `fast_reset` has stopped the engine until it starts
  again no packet is being added. `CompletedAreSent` says that `ag71xx_tx_packets` frees
  what the device has sent: the last packet of those that are completed is
  the greatest of a bounded set (`Greatest`).
- `TxInv` numbers the descriptors from `dirty` on (`At(j)`; `AtDiffer` and `AtAll`: one
  round of them is the ring). For some `k` the first `k` are sent and the device is
  at the next one; those from there up to `curr` are handed over; behind `curr` is
  the packet in work, all but its first descriptor already without the empty flag,
  which is why its first one is written last; and the skb of a packet is with its
  last descriptor. The queue is stopped or the greatest packet fits in. That the last
  part survives `netif_wake_queue` at three quarters is where `HasRoom` is needed.
  A completion moves all positions down by what it freed (`TxPoll`), a packet that
  is done moves `curr` over it (`TxDone`).

### QStartup

`AnswerInv` follows the variable `pResponse` that the requests of `requestSetEthMode`
share: when a service is asked that may have no client id, no earlier answer is left
in it. `PinInv`: the status of the card was read before the PIN is due; `StatusTells`:
an answer tells a locked card from any other.

### The scripts


- `SimIdle`: `LockInv` (the lock file holds the pid of the instance at work, and
  one that waits has read it), `SimInv`, and for `OneAtATime` `FlagInv` and `PutBackInv`
  (what the instance at work has changed so far). Any number of instances.
- `Mwan3`: `TurnInv` (handlers work in the order of the queue, one at a time),
  `TableInv` (between two handlers the tables agree; the oldest handler has
  done exactly the changes up to its place), `PidInv` (a running tracker is the one
  in the pid file of its interface, and a pid file names a running tracker of its
  interface).
  Any finite set of interfaces, any number of trackers and events.
- `Mwan3Policy`: `FoldIs` unrolls the loop over the members into steps of
  `mwan3_set_policy` from left to right. `LowestOf` says what the chain is after each of
  them: rules for the active members of the lowest metric so far, or the one that makes
  the policy unreachable while there are none; `LowestStep` keeps it. Any
  number of members, in any order, with metrics and weights as the configuration allows
  them.
- `Watchcat`: relations between the ages of the last reading of the clock, of the
  last answer and of the last change of the connection at each place of the
  loop; linear arithmetic, for every setting of the times.
- `KeepSettings`: `FlashInv` (when an archive is in flash, and when files of `/etc` are
  missing), `Kept` (in which of configuration, archive and flash the chosen settings
  are, and with which start-up files a router runs), `Interface` and `Follows` (where
  the interface of wan comes from, with power cuts and without).
- `BridgeDaemon`: `RuleInv`, no rule until the second loop ends and at most that of
  `old_mac` afterwards.
- `DdnsUpdater`: `SendInv`, a process that has not slept yet has looked up the address
  that was accepted, and goes on to send only another one or one that is due.

### Only model-checked

- All liveness, which is out of the proof system's reach: `ImplementsCall`'s and
  `CallbackOnce`'s fairness part, `UnplugEnds`, `StartsUp`, `Served`, `LinkFollowsCall`,
  `SignalEnds`, `NoStall`, `QuitEnds`, `TxGoesOn`, `RxGoesOn`, `EveryoneRuns`,
  `BridgeFollows`, `FailsOver`, `Registered`.
- `SharesByWeight`, the second half of `PolicyOK`. Each probability is rounded down to a
  thousandth, and what is left for the next rule is the product of them, so that the
  deviation grows with the number of members of one metric: next to a member of weight
  1000 three of weight 1 are 2.992 thousandths off, and four of them 3.985. The few
  thousandths hold for the policies of the run and not for all constants.
- The transmission ring in the two cases that the theorems exclude: a link change that
  leaves the ring, which the instance `split` checks at a size at which it does no harm,
  and the restart work, which breaks `StoppedBeforeClear` (`ag71xx_main.c:893`) and of
  which the instance `restart` checks the types and that it ends.

## Not modelled

- `GobiNetCM.c`: the same transactions over `/dev/qcqmi`; the image uses
  `qmi_wwan`. QMAP multiplexing and the message codec of quectel-CM.
- `qmi2.sh`: starts and stops quectel-CM through AT commands and netifd; its
  expectation of quectel-CM is `Served`.
- `load_balancing`: an older copy of the mwan3 handler without trackers; its turn
  taking and its policies are those of `Mwan3` and `Mwan3Policy`.
- ping and wget reboot, modem checks: counters in `/tmp` around commands of
  `gsmctl`, which is shipped as a binary; what can go wrong depends on it.
- coova-chilli's RADIUS proxy, EAPOL and WPA, CoA, redirection pages, DNS
  filtering, and its option parser.
- What `fw_validate.sh`, `sysupgrade` and `lib/upgrade` look for in an image, and its
  flashing: `KeepSettings` has the outcome of the check and no half written firmware,
  which the boot loader recovers like a router without start-up files.
- LuCI: forms over `uci`. Binaries, the kernel, the boot loader, the build
  system, net-snmp, firmware updaters and other upstream packages: the bulk of the
  repository's lines, and none of this product's logic. They are why the modelled
  share of all lines is small.

## Plan

What is left to prove would be a bound on the deviation of `SharesByWeight` in the number
of members, as said under "Only model-checked".
