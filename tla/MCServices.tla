----------------------------- MODULE MCServices -----------------------------
(***************************************************************************)
(* The scripts that look after the connections and the settings,           *)
(* instantiated for TLC.  A behaviour is one of a single script: part says *)
(* of which instance, no step changes it, and the variables of the other   *)
(* scripts stay as they are at the start.  The state space is the sum of   *)
(* theirs.  Mwan3 is extended, so that its TablesOK is checked as it is.   *)
(***************************************************************************)
EXTENDS Mwan3

VARIABLES
  part,
  simPc, lock, v, hung, foreign, sim, conf, killed,
  bridgePc, old_ip, old_mac, IP, mac, addr, lease, served, rules, had, moved, flushed, restarted,
  members, active, policyChain,
  ddnsPc, LOCAL_IP, REGISTERED_IP, ERR_UPDATE, CNT, young, age, ip, provider, dns, acked, orphans,
  changes, starts,
  catPc, lastcheck, withinternet, sent, delay, hangs, online, since, well,
  keepPc, etc, ppp, wan, staged, flash, archive, chosen, edits, upgrades, cuts

simVars    == <<simPc, lock, v, hung, foreign, sim, conf, killed>>
bridgeVars == <<bridgePc, old_ip, old_mac, IP, mac, addr, lease, served, rules, had, moved,
                flushed, restarted>>
policyVars == <<members, active, policyChain>>
ddnsVars   == <<ddnsPc, LOCAL_IP, REGISTERED_IP, ERR_UPDATE, CNT, young, age, ip, provider, dns,
                acked, orphans, changes, starts>>
catVars    == <<catPc, lastcheck, withinternet, sent, delay, hangs, online, since, well>>
keepVars   == <<keepPc, etc, ppp, wan, staged, flash, archive, chosen, edits, upgrades, cuts>>
allVars == <<part, simVars, bridgeVars, vars, policyVars, ddnsVars, catVars, keepVars>>

---------------------------------------------------------------------------
(* Instances *)

\* One instance for each SIM card; instances hang.
Sim == INSTANCE SimIdle WITH
  Procs <- {1, 2}, SimOf <- <<"sim1", "sim2">>, MaxWait <- 2, Apart <- TRUE, Crashes <- FALSE,
  pc <- simPc
\* They are killed too, and their pids are used again.
SimCrash == INSTANCE SimIdle WITH
  Procs <- {1, 2}, SimOf <- <<"sim1", "sim2">>, MaxWait <- 1, Apart <- TRUE, Crashes <- TRUE,
  pc <- simPc

\* The address and the client change, the rules are flushed.
Bridge == INSTANCE BridgeDaemon WITH
  Addrs <- {"a", "b", "c"}, Macs <- {"m1", "m2"}, Returns <- FALSE,
  MaxChanges <- 3, MaxFlushes <- 1, MaxRestarts <- 0, pc <- bridgePc
\* ncm.sh starts the script again.
Again == INSTANCE BridgeDaemon WITH
  Addrs <- {"a", "b"}, Macs <- {"m1", "m2"}, Returns <- FALSE,
  MaxChanges <- 2, MaxFlushes <- 1, MaxRestarts <- 1, pc <- bridgePc

\* netifd takes an interface down and up, a handler gives up.
Mwan == INSTANCE Mwan3 WITH MaxFlips <- 0
\* Hosts get lost and found.
Hosts == INSTANCE Mwan3 WITH MaxEvents <- 0, MaxAborts <- 0
Policy == INSTANCE Mwan3Policy WITH
  Ifaces <- {"wan", "wan2", "wan3"}, Metrics <- {1, 2}, Weights <- {1, 3, 7},
  chain <- policyChain

\* Endless retry; name servers take their time.
Ddns == INSTANCE DdnsUpdater WITH
  Addrs <- {"a", "b"}, Named <- {"a", "b"}, FORCE <- 2, retry_count <- 0, Lag <- TRUE,
  MaxChanges <- 2, MaxStarts <- 2, pc <- ddnsPc
\* A name that is new, and an updater that gives up.
Limited == INSTANCE DdnsUpdater WITH
  Addrs <- {"a", "b"}, Named <- {""}, FORCE <- 2, retry_count <- 2, Lag <- FALSE,
  MaxChanges <- 2, MaxStarts <- 3, pc <- ddnsPc

Cat == INSTANCE Watchcat WITH
  period <- 9, pingperiod <- 2, forcedelay <- 1, Words <- 1, PingTime <- 2, pc <- catPc

\* The power is cut anywhere, sysupgrade gives up.
Keep == INSTANCE KeepSettings WITH
  Settings <- {"a", "b", "c"}, Fails <- {"image"}, MaxChanges <- 3, MaxUpgrades <- 2, MaxCuts <- 3,
  pc <- keepPc, changes <- edits
\* Commands of the backup fail too.
KeepFail == INSTANCE KeepSettings WITH
  Settings <- {"a", "b", "c"}, Fails <- {"backup", "image"}, MaxChanges <- 3, MaxUpgrades <- 2, MaxCuts <- 0,
  pc <- keepPc, changes <- edits

ASSUME Sim!ConstAssumption /\ SimCrash!ConstAssumption
ASSUME Bridge!ConstAssumption /\ Again!ConstAssumption
ASSUME Mwan!ConstAssumption /\ Hosts!ConstAssumption /\ Policy!ConstAssumption
ASSUME Ddns!ConstAssumption /\ Limited!ConstAssumption /\ Cat!ConstAssumption
ASSUME Keep!ConstAssumption /\ KeepFail!ConstAssumption

Parts == {"sim", "simCrash", "bridge", "again", "mwan", "hosts", "policy", "ddns", "limited",
          "cat", "keep", "keepFail"}

\* Where a component has several initial states the behaviours of the others take one.
AllInit ==
  /\ part \in Parts
  /\ Sim!Init /\ Bridge!Init
  /\ Init /\ (part \notin {"mwan", "hosts"} => q[1].iface = "wan")
  /\ IF part = "policy" THEN Policy!Init
     ELSE members = <<>> /\ active = {} /\ policyChain = <<>>
  /\ IF part = "limited" THEN Limited!Init ELSE Ddns!Init
  /\ part # "ddns" => ip = "a" /\ provider \in {"a", ""}
  /\ Cat!Init /\ (part # "cat" => ~hangs /\ online)
  /\ Keep!Init /\ (part \notin {"keep", "keepFail"} => ppp = "a")

SimNext    == \/ part = "sim" /\ Sim!Next
              \/ part = "simCrash" /\ SimCrash!Next
BridgeNext == \/ part = "bridge" /\ Bridge!Next
              \/ part = "again" /\ Again!Next
MwanNext   == \/ part = "mwan" /\ Mwan!Next
              \/ part = "hosts" /\ Hosts!Next
DdnsNext   == \/ part = "ddns" /\ Ddns!Next
              \/ part = "limited" /\ Limited!Next
KeepNext   == \/ part = "keep" /\ Keep!Next
              \/ part = "keepFail" /\ KeepFail!Next

AllNext ==
  /\ UNCHANGED part
  /\ \/ SimNext
        /\ UNCHANGED <<bridgeVars, vars, policyVars, ddnsVars, catVars, keepVars>>
     \/ BridgeNext
        /\ UNCHANGED <<simVars, vars, policyVars, ddnsVars, catVars, keepVars>>
     \/ MwanNext
        /\ UNCHANGED <<simVars, bridgeVars, policyVars, ddnsVars, catVars, keepVars>>
     \/ part = "policy" /\ Policy!Next
        /\ UNCHANGED <<simVars, bridgeVars, vars, ddnsVars, catVars, keepVars>>
     \/ DdnsNext
        /\ UNCHANGED <<simVars, bridgeVars, vars, policyVars, catVars, keepVars>>
     \/ part = "cat" /\ Cat!Next
        /\ UNCHANGED <<simVars, bridgeVars, vars, policyVars, ddnsVars, keepVars>>
     \/ KeepNext
        /\ UNCHANGED <<simVars, bridgeVars, vars, policyVars, ddnsVars, catVars>>

\* Processes that do not hang go on.  Name servers take over what the provider has;
\* lookups, transfers and updates do not fail for ever.
Fairness ==
  /\ \A p \in {1, 2} : WF_simVars(part = "simCrash" /\ SimCrash!Step(p))
  /\ WF_bridgeVars(part = "bridge" /\ Bridge!Daemon)
  /\ WF_bridgeVars(part = "again" /\ Again!Daemon)
  /\ WF_vars(part = "hosts" /\ Hosts!HandlerStep)
  /\ \A t \in 1 .. 4 : WF_vars(part = "hosts" /\ Hosts!TrackerStep(t))
  /\ WF_ddnsVars(part = "ddns" /\ Ddns!Works)
  /\ WF_ddnsVars(part = "ddns" /\ Ddns!Propagate)
  /\ SF_ddnsVars(part = "ddns" /\ Ddns!LookupAgain)
  /\ SF_ddnsVars(part = "ddns" /\ Ddns!get_local_ip)
  /\ SF_ddnsVars(part = "ddns" /\ Ddns!send_update)
  /\ SF_ddnsVars(part = "ddns" /\ Ddns!Check)

AllSpec == AllInit /\ [][AllNext]_allVars /\ Fairness

---------------------------------------------------------------------------
(* Properties: those of the components, beside TablesOK of Mwan3 *)

\* The lock file of sim_idle_protection.sh lets one instance at a time switch the SIM;
\* it pings over its own card, and configuration and card end up as they were.
SwitchesAlone == /\ part = "sim" => Sim!SwitchesAlone
                 /\ part = "simCrash" => SimCrash!TypeOK

\* An instance gets to work also when the one that has the lock hangs or is gone.
EveryoneRuns == part = "simCrash" => SimCrash!EveryoneRuns

\* bridge_daemon.sh: dnsmasq ends up with the address that the modem ends up with, the
\* client ends up with a rule, also after a flush and a restart of the script, and no
\* rule of a former client is left.
BridgeFollows ==
  /\ [](part = "bridge" => Bridge!TypeOK /\ Bridge!OneRule)
  /\ part = "bridge" => Bridge!FollowsIp
  /\ part = "again" => Again!FollowsIp /\ Again!FollowsMac

\* An interface whose hosts answer ends up in the policies, one whose hosts are lost
\* ends up out of them.
FailsOver == part = "hosts" => Hosts!Failover

\* mwan3_set_policies_iptables makes a chain of the active members of lowest metric,
\* with probabilities that share the traffic by weight.
PolicyOK == part = "policy" => Policy!PolicyOK

\* The name ends up at the address that the router ends up with, an update is sent every
\* FORCE_SECONDS, the lookup after an update ends, and a new process sends an address that
\* was accepted last only if an update is due.
Registered ==
  /\ [](part = "limited" => Limited!TypeOK)
  /\ [][part = "limited" /\ ddnsPc = "send" /\ ddnsPc' = "save" /\ young
          => (acked = LOCAL_IP => Limited!Due)]_allVars
  /\ part = "ddns" => Ddns!Registered /\ Ddns!Forced /\ Ddns!CheckEnds

\* watchcat.sh resets a router that has no connection in time, also when reboot hangs,
\* and not one whose connection held a round of its loop within the period.
ResetsOnTime == part = "cat" => Cat!ResetsOnTime

\* The settings that the user chose are in flash or back in force, wherever the power
\* was cut, also on a router that had to be recovered, and no archive is left for a later
\* boot; when commands fail that still holds of the archive, and network.wan uses the
\* interface of the settings that are in force.
SettingsRestored == /\ part = "keep" => Keep!SettingsRestored
                    /\ part = "keepFail" => KeepFail!NothingLeft /\ KeepFail!WanFollows
=============================================================================
