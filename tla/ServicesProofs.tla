---------------------------- MODULE ServicesProofs ----------------------------
(***************************************************************************)
(* Theorems about seven scripts, each from its own specification and for   *)
(* every value of its constants: Watchcat, KeepSettings, BridgeDaemon,     *)
(* DdnsUpdater, SimIdle, Mwan3Policy and Mwan3, which is extended.         *)
(***************************************************************************)
EXTENDS Mwan3, FiniteSetTheorems, WellFoundedInduction, TLAPS

CONSTANTS
  period, pingperiod, forcedelay, Words, PingTime,
  Settings, Fails, MaxChanges, MaxUpgrades, MaxCuts,
  Addrs, Macs, Returns, MaxFlushes, MaxRestarts,
  Named, FORCE, retry_count, Lag, MaxStarts,
  Procs, SimOf, MaxWait, Apart, Crashes,
  Metrics, Weights

VARIABLES
  catPc, lastcheck, withinternet, sent, delay, hangs, online, since, well,
  keepPc, etc, ppp, wan, staged, flash, archive, chosen, edits, upgrades, cuts,
  bridgePc, old_ip, old_mac, IP, mac, addr, lease, served, rules, had, moved, flushed,
      restarted,
  ddnsPc, LOCAL_IP, REGISTERED_IP, ERR_UPDATE, CNT, young, age, ip, provider, dns, acked,
      orphans,
  changes, starts,
  simPc, lock, v, hung, foreign, sim, conf, killed,
  members, active, policyChain

Cat == INSTANCE Watchcat WITH pc <- catPc
Keep == INSTANCE KeepSettings WITH pc <- keepPc, changes <- edits
Bridge == INSTANCE BridgeDaemon WITH pc <- bridgePc
Ddns == INSTANCE DdnsUpdater WITH pc <- ddnsPc
Idle == INSTANCE SimIdle WITH pc <- simPc
Policy == INSTANCE Mwan3Policy WITH chain <- policyChain

---------------------------------------------------------------------------
(* watchcat.sh: abbreviations *)

\* The longest time from one reading of the clock in the loop to the next.
Round == Cat!Larger(pingperiod, PingTime)

\* What load_watchcat has checked, one by one.
LEMMA Constants ==
  ASSUME Cat!ConstAssumption
  PROVE  /\ period \in Nat /\ pingperiod \in Nat /\ forcedelay \in Nat
         /\ PingTime \in Nat /\ Round \in Nat
         /\ 0 < period /\ 0 < pingperiod /\ 0 < PingTime
         /\ pingperiod <= Round /\ PingTime <= Round
         /\ Cat!Held = Round + PingTime + 1
         /\ Cat!Cap = period + (Cat!Held + Cat!Held) + forcedelay /\ Cat!Cap \in Nat
BY DEF Cat!ConstAssumption, Round, Cat!Larger, Cat!Held, Cat!Cap

---------------------------------------------------------------------------
(* watchcat.sh: the inductive invariant *)

\* How old the reading of the clock is.
ClockInv ==
  /\ catPc \in {"ping", "decide", "reboot"} => lastcheck <= PingTime
  /\ catPc = "loop" => lastcheck <= Round
  /\ catPc = "reboot" => Cat!Reached

\* A connection that was there when the ping was sent, and since then, has the
\* ping answered; before the next one is sent that is at most a round ago.
AnswerInv ==
  /\ catPc = "ping" /\ online /\ lastcheck < since => sent
  /\ catPc = "ping" /\ online /\ Round + lastcheck < since => withinternet <= Round + lastcheck
  /\ catPc \in {"loop", "decide", "reboot"} /\ online /\ lastcheck < since
       => withinternet = lastcheck

\* Since the connection last held for a round, a ping was answered at most so
\* long ago as it takes to send one and wait for it.
WellInv == catPc \notin {"force", "down"} => withinternet < well + Cat!Held

EarlyInv == AnswerInv /\ WellInv

\* A ping is only answered while there is a connection.
LostInv == ~online => since <= withinternet

\* reboot ends or is forced.
Resets == hangs => 0 < forcedelay

\* The loop goes on only while the last answer is younger than the period.
LateInv ==
  Resets =>
    /\ catPc = "loop" => withinternet - lastcheck < period
    /\ catPc \in {"ping", "decide", "reboot"} => withinternet - lastcheck < period + Round
    /\ catPc = "force" => withinternet < period + Round + PingTime + delay

\* TypeOK, variable by variable.
Typed ==
  /\ catPc \in {"loop", "ping", "decide", "reboot", "force", "down"}
  /\ lastcheck \in 0..Cat!Cap /\ withinternet \in 0..Cat!Cap
  /\ since \in 0..Cat!Cap /\ well \in 0..Cat!Cap
  /\ delay \in 0..forcedelay
  /\ sent \in BOOLEAN /\ hangs \in BOOLEAN /\ online \in BOOLEAN
  /\ lastcheck <= withinternet

\* The variables have their types.
LEMMA TypedTypes == Cat!TypeOK <=> Typed
BY DEF Cat!TypeOK, Typed

\* It holds when the script starts.
LEMMA CatStart == ASSUME Cat!ConstAssumption, Cat!Init
               PROVE  Typed /\ ClockInv /\ EarlyInv /\ LostInv /\ LateInv
<1>1. /\ catPc = "loop" /\ lastcheck = 0 /\ withinternet = 0 /\ since = 0 /\ well = 0 /\ delay = 0
      /\ sent \in BOOLEAN /\ hangs \in BOOLEAN /\ online \in BOOLEAN
  BY DEF Cat!Init
<1> QED BY <1>1, Constants
        DEF Typed, ClockInv, EarlyInv, AnswerInv, WellInv, LostInv, LateInv

---------------------------------------------------------------------------
(* watchcat.sh: each step preserves it *)

\* The types and the reading of the clock.
LEMMA TypeStep == ASSUME Cat!ConstAssumption, Typed, ClockInv, [Cat!Next]_Cat!vars
                  PROVE  Typed' /\ ClockInv'
<1> USE Constants DEF Typed, ClockInv, Cat!Reached
<1>1. CASE Cat!SendPing BY <1>1 DEF Cat!SendPing, Cat!Slept
<1>2. CASE Cat!Answered BY <1>2 DEF Cat!Answered
<1>3. CASE Cat!NoAnswer BY <1>3 DEF Cat!NoAnswer
<1>4. CASE Cat!Decide BY <1>4 DEF Cat!Decide
<1>5. CASE Cat!shutdown_now BY <1>5 DEF Cat!shutdown_now
<1>6. CASE Cat!ForceReboot BY <1>6 DEF Cat!ForceReboot
<1>7. CASE Cat!Connection BY <1>7 DEF Cat!Connection
<1>8. CASE Cat!Second BY <1>8 DEF Cat!Second, Cat!Slept, Cat!Aged
<1>9. CASE UNCHANGED Cat!vars BY <1>9 DEF Cat!vars
<1> QED BY <1>1, <1>2, <1>3, <1>4, <1>5, <1>6, <1>7, <1>8, <1>9 DEF Cat!Next

\* What keeps the router from a reset that is too early.
LEMMA EarlyStep == ASSUME Cat!ConstAssumption, Words = 1, Typed, ClockInv, EarlyInv,
                          [Cat!Next]_Cat!vars
                   PROVE  EarlyInv'
<1> USE Constants DEF Typed, ClockInv, EarlyInv, AnswerInv, WellInv, Cat!Reached
<1>1. CASE Cat!SendPing BY <1>1 DEF Cat!SendPing, Cat!Slept
<1>2. CASE Cat!Answered BY <1>2 DEF Cat!Answered
<1>3. CASE Cat!NoAnswer BY <1>3 DEF Cat!NoAnswer
<1>4. CASE Cat!Decide BY <1>4 DEF Cat!Decide
<1>5. CASE Cat!shutdown_now BY <1>5 DEF Cat!shutdown_now
<1>6. CASE Cat!ForceReboot BY <1>6 DEF Cat!ForceReboot
<1>7. CASE Cat!Connection BY <1>7 DEF Cat!Connection
<1>8. CASE Cat!Second
  <2>1. AnswerInv' BY <1>8 DEF Cat!Second, Cat!Slept, Cat!Aged
  <2>2. WellInv' BY <1>8, <2>1 DEF Cat!Second, Cat!Slept, Cat!Aged
  <2> QED BY <2>1, <2>2
<1>9. CASE UNCHANGED Cat!vars BY <1>9 DEF Cat!vars
<1> QED BY <1>1, <1>2, <1>3, <1>4, <1>5, <1>6, <1>7, <1>8, <1>9 DEF Cat!Next

\* What keeps the router from running on for too long.
LEMMA LateStep == ASSUME Cat!ConstAssumption, Typed, ClockInv, LostInv, LateInv,
                         [Cat!Next]_Cat!vars
                  PROVE  LostInv' /\ LateInv'
<1> USE Constants DEF Typed, ClockInv, LostInv, LateInv, Resets, Cat!Reached
<1>1. CASE Cat!SendPing BY <1>1 DEF Cat!SendPing, Cat!Slept
<1>2. CASE Cat!Answered BY <1>2 DEF Cat!Answered
<1>3. CASE Cat!NoAnswer BY <1>3 DEF Cat!NoAnswer
<1>4. CASE Cat!Decide BY <1>4 DEF Cat!Decide
<1>5. CASE Cat!shutdown_now BY <1>5 DEF Cat!shutdown_now
<1>6. CASE Cat!ForceReboot BY <1>6 DEF Cat!ForceReboot
<1>7. CASE Cat!Connection BY <1>7 DEF Cat!Connection
<1>8. CASE Cat!Second BY <1>8 DEF Cat!Second, Cat!Slept, Cat!Aged
<1>9. CASE UNCHANGED Cat!vars BY <1>9 DEF Cat!vars
<1> QED BY <1>1, <1>2, <1>3, <1>4, <1>5, <1>6, <1>7, <1>8, <1>9 DEF Cat!Next

---------------------------------------------------------------------------
(* watchcat.sh: the theorems *)

\* "Reseting when reaching $period": with one address to ping, a reset is never due to
\* less than the period without a connection, but for the time between two pings.
THEOREM NotTooEarly == ASSUME Cat!ConstAssumption, Words = 1
                       PROVE  Cat!Spec => []Cat!NotWhileConnected
<1> DEFINE I == Typed /\ ClockInv /\ EarlyInv
<1>1. Cat!Init => I  BY CatStart
<1>2. I /\ [Cat!Next]_Cat!vars => I'  BY TypeStep, EarlyStep
<1>3. I => Cat!NotWhileConnected
  BY Constants DEF Typed, ClockInv, EarlyInv, WellInv, Cat!Reached, Cat!NotWhileConnected
<1> QED BY <1>1, <1>2, <1>3, PTL DEF Cat!Spec

\* A connection that is lost for good has the router reset within the period, one
\* round of the loop and the forced delay, however many addresses are to be pinged,
\* unless reboot hangs and no forced delay is configured.
THEOREM NotTooLate == ASSUME Cat!ConstAssumption
                      PROVE  Cat!Spec => [](Resets => Cat!ResetInTime)
<1> DEFINE I == Typed /\ ClockInv /\ LostInv /\ LateInv
<1>1. Cat!Init => I  BY CatStart
<1>2. I /\ [Cat!Next]_Cat!vars => I'  BY TypeStep, LateStep
<1>3. I => (Resets => Cat!ResetInTime)
  BY Constants DEF Typed, ClockInv, LostInv, LateInv, Round, Cat!ResetInTime
<1> QED BY <1>1, <1>2, <1>3, PTL DEF Cat!Spec

\* watchcat.sh with one address and a forced delay resets the router neither too early
\* nor too late, also when reboot hangs.
THEOREM OnTime == ASSUME Cat!ConstAssumption, Words = 1, forcedelay # 0
                  PROVE  Cat!Spec => []Cat!ResetsOnTime
<1> DEFINE I == Typed /\ ClockInv
<1>1. Cat!Init => I  BY CatStart
<1>2. I /\ [Cat!Next]_Cat!vars => I'  BY TypeStep
<1>3. I => Cat!TypeOK /\ Resets  BY Constants, TypedTypes DEF Resets
<1>4. Cat!TypeOK /\ Resets /\ Cat!NotWhileConnected /\ (Resets => Cat!ResetInTime)
        => Cat!ResetsOnTime
  BY DEF Cat!ResetsOnTime
<1> QED BY <1>1, <1>2, <1>3, <1>4, NotTooEarly, NotTooLate, PTL DEF Cat!Spec

---------------------------------------------------------------------------
(* keep_mobile: the inductive invariant *)

\* No archive is in flash while a router that is whole runs, nor after delete; one that
\* is to be written is there.  Only a router whose /etc was emptied is without network.
FlashInv ==
  /\ keepPc \in {"run", "size", "data"} /\ etc = Keep!Startup /\ ppp # Keep!None
       => flash = Keep!Blank \/ (keepPc = "data" /\ flash = archive)
  /\ keepPc = "commit" => flash = Keep!Blank
  /\ keepPc \in {"size", "data"} => archive # Keep!None
  /\ keepPc \in {"delete", "commit"} => staged # Keep!None
  /\ keepPc \in {"size", "data", "leave", "wan", "delete", "commit"} => ppp # Keep!None
  /\ keepPc = "upgrade" => etc = {} /\ ppp = Keep!None
  /\ keepPc \in {"restore", "wan", "delete", "commit"} => etc = Keep!Startup

Safe == Keep!TypeOK /\ FlashInv

\* Where the settings that the user chose are, when no command of backup fails: in
\* /etc/config until leave_config_new.sh removes it, in flash before that and until
\* they are back in /etc/config.  Files of /etc are missing only where the settings are
\* those that were chosen, or gone with them.
Kept ==
  /\ keepPc \in {"size", "data", "leave", "wan", "delete", "commit"} => ppp = chosen
  /\ keepPc \in {"size", "data"} => archive = chosen
  /\ keepPc \in {"leave", "upgrade", "dead", "restore", "wan", "delete"} => flash = chosen
  /\ keepPc = "run" => ppp = chosen \/ (ppp = Keep!None /\ flash = chosen)
  /\ (keepPc = "run" /\ ppp = chosen) \/ keepPc \in {"size", "data"}
       => etc = Keep!Startup \/ etc = {"inittab"}
  /\ keepPc = "restore" => ppp \in {chosen, Keep!None, Keep!Default}
  /\ keepPc = "boot" =>
       \/ flash = chosen /\ ppp \in {chosen, Keep!None}
       \/ flash = chosen /\ ppp = Keep!Default /\ etc = Keep!Startup
       \/ ppp = chosen /\ flash = Keep!Blank /\ etc = Keep!Startup
       \/ ppp = chosen /\ etc = {"inittab"}

\* The interface of network.wan is that of network.ppp or that of the defaults.
Interface ==
  /\ keepPc \notin {"upgrade", "dead"} => wan \in {ppp, Keep!Default}
  /\ keepPc \in {"delete", "commit"} => staged = ppp

\* Where it comes from when the power is not cut.
Follows ==
  /\ cuts = 0
  /\ keepPc \in {"run", "size", "data", "leave", "upgrade", "boot"} => wan = ppp
  /\ keepPc = "boot" => etc = Keep!Startup /\ ppp # Keep!None
  /\ keepPc \in {"delete", "commit"} => staged = ppp
  /\ keepPc # "dead" /\ (keepPc = "restore" => ppp # Keep!None)

---------------------------------------------------------------------------
(* keep_mobile: each step preserves it *)

\* Whatever fails and wherever the power is cut, every storage holds what its kind can
\* hold, and no archive is in flash when a router that is whole runs.
LEMMA SafeStep == ASSUME Keep!ConstAssumption, Safe, [Keep!Next]_Keep!vars
                  PROVE  Safe'
<1> USE DEF Keep!ConstAssumption, Safe, Keep!TypeOK, FlashInv, Keep!Default, Keep!Blank,
        Keep!None, Keep!Startup, Keep!config, Keep!bounds
<1>1. CASE Keep!Change BY <1>1 DEF Keep!Change
<1>2. CASE Keep!Backup BY <1>2 DEF Keep!Backup
<1>3. CASE Keep!WriteSize BY <1>3 DEF Keep!WriteSize
<1>4. CASE Keep!WriteData BY <1>4 DEF Keep!WriteData
<1>5. CASE Keep!DdFails BY <1>5 DEF Keep!DdFails
<1>6. CASE Keep!LeaveConfig BY <1>6 DEF Keep!LeaveConfig
<1>7. CASE Keep!Sysupgrade BY <1>7 DEF Keep!Sysupgrade, Keep!NewFirmware
<1>8. CASE Keep!SysupgradeFails BY <1>8 DEF Keep!SysupgradeFails
<1>9. CASE Keep!DoesNotStart BY <1>9 DEF Keep!DoesNotStart
<1>10. CASE Keep!Check BY <1>10 DEF Keep!Check
<1>11. CASE Keep!NoNetwork BY <1>11 DEF Keep!NoNetwork
<1>12. CASE Keep!Restore BY <1>12 DEF Keep!Restore
<1>13. CASE Keep!SetWan BY <1>13 DEF Keep!SetWan
<1>14. CASE Keep!Delete BY <1>14 DEF Keep!Delete
<1>15. CASE Keep!Commit BY <1>15 DEF Keep!Commit
<1>16. CASE Keep!PowerCut BY <1>16 DEF Keep!PowerCut
<1>17. CASE Keep!Recover BY <1>17 DEF Keep!Recover, Keep!NewFirmware
<1>18. CASE UNCHANGED Keep!vars BY <1>18 DEF Keep!vars
<1> QED BY <1>1, <1>2, <1>3, <1>4, <1>5, <1>6, <1>7, <1>8, <1>9, <1>10, <1>11, <1>12,
           <1>13, <1>14, <1>15, <1>16, <1>17, <1>18 DEF Keep!Next

\* While no command of backup fails, the user's settings are in /etc/config or in flash.
LEMMA KeptStep ==
  ASSUME Keep!ConstAssumption, "backup" \notin Fails, Safe, Kept, [Keep!Next]_Keep!vars
  PROVE  Kept'
<1> USE DEF Keep!ConstAssumption, Safe, Keep!TypeOK, FlashInv, Kept, Keep!Default,
        Keep!Blank, Keep!None, Keep!Startup, Keep!config, Keep!bounds
<1>1. CASE Keep!Change BY <1>1 DEF Keep!Change
<1>2. CASE Keep!Backup BY <1>2 DEF Keep!Backup
<1>3. CASE Keep!WriteSize BY <1>3 DEF Keep!WriteSize
<1>4. CASE Keep!WriteData BY <1>4 DEF Keep!WriteData
<1>5. CASE Keep!DdFails BY <1>5 DEF Keep!DdFails
<1>6. CASE Keep!LeaveConfig BY <1>6 DEF Keep!LeaveConfig
<1>7. CASE Keep!Sysupgrade BY <1>7 DEF Keep!Sysupgrade, Keep!NewFirmware
<1>8. CASE Keep!SysupgradeFails BY <1>8 DEF Keep!SysupgradeFails
<1>9. CASE Keep!DoesNotStart BY <1>9 DEF Keep!DoesNotStart
<1>10. CASE Keep!Check BY <1>10 DEF Keep!Check
<1>11. CASE Keep!NoNetwork BY <1>11 DEF Keep!NoNetwork
<1>12. CASE Keep!Restore BY <1>12 DEF Keep!Restore
<1>13. CASE Keep!SetWan BY <1>13 DEF Keep!SetWan
<1>14. CASE Keep!Delete BY <1>14 DEF Keep!Delete
<1>15. CASE Keep!Commit BY <1>15 DEF Keep!Commit
<1>16. CASE Keep!PowerCut BY <1>16 DEF Keep!PowerCut
<1>17. CASE Keep!Recover BY <1>17 DEF Keep!Recover, Keep!NewFirmware
<1>18. CASE UNCHANGED Keep!vars BY <1>18 DEF Keep!vars
<1> QED BY <1>1, <1>2, <1>3, <1>4, <1>5, <1>6, <1>7, <1>8, <1>9, <1>10, <1>11, <1>12,
           <1>13, <1>14, <1>15, <1>16, <1>17, <1>18 DEF Keep!Next

\* Neither does network.wan get the interface of other settings.
LEMMA InterfaceStep ==
  ASSUME Keep!ConstAssumption, "backup" \notin Fails, Safe, Kept, Interface,
         [Keep!Next]_Keep!vars
  PROVE  Interface'
<1> USE DEF Keep!ConstAssumption, Safe, Keep!TypeOK, FlashInv, Kept, Interface,
        Keep!Default, Keep!Blank, Keep!None, Keep!Startup, Keep!config, Keep!bounds
<1>1. CASE Keep!Change BY <1>1 DEF Keep!Change
<1>2. CASE Keep!Backup BY <1>2 DEF Keep!Backup
<1>3. CASE Keep!WriteSize BY <1>3 DEF Keep!WriteSize
<1>4. CASE Keep!WriteData BY <1>4 DEF Keep!WriteData
<1>5. CASE Keep!DdFails BY <1>5 DEF Keep!DdFails
<1>6. CASE Keep!LeaveConfig BY <1>6 DEF Keep!LeaveConfig
<1>7. CASE Keep!Sysupgrade BY <1>7 DEF Keep!Sysupgrade, Keep!NewFirmware
<1>8. CASE Keep!SysupgradeFails BY <1>8 DEF Keep!SysupgradeFails
<1>9. CASE Keep!DoesNotStart BY <1>9 DEF Keep!DoesNotStart
<1>10. CASE Keep!Check BY <1>10 DEF Keep!Check
<1>11. CASE Keep!NoNetwork BY <1>11 DEF Keep!NoNetwork
<1>12. CASE Keep!Restore BY <1>12 DEF Keep!Restore
<1>13. CASE Keep!SetWan BY <1>13 DEF Keep!SetWan
<1>14. CASE Keep!Delete BY <1>14 DEF Keep!Delete
<1>15. CASE Keep!Commit BY <1>15 DEF Keep!Commit
<1>16. CASE Keep!PowerCut BY <1>16 DEF Keep!PowerCut
<1>17. CASE Keep!Recover BY <1>17 DEF Keep!Recover, Keep!NewFirmware
<1>18. CASE UNCHANGED Keep!vars BY <1>18 DEF Keep!vars
<1> QED BY <1>1, <1>2, <1>3, <1>4, <1>5, <1>6, <1>7, <1>8, <1>9, <1>10, <1>11, <1>12,
           <1>13, <1>14, <1>15, <1>16, <1>17, <1>18 DEF Keep!Next

\* While the power is not cut, network.wan follows network.ppp.
LEMMA FollowsStep == ASSUME Keep!ConstAssumption, MaxCuts = 0, Safe, Follows,
                            [Keep!Next]_Keep!vars
                     PROVE  Follows'
<1> USE DEF Keep!ConstAssumption, Safe, Keep!TypeOK, FlashInv, Follows, Keep!Default,
        Keep!Blank, Keep!None, Keep!Startup, Keep!config, Keep!bounds
<1>1. CASE Keep!Change BY <1>1 DEF Keep!Change
<1>2. CASE Keep!Backup BY <1>2 DEF Keep!Backup
<1>3. CASE Keep!WriteSize BY <1>3 DEF Keep!WriteSize
<1>4. CASE Keep!WriteData BY <1>4 DEF Keep!WriteData
<1>5. CASE Keep!DdFails BY <1>5 DEF Keep!DdFails
<1>6. CASE Keep!LeaveConfig BY <1>6 DEF Keep!LeaveConfig
<1>7. CASE Keep!Sysupgrade BY <1>7 DEF Keep!Sysupgrade, Keep!NewFirmware
<1>8. CASE Keep!SysupgradeFails BY <1>8 DEF Keep!SysupgradeFails
<1>9. CASE Keep!DoesNotStart BY <1>9 DEF Keep!DoesNotStart
<1>10. CASE Keep!Check BY <1>10 DEF Keep!Check
<1>11. CASE Keep!NoNetwork BY <1>11 DEF Keep!NoNetwork
<1>12. CASE Keep!Restore BY <1>12 DEF Keep!Restore
<1>13. CASE Keep!SetWan BY <1>13 DEF Keep!SetWan
<1>14. CASE Keep!Delete BY <1>14 DEF Keep!Delete
<1>15. CASE Keep!Commit BY <1>15 DEF Keep!Commit
<1>16. CASE Keep!PowerCut BY <1>16 DEF Keep!PowerCut
<1>17. CASE Keep!Recover BY <1>17 DEF Keep!Recover, Keep!NewFirmware
<1>18. CASE UNCHANGED Keep!vars BY <1>18 DEF Keep!vars
<1> QED BY <1>1, <1>2, <1>3, <1>4, <1>5, <1>6, <1>7, <1>8, <1>9, <1>10, <1>11, <1>12,
           <1>13, <1>14, <1>15, <1>16, <1>17, <1>18 DEF Keep!Next

---------------------------------------------------------------------------
(* keep_mobile: the theorems *)

\* No archive is left for a later boot when a router that is whole runs, also when
\* commands of backup or sysupgrade fail and the power is cut anywhere, in
\* leave_config_new.sh too.
THEOREM ArchiveCleared == ASSUME Keep!ConstAssumption
                          PROVE  Keep!Spec => [](Keep!TypeOK /\ Keep!NothingLeft)
<1>1. Keep!Init => Safe
  BY DEF Keep!ConstAssumption, Keep!Init, Safe, Keep!TypeOK, FlashInv, Keep!Default,
         Keep!Blank, Keep!None, Keep!Startup
<1>2. Safe /\ [Keep!Next]_Keep!vars => Safe'  BY SafeStep
<1>3. Safe => Keep!TypeOK /\ Keep!NothingLeft  BY DEF Safe, FlashInv, Keep!NothingLeft
<1> QED BY <1>1, <1>2, <1>3, PTL DEF Keep!Spec

\* keep_mobile: when no command of backup fails, the settings that the user chose are
\* never lost, and a router that runs and has a network has them, wherever the power was
\* cut in the upgrade or in the boot after it and however sysupgrade and recovery went;
\* what a boot puts back is not over a later choice.
THEOREM UpgradeKeeps == ASSUME Keep!ConstAssumption, "backup" \notin Fails
                        PROVE  Keep!Spec => []Keep!SettingsRestored
<1>1. Keep!Init => Safe /\ Kept /\ Interface
  BY DEF Keep!ConstAssumption, Keep!Init, Safe, Keep!TypeOK, FlashInv, Kept, Interface,
         Keep!Default, Keep!Blank, Keep!None, Keep!Startup
<1>2. Safe /\ Kept /\ Interface /\ [Keep!Next]_Keep!vars => (Safe /\ Kept /\ Interface)'
  BY SafeStep, KeptStep, InterfaceStep
<1>3. Safe /\ Kept /\ Interface => Keep!SettingsRestored
  <2> SUFFICES ASSUME Safe, Kept, Interface PROVE Keep!SettingsRestored  OBVIOUS
  <2>1. Keep!TypeOK /\ Keep!NothingLeft  BY DEF Safe, FlashInv, Keep!NothingLeft
  <2>2. Keep!NeverLost  BY DEF Kept, Safe, Keep!TypeOK, Keep!NeverLost
  <2>3. Keep!SettingsKept /\ Keep!PutsBackLatest
    BY DEF Kept, Keep!SettingsKept, Keep!PutsBackLatest
  <2>4. Keep!WanOrDefault  BY DEF Interface, Keep!WanOrDefault
  <2> QED BY <2>1, <2>2, <2>3, <2>4 DEF Keep!SettingsRestored
<1> QED BY <1>1, <1>2, <1>3, PTL DEF Keep!Spec

\* mobile_settings_restore.sh: when the power is not cut, network.wan uses the
\* interface of the settings that are in force, whatever commands fail.
THEOREM WanUsesSettings == ASSUME Keep!ConstAssumption, MaxCuts = 0
                           PROVE  Keep!Spec => []Keep!WanFollows
<1>1. Keep!Init => Safe /\ Follows
  BY DEF Keep!ConstAssumption, Keep!Init, Safe, Keep!TypeOK, FlashInv, Follows,
         Keep!Default, Keep!Blank, Keep!None, Keep!Startup
<1>2. Safe /\ Follows /\ [Keep!Next]_Keep!vars => (Safe /\ Follows)'  BY SafeStep, FollowsStep
<1>3. Safe /\ Follows => Keep!WanFollows  BY DEF Follows, Keep!WanFollows
<1> QED BY <1>1, <1>2, <1>3, PTL DEF Keep!Spec

---------------------------------------------------------------------------
(* bridge_daemon.sh *)

\* ebtables -D of the only rule, -D without one, and -A after that.
LEMMA RuleIsReplaced ==
  ASSUME NEW m, NEW n
  PROVE  /\ Bridge!Deleted(<<m>>, m) = <<>> /\ Bridge!Deleted(<<>>, m) = <<>>
         /\ Bridge!Added(<<>>, n) \in {<<>>, <<n>>}
<1>1. Bridge!Deleted(<<>>, m) = <<>>  BY DEF Bridge!Deleted
<1>2. Bridge!Deleted(<<m>>, m) = <<>>
  <2> DEFINE first == CHOOSE i \in DOMAIN <<m>> :
                        <<m>>[i] = m /\ \A j \in 1 .. (i - 1) : <<m>>[j] # m
  <2>1. DOMAIN <<m>> = {1} /\ <<m>>[1] = m  OBVIOUS
  <2>2. \A j \in 1 .. (1 - 1) : <<m>>[j] # m  OBVIOUS
  <2>3. first = 1  BY <2>1, <2>2
  <2>4. Bridge!Deleted(<<m>>, m) = Bridge!RemoveAt(<<m>>, 1)
    BY <2>1, <2>3 DEF Bridge!Deleted
  <2>5. SubSeq(<<m>>, 1, 1 - 1) = <<>> /\ SubSeq(<<m>>, 1 + 1, Len(<<m>>)) = <<>>  OBVIOUS
  <2>6. Bridge!RemoveAt(<<m>>, 1) = <<>> \o <<>>  BY <2>5 DEF Bridge!RemoveAt
  <2> QED BY <2>4, <2>6
<1>3. Bridge!Added(<<>>, n) \in {<<>>, <<n>>}  BY DEF Bridge!Added
<1> QED BY <1>1, <1>2, <1>3

\* Until the second loop has ended there is no rule; then there is the one for old_mac
\* at most.
RuleInv ==
  /\ restarted = 0
  /\ bridgePc \in {"ip", "mac"} => rules = <<>>
  /\ bridgePc \in {"watch", "dhcp", "rules"} => rules = <<>> \/ rules = <<old_mac>>
  /\ bridgePc \in {"ip", "mac", "watch", "dhcp", "rules"}

\* Each step preserves it.
LEMMA RuleStep ==
  ASSUME MaxRestarts = 0, RuleInv, [Bridge!Next]_Bridge!vars
  PROVE  RuleInv'
<1> USE DEF RuleInv, Bridge!counters, Bridge!script
<1>1. CASE Bridge!FindIp BY <1>1 DEF Bridge!FindIp
<1>2. CASE Bridge!FindMac
  <2>1. CASE lease = ""  BY <1>2, <2>1 DEF Bridge!FindMac
  <2>2. CASE lease # ""
    <3>1. rules = <<>> /\ restarted' = restarted /\ bridgePc' = "watch" /\ old_mac' = lease
          /\ rules' = Bridge!Added(Bridge!Deleted(rules, lease), lease)
      BY <1>2, <2>2 DEF Bridge!FindMac
    <3>2. rules' \in {<<>>, <<lease>>}  BY <3>1, RuleIsReplaced
    <3> QED BY <3>1, <3>2
  <2> QED BY <2>1, <2>2
<1>3. CASE Bridge!Watch BY <1>3 DEF Bridge!Watch
<1>4. CASE Bridge!WatchDhcp BY <1>4 DEF Bridge!WatchDhcp
<1>5. CASE Bridge!WatchRules
  <2>1. /\ rules = <<>> \/ rules = <<old_mac>>
        /\ restarted' = restarted /\ bridgePc' = "watch" /\ old_mac' = mac
        /\ rules' = IF old_mac # mac \/ rules = <<>>
                    THEN Bridge!Added(Bridge!Deleted(rules, old_mac), mac) ELSE rules
    BY <1>5 DEF Bridge!WatchRules
  <2>2. CASE old_mac # mac \/ rules = <<>>
    <3>1. Bridge!Deleted(rules, old_mac) = <<>>  BY <2>1, RuleIsReplaced
    <3>2. rules' \in {<<>>, <<mac>>}  BY <2>1, <2>2, <3>1, RuleIsReplaced
    <3> QED BY <2>1, <3>2
  <2>3. CASE ~ (old_mac # mac \/ rules = <<>>)  BY <2>1, <2>3
  <2> QED BY <2>2, <2>3
<1>6. CASE Bridge!Restart
  <2>1. restarted < MaxRestarts  BY <1>6 DEF Bridge!Restart
  <2>2. ~ (0 < 0)  OBVIOUS
  <2> QED BY <2>1, <2>2
<1>7. CASE Bridge!AddrChanges BY <1>7 DEF Bridge!AddrChanges
<1>8. CASE Bridge!LeaseChanges BY <1>8 DEF Bridge!LeaseChanges
<1>9. CASE Bridge!Flush BY <1>9 DEF Bridge!Flush
<1>10. CASE UNCHANGED Bridge!vars BY <1>10 DEF Bridge!vars
<1> QED BY <1>1, <1>2, <1>3, <1>4, <1>5, <1>6, <1>7, <1>8, <1>9, <1>10
        DEF Bridge!Next, Bridge!Daemon

\* bridge_daemon.sh: as long as ncm.sh does not start the script again, what comes from
\* the modem goes to one client at most, whoever is first in the leases at what time and
\* however often the rules are flushed.
THEOREM OneClient == ASSUME MaxRestarts = 0
                     PROVE  Bridge!Spec => []Bridge!OneRule
<1>1. Bridge!Init => RuleInv  BY DEF Bridge!Init, RuleInv
<1>2. RuleInv /\ [Bridge!Next]_Bridge!vars => RuleInv'  BY RuleStep
<1>3. RuleInv => Bridge!OneRule
  <2>1. Len(<<>>) <= 1 /\ Len(<<old_mac>>) <= 1  OBVIOUS
  <2>2. RuleInv => rules = <<>> \/ rules = <<old_mac>>  BY DEF RuleInv
  <2> QED BY <2>1, <2>2 DEF Bridge!OneRule
<1> QED BY <1>1, <1>2, <1>3, PTL DEF Bridge!Spec

---------------------------------------------------------------------------
(* dynamic_dns_updater.sh *)

\* While the name servers have what the provider has, a process that has not slept yet
\* knows an address that was accepted, and sends only another one unless one is due.
SendInv ==
  /\ dns = provider
  /\ acked # "" => provider = acked
  /\ ddnsPc \in {"local", "send"} /\ young /\ acked # "" => REGISTERED_IP = acked
  /\ ddnsPc = "send" => LOCAL_IP # ""
  /\ ddnsPc = "send" /\ young /\ ~Ddns!Due => LOCAL_IP # REGISTERED_IP

\* Each step preserves it.
LEMMA SendStep ==
  ASSUME Ddns!ConstAssumption, Lag = FALSE, SendInv, [Ddns!Next]_Ddns!vars
  PROVE  SendInv'
<1> USE DEF SendInv, Ddns!process, Ddns!service, Ddns!bounds, Ddns!Due
<1>1. CASE Ddns!Start BY <1>1 DEF Ddns!Start
<1>2. CASE Ddns!Stop BY <1>2 DEF Ddns!Stop
<1>3. CASE Ddns!FirstLookup BY <1>3 DEF Ddns!FirstLookup
<1>4. CASE Ddns!Save BY <1>4 DEF Ddns!Save
<1>5. CASE Ddns!Sleep BY <1>5 DEF Ddns!Sleep
<1>6. CASE Ddns!LookupAgain BY <1>6 DEF Ddns!LookupAgain
<1>7. CASE Ddns!get_local_ip BY <1>7 DEF Ddns!get_local_ip
<1>8. CASE Ddns!send_update BY <1>8 DEF Ddns!send_update, Ddns!Delivered
<1>9. CASE Ddns!AnswerLost BY <1>9 DEF Ddns!AnswerLost, Ddns!Delivered, Ddns!Retries
<1>10. CASE Ddns!Rejected BY <1>10 DEF Ddns!Rejected
<1>11. CASE Ddns!Check BY <1>11 DEF Ddns!Check
<1>12. CASE Ddns!Fails
  <2>1. /\ ddnsPc' = ddnsPc \/ ddnsPc' = "off"
        /\ UNCHANGED <<provider, dns, acked, LOCAL_IP, REGISTERED_IP, young, age>>
    BY <1>12 DEF Ddns!Fails, Ddns!Retries
  <2> QED BY <2>1
<1>13. CASE Ddns!IpChanges BY <1>13 DEF Ddns!IpChanges
<1>14. CASE Ddns!Propagate BY <1>14 DEF Ddns!Propagate
<1>15. CASE Ddns!Idle BY <1>15 DEF Ddns!Idle
<1>16. CASE UNCHANGED Ddns!vars BY <1>16 DEF Ddns!vars
<1> QED BY <1>1, <1>2, <1>3, <1>4, <1>5, <1>6, <1>7, <1>8, <1>9, <1>10, <1>11, <1>12, <1>13,
           <1>14, <1>15, <1>16 DEF Ddns!Next, Ddns!Works

\* "the following lines should prevent multiple updates if hotplug fires multiple
\* startups": wherever hotplug kills the updater and starts it, and whatever fails, a new
\* process sends an address that the provider has accepted last only if an update is due,
\* as long as lookups return what the provider has.  Killed between send_update and the
\* line that saves the time, the updater leaves one due that was sent.
THEOREM SentOnce == ASSUME Ddns!ConstAssumption, Lag = FALSE
                    PROVE  Ddns!Spec => Ddns!OnceOnStartups
<1>1. Ddns!Init => SendInv  BY DEF Ddns!Init, SendInv
<1>2. SendInv /\ [Ddns!Next]_Ddns!vars => SendInv'  BY SendStep
<1>3. SendInv => (ddnsPc = "send" /\ young => (acked = LOCAL_IP => Ddns!Due))
  BY DEF SendInv
<1>4. SendInv /\ [Ddns!Next]_Ddns!vars
        => [ddnsPc = "send" /\ ddnsPc' = "save" /\ young
              => (acked = LOCAL_IP => Ddns!Due)]_Ddns!vars
  BY <1>3
<1> QED BY <1>1, <1>2, <1>4, PTL DEF Ddns!Spec, Ddns!OnceOnStartups

---------------------------------------------------------------------------
(* sim_idle_protection.sh: the inductive invariant *)

\* An instance that is at work or about to remove the lock file.
Holds(p) == simPc[p] \in Idle!Main \cup {"unlock"}

\* Cron starts no instance while another one takes the lock.
OneLocking ==
  \A p, o \in Procs : simPc[p] \in Idle!Locking /\ simPc[o] \in Idle!Locking => p = o

\* The file has the pid of the instance at work, until one that waits for it in
\* vain has killed it.
LockInv ==
  /\ OneLocking
  /\ \A p \in Procs : Holds(p) => lock = p
  /\ \A p, o \in Procs : simPc[p] = "wait" /\ Holds(o) => v[p].pid = o
  /\ \A p, o \in Procs : simPc[p] = "write" => ~Holds(o)

\* The card is that of the instance at work from the switch until the switch back.
OnItsSim == {"sim", "set1", "set2", "ping", "reset1", "reset2", "back"}
SimInv == \A p \in Procs : simPc[p] \in OnItsSim => sim = SimOf[p]

Shared == Idle!TypeOK /\ LockInv /\ SimInv

\* SIM_CHANGED and PPP_CHANGED are not set before the change.
FlagInv ==
  \A p \in Procs :
    /\ simPc[p] \in Idle!Locking \cup {"off", "read", "switch", "sim", "set1"} => ~v[p].conf
    /\ simPc[p] \in Idle!Locking \cup {"off", "read", "switch"} => ~v[p].sim

\* What the instance at work has made of the configuration.
Changed(p) ==
  CASE simPc[p] = "set2" -> [enabled |-> 1, disabled |-> 1]
    [] simPc[p] \in {"ping", "reset1"} -> [enabled |-> 1, disabled |-> 0]
    [] simPc[p] = "reset2" -> [enabled |-> 0, disabled |-> 0]
    [] OTHER -> Idle!Original

\* As long as no instance was killed, the configuration and the card are the
\* original ones but for what the instance at work has changed and knows of.
PutBackInv ==
  killed = {} =>
    /\ (\A p \in Procs : ~Holds(p)) => conf = Idle!Original /\ sim = Idle!Default
    /\ \A p \in Procs :
         /\ Holds(p) => conf = Changed(p)
         /\ simPc[p] \in {"read", "switch", "unlock"} => sim = Idle!Default
         /\ simPc[p] \in Idle!Main \ {"read"} => v[p].saved = Idle!Original
         /\ simPc[p] \in {"set2", "ping", "reset1", "reset2"} => v[p].conf
         /\ simPc[p] \in OnItsSim => (v[p].sim <=> SimOf[p] # Idle!Default)

---------------------------------------------------------------------------
(* sim_idle_protection.sh: each step preserves it *)

\* The variables have their types; only an instance at work hangs.
LEMMA IdleTypeStep ==
  ASSUME Idle!ConstAssumption, Idle!TypeOK, [Idle!Next]_Idle!vars
  PROVE  Idle!TypeOK'
<1> USE DEF Idle!ConstAssumption, Idle!TypeOK, Idle!Locking, Idle!Main, Idle!Sims, Idle!world
<1>0. CASE UNCHANGED Idle!vars BY <1>0 DEF Idle!vars
<1>1. ASSUME NEW p \in Procs,
             Idle!Start(p) \/ Idle!Step(p) \/ Idle!Hang(p) \/ Idle!Crash(p) \/ Idle!PidReused(p)
      PROVE  Idle!TypeOK'
  <2>1. CASE Idle!Start(p) BY <2>1 DEF Idle!Start, Idle!Goes
  <2>2. CASE Idle!Runs(p) /\ Idle!Check(p) BY <2>2 DEF Idle!Check, Idle!Goes, Idle!Runs
  <2>3. CASE Idle!Runs(p) /\ Idle!Cat(p) BY <2>3 DEF Idle!Cat, Idle!Goes, Idle!Alive, Idle!Runs
  <2>4. CASE Idle!Runs(p) /\ Idle!Wait(p)
    <3> DEFINE Vars == [pid : Procs \cup {0}, waited : 0..MaxWait,
                        saved : [enabled : 0..1, disabled : 0..1],
                        sim : BOOLEAN, conf : BOOLEAN]
    <3>1. Idle!Fresh \in Vars  BY DEF Idle!Fresh, Idle!Original
    <3>2. v' \in [Procs -> Vars]
      <4>1. CASE v' = [v EXCEPT ![p].waited = @ + 1] /\ v[p].waited < MaxWait  BY <4>1
      <4>2. CASE v' = [o \in Procs |-> IF o = v[p].pid THEN Idle!Fresh ELSE v[o]]
        BY <4>2, <3>1
      <4> QED BY <2>4, <4>1, <4>2 DEF Idle!Wait
    <3> QED BY <2>4, <3>2 DEF Idle!Wait, Idle!Goes, Idle!Runs
  <2>5. CASE Idle!Runs(p) /\ Idle!Write(p) BY <2>5 DEF Idle!Write, Idle!Goes, Idle!Runs
  <2>6. CASE Idle!Runs(p) /\ Idle!ReadConfig(p) BY <2>6 DEF Idle!ReadConfig, Idle!Goes,
      Idle!Runs
  <2>7. CASE Idle!Runs(p) /\ Idle!SwitchSim(p)
    <3>1. PICK b \in BOOLEAN : v' = [v EXCEPT ![p].sim = b]
      BY <2>7 DEF Idle!SwitchSim
    <3> QED BY <2>7, <3>1 DEF Idle!SwitchSim, Idle!Goes, Idle!Runs
  <2>8. CASE Idle!Runs(p) /\ Idle!wait_for_sim(p) BY <2>8 DEF Idle!wait_for_sim, Idle!Goes,
      Idle!Runs
  <2>9. CASE Idle!Runs(p) /\ Idle!set_mobile(p)
    <3>1. conf' \in [enabled : 0..1, disabled : 0..1]  BY <2>9 DEF Idle!set_mobile
    <3>2. v' = v \/ \E b \in BOOLEAN : v' = [v EXCEPT ![p].conf = b]  BY <2>9
        DEF Idle!set_mobile
    <3>3. simPc' = [simPc EXCEPT ![p] = "set2"] \/ simPc' = [simPc EXCEPT ![p] = "ping"]
      BY <2>9 DEF Idle!set_mobile, Idle!Goes
    <3>4. UNCHANGED <<lock, sim, Idle!world>>  BY <2>9 DEF Idle!set_mobile
    <3>5. simPc[p] \in {"set1", "set2"}  BY <2>9 DEF Idle!set_mobile
    <3>6. v' \in [Procs -> [pid : Procs \cup {0}, waited : 0..MaxWait,
                            saved : [enabled : 0..1, disabled : 0..1],
                            sim : BOOLEAN, conf : BOOLEAN]]
      BY <3>2
    <3> QED BY <3>1, <3>3, <3>4, <3>5, <3>6
  <2>10. CASE Idle!Runs(p) /\ Idle!Ping(p) BY <2>10 DEF Idle!Ping, Idle!Goes, Idle!Runs
  <2>11. CASE Idle!Runs(p) /\ Idle!reset_mobile(p) BY <2>11 DEF Idle!reset_mobile, Idle!Goes,
      Idle!Runs
  <2>12. CASE Idle!Runs(p) /\ Idle!SwitchBack(p) BY <2>12 DEF Idle!SwitchBack, Idle!Goes,
      Idle!Runs, Idle!Default
  <2>13. CASE Idle!Runs(p) /\ Idle!Unlock(p) BY <2>13 DEF Idle!Unlock, Idle!Goes, Idle!Runs
  <2>14. CASE Idle!Runs(p) /\ Idle!Exit(p) BY <2>14 DEF Idle!Exit, Idle!Goes, Idle!Fresh,
      Idle!Original, Idle!Runs
  <2>15. CASE Idle!Hang(p) BY <2>15 DEF Idle!Hang
  <2>16. CASE Idle!Crash(p) BY <2>16 DEF Idle!Crash, Idle!Goes, Idle!Fresh, Idle!Original
  <2>17. CASE Idle!PidReused(p) BY <2>17 DEF Idle!PidReused
  <2> QED BY <1>1, <2>1, <2>2, <2>3, <2>4, <2>5, <2>6, <2>7, <2>8, <2>9, <2>10, <2>11, <2>12,
      <2>13, <2>14, <2>15, <2>16, <2>17 DEF Idle!Step
<1> QED BY <1>0, <1>1 DEF Idle!Next

\* The lock file has the pid of the instance at work.
LEMMA LockStep ==
  ASSUME Idle!ConstAssumption, Apart, Idle!TypeOK, LockInv, [Idle!Next]_Idle!vars
  PROVE  LockInv'
<1> USE DEF Idle!ConstAssumption, Idle!TypeOK, Idle!Locking, Idle!Main, LockInv, OneLocking,
    Holds, Idle!world
<1>0. CASE UNCHANGED Idle!vars BY <1>0 DEF Idle!vars
<1>1. ASSUME NEW p \in Procs,
             Idle!Start(p) \/ Idle!Step(p) \/ Idle!Hang(p) \/ Idle!Crash(p) \/ Idle!PidReused(p)
      PROVE  LockInv'
  <2>1. CASE Idle!Start(p) BY <2>1 DEF Idle!Start, Idle!Goes
  <2>2. CASE Idle!Runs(p) /\ Idle!Check(p) BY <2>2 DEF Idle!Check, Idle!Goes, Idle!Runs
  <2>3. CASE Idle!Runs(p) /\ Idle!Cat(p) BY <2>3 DEF Idle!Cat, Idle!Goes, Idle!Alive, Idle!Runs
  <2>4. CASE Idle!Runs(p) /\ Idle!Wait(p) BY <2>4 DEF Idle!Wait, Idle!Goes, Idle!Alive,
      Idle!Runs
  <2>5. CASE Idle!Runs(p) /\ Idle!Write(p) BY <2>5 DEF Idle!Write, Idle!Goes, Idle!Runs
  <2>6. CASE Idle!Runs(p) /\ Idle!ReadConfig(p) BY <2>6 DEF Idle!ReadConfig, Idle!Goes,
      Idle!Runs
  <2>7. CASE Idle!Runs(p) /\ Idle!SwitchSim(p) BY <2>7 DEF Idle!SwitchSim, Idle!Goes, Idle!Runs
  <2>8. CASE Idle!Runs(p) /\ Idle!wait_for_sim(p) BY <2>8 DEF Idle!wait_for_sim, Idle!Goes,
      Idle!Runs
  <2>9. CASE Idle!Runs(p) /\ Idle!set_mobile(p) BY <2>9 DEF Idle!set_mobile, Idle!Goes,
      Idle!Runs
  <2>10. CASE Idle!Runs(p) /\ Idle!Ping(p) BY <2>10 DEF Idle!Ping, Idle!Goes, Idle!Runs
  <2>11. CASE Idle!Runs(p) /\ Idle!reset_mobile(p) BY <2>11 DEF Idle!reset_mobile, Idle!Goes,
      Idle!Runs
  <2>12. CASE Idle!Runs(p) /\ Idle!SwitchBack(p) BY <2>12 DEF Idle!SwitchBack, Idle!Goes,
      Idle!Runs
  <2>13. CASE Idle!Runs(p) /\ Idle!Unlock(p) BY <2>13 DEF Idle!Unlock, Idle!Goes, Idle!Runs
  <2>14. CASE Idle!Runs(p) /\ Idle!Exit(p) BY <2>14 DEF Idle!Exit, Idle!Goes, Idle!Fresh,
      Idle!Original, Idle!Runs
  <2>15. CASE Idle!Hang(p) BY <2>15 DEF Idle!Hang
  <2>16. CASE Idle!Crash(p) BY <2>16 DEF Idle!Crash, Idle!Goes, Idle!Fresh, Idle!Original
  <2>17. CASE Idle!PidReused(p) BY <2>17 DEF Idle!PidReused
  <2> QED BY <1>1, <2>1, <2>2, <2>3, <2>4, <2>5, <2>6, <2>7, <2>8, <2>9, <2>10, <2>11, <2>12,
      <2>13, <2>14, <2>15, <2>16, <2>17 DEF Idle!Step
<1> QED BY <1>0, <1>1 DEF Idle!Next

\* Only the instance at work switches the SIM card.
LEMMA SimStep ==
  ASSUME Idle!ConstAssumption, Apart, Shared, [Idle!Next]_Idle!vars
  PROVE  SimInv'
<1> USE DEF Idle!ConstAssumption, Idle!TypeOK, Idle!Locking, Idle!Main, Idle!world, Shared,
    LockInv, Holds, OnItsSim, SimInv
<1>0. CASE UNCHANGED Idle!vars BY <1>0 DEF Idle!vars
<1>1. ASSUME NEW p \in Procs,
             Idle!Start(p) \/ Idle!Step(p) \/ Idle!Hang(p) \/ Idle!Crash(p) \/ Idle!PidReused(p)
      PROVE  SimInv'
  <2>1. CASE Idle!Start(p) BY <2>1 DEF Idle!Start, Idle!Goes
  <2>2. CASE Idle!Check(p) BY <2>2 DEF Idle!Check, Idle!Goes
  <2>3. CASE Idle!Cat(p) BY <2>3 DEF Idle!Cat, Idle!Goes, Idle!Alive
  <2>4. CASE Idle!Wait(p) BY <2>4 DEF Idle!Wait, Idle!Goes, Idle!Alive, Idle!Fresh
  <2>5. CASE Idle!Write(p) BY <2>5 DEF Idle!Write, Idle!Goes
  <2>6. CASE Idle!ReadConfig(p) BY <2>6 DEF Idle!ReadConfig, Idle!Goes
  <2>7. CASE Idle!SwitchSim(p) BY <2>7 DEF Idle!SwitchSim, Idle!Goes
  <2>8. CASE Idle!wait_for_sim(p) BY <2>8 DEF Idle!wait_for_sim, Idle!Goes
  <2>9. CASE Idle!set_mobile(p) BY <2>9 DEF Idle!set_mobile, Idle!Goes
  <2>10. CASE Idle!Ping(p) BY <2>10 DEF Idle!Ping, Idle!Goes
  <2>11. CASE Idle!reset_mobile(p) BY <2>11 DEF Idle!reset_mobile, Idle!Goes
  <2>12. CASE Idle!SwitchBack(p) BY <2>12 DEF Idle!SwitchBack, Idle!Goes
  <2>13. CASE Idle!Unlock(p) BY <2>13 DEF Idle!Unlock, Idle!Goes
  <2>14. CASE Idle!Exit(p) BY <2>14 DEF Idle!Exit, Idle!Goes, Idle!Fresh
  <2>15. CASE Idle!Hang(p) BY <2>15 DEF Idle!Hang
  <2>16. CASE Idle!Crash(p) BY <2>16 DEF Idle!Crash, Idle!Goes, Idle!Fresh
  <2>17. CASE Idle!PidReused(p) BY <2>17 DEF Idle!PidReused
  <2> QED BY <1>1, <2>1, <2>2, <2>3, <2>4, <2>5, <2>6, <2>7, <2>8, <2>9, <2>10, <2>11, <2>12,
      <2>13, <2>14, <2>15, <2>16, <2>17 DEF Idle!Step
<1> QED BY <1>0, <1>1 DEF Idle!Next

\* SIM_CHANGED and PPP_CHANGED start as 0.
LEMMA FlagStep ==
  ASSUME Idle!ConstAssumption, Idle!TypeOK, FlagInv, [Idle!Next]_Idle!vars
  PROVE  FlagInv'
<1> USE DEF Idle!ConstAssumption, Idle!TypeOK, Idle!Locking, Idle!Main, Idle!world, FlagInv
<1>0. CASE UNCHANGED Idle!vars BY <1>0 DEF Idle!vars
<1>1. ASSUME NEW p \in Procs,
             Idle!Start(p) \/ Idle!Step(p) \/ Idle!Hang(p) \/ Idle!Crash(p) \/ Idle!PidReused(p)
      PROVE  FlagInv'
  <2>1. CASE Idle!Start(p) BY <2>1 DEF Idle!Start, Idle!Goes
  <2>2. CASE Idle!Check(p) BY <2>2 DEF Idle!Check, Idle!Goes
  <2>3. CASE Idle!Cat(p) BY <2>3 DEF Idle!Cat, Idle!Goes, Idle!Alive
  <2>4. CASE Idle!Wait(p) BY <2>4 DEF Idle!Wait, Idle!Goes, Idle!Alive, Idle!Fresh
  <2>5. CASE Idle!Write(p) BY <2>5 DEF Idle!Write, Idle!Goes
  <2>6. CASE Idle!ReadConfig(p) BY <2>6 DEF Idle!ReadConfig, Idle!Goes
  <2>7. CASE Idle!SwitchSim(p) BY <2>7 DEF Idle!SwitchSim, Idle!Goes
  <2>8. CASE Idle!wait_for_sim(p) BY <2>8 DEF Idle!wait_for_sim, Idle!Goes
  <2>9. CASE Idle!set_mobile(p) BY <2>9 DEF Idle!set_mobile, Idle!Goes
  <2>10. CASE Idle!Ping(p) BY <2>10 DEF Idle!Ping, Idle!Goes
  <2>11. CASE Idle!reset_mobile(p) BY <2>11 DEF Idle!reset_mobile, Idle!Goes
  <2>12. CASE Idle!SwitchBack(p) BY <2>12 DEF Idle!SwitchBack, Idle!Goes
  <2>13. CASE Idle!Unlock(p) BY <2>13 DEF Idle!Unlock, Idle!Goes
  <2>14. CASE Idle!Exit(p) BY <2>14 DEF Idle!Exit, Idle!Goes, Idle!Fresh
  <2>15. CASE Idle!Hang(p) BY <2>15 DEF Idle!Hang
  <2>16. CASE Idle!Crash(p) BY <2>16 DEF Idle!Crash, Idle!Goes, Idle!Fresh
  <2>17. CASE Idle!PidReused(p) BY <2>17 DEF Idle!PidReused
  <2> QED BY <1>1, <2>1, <2>2, <2>3, <2>4, <2>5, <2>6, <2>7, <2>8, <2>9, <2>10, <2>11, <2>12,
      <2>13, <2>14, <2>15, <2>16, <2>17 DEF Idle!Step
<1> QED BY <1>0, <1>1 DEF Idle!Next

\* Without a kill everything that is changed is put back.
LEMMA PutBackStep ==
  ASSUME Idle!ConstAssumption, Apart, ~Crashes, Shared, FlagInv, PutBackInv,
      [Idle!Next]_Idle!vars
  PROVE  PutBackInv'
<1> USE DEF Idle!ConstAssumption, Idle!TypeOK, Idle!Locking, Idle!Main, Idle!world, Idle!Sims,
    Shared, LockInv, Holds, OnItsSim, SimInv, FlagInv, PutBackInv, Changed, Idle!Original,
    Idle!Default
<1>0. CASE UNCHANGED Idle!vars BY <1>0 DEF Idle!vars
<1>1. ASSUME NEW p \in Procs,
             Idle!Start(p) \/ Idle!Step(p) \/ Idle!Hang(p) \/ Idle!Crash(p) \/ Idle!PidReused(p)
      PROVE  PutBackInv'
  <2>1. CASE Idle!Start(p) BY <2>1 DEF Idle!Start, Idle!Goes
  <2>2. CASE Idle!Check(p) BY <2>2 DEF Idle!Check, Idle!Goes
  <2>3. CASE Idle!Cat(p) BY <2>3 DEF Idle!Cat, Idle!Goes, Idle!Alive
  <2>4. CASE Idle!Wait(p) BY <2>4 DEF Idle!Wait, Idle!Goes, Idle!Alive, Idle!Fresh
  <2>5. CASE Idle!Write(p) BY <2>5 DEF Idle!Write, Idle!Goes
  <2>6. CASE Idle!ReadConfig(p) BY <2>6 DEF Idle!ReadConfig, Idle!Goes
  <2>7. CASE Idle!SwitchSim(p)
    <3>1. PICK b \in BOOLEAN : b = (sim # SimOf[p]) /\ v' = [v EXCEPT ![p].sim = b]
      BY <2>7 DEF Idle!SwitchSim
    <3>2. v'[p].sim = b  BY <3>1
    <3>3. b <=> sim # SimOf[p]  BY <3>1, Zenon
    <3>4. v'[p].sim <=> sim # SimOf[p]  BY <3>2, <3>3, Zenon
    <3>5. \A o \in Procs : v'[o].saved = v[o].saved /\ v'[o].conf = v[o].conf
      BY <3>1
    <3>6. /\ simPc[p] = "switch" /\ simPc'[p] = "sim"
          /\ \A o \in Procs : o # p => simPc'[o] = simPc[o] /\ ~Holds(o)
      BY <2>7 DEF Idle!SwitchSim, Idle!Goes
    <3>7. UNCHANGED <<conf, killed>>  BY <2>7 DEF Idle!SwitchSim
    <3> QED BY <3>4, <3>5, <3>6, <3>7
  <2>8. CASE Idle!wait_for_sim(p) BY <2>8 DEF Idle!wait_for_sim, Idle!Goes
  <2>9. CASE Idle!set_mobile(p) BY <2>9, SMTT(30) DEF Idle!set_mobile, Idle!Goes
  <2>10. CASE Idle!Ping(p) BY <2>10 DEF Idle!Ping, Idle!Goes
  <2>11. CASE Idle!reset_mobile(p) BY <2>11 DEF Idle!reset_mobile, Idle!Goes
  <2>12. CASE Idle!SwitchBack(p) BY <2>12 DEF Idle!SwitchBack, Idle!Goes
  <2>13. CASE Idle!Unlock(p) BY <2>13 DEF Idle!Unlock, Idle!Goes
  <2>14. CASE Idle!Exit(p) BY <2>14 DEF Idle!Exit, Idle!Goes, Idle!Fresh
  <2>15. CASE Idle!Hang(p) BY <2>15 DEF Idle!Hang
  <2>16. CASE Idle!Crash(p) BY <2>16 DEF Idle!Crash, Idle!Goes, Idle!Fresh
  <2>17. CASE Idle!PidReused(p) BY <2>17 DEF Idle!PidReused
  <2> QED BY <1>1, <2>1, <2>2, <2>3, <2>4, <2>5, <2>6, <2>7, <2>8, <2>9, <2>10, <2>11, <2>12,
      <2>13, <2>14, <2>15, <2>16, <2>17 DEF Idle!Step
<1> QED BY <1>0, <1>1 DEF Idle!Next

---------------------------------------------------------------------------
(* sim_idle_protection.sh: the theorems *)

\* Nothing runs and nothing is changed at the start.
LEMMA IdleInit == ASSUME Idle!ConstAssumption, Idle!Init
                 PROVE  Shared /\ FlagInv /\ PutBackInv
<1> USE DEF Idle!ConstAssumption, Idle!Init, Idle!Fresh, Idle!Original, Idle!Default,
    Idle!Locking, Idle!Main, Idle!Sims
<1>1. Idle!TypeOK  BY DEF Idle!TypeOK
<1>2. LockInv  BY DEF LockInv, OneLocking, Holds
<1>3. SimInv /\ FlagInv  BY DEF SimInv, FlagInv, OnItsSim
<1>4. PutBackInv  BY DEF PutBackInv, Holds, OnItsSim
<1> QED BY <1>1, <1>2, <1>3, <1>4 DEF Shared

\* The instance at work is the one whose pid is in the lock file.
LEMMA Alone == ASSUME Shared PROVE Idle!OneInstance
<1>1. Idle!InMain \subseteq {lock}  BY DEF Shared, LockInv, Holds, Idle!InMain
<1>2. IsFiniteSet({lock}) /\ Cardinality({lock}) = 1  BY FS_Singleton
<1>3. Cardinality(Idle!InMain) <= Cardinality({lock}) /\ IsFiniteSet(Idle!InMain)  BY <1>1,
    <1>2, FS_Subset
<1>4. Idle!Cardinality(Idle!InMain) = Cardinality(Idle!InMain)
  BY DEF Idle!Cardinality, Cardinality
<1> QED BY <1>2, <1>3, <1>4 DEF Idle!OneInstance

\* "Tikriname ir nepasileides kitas instance": when cron starts one instance after the
\* other, however many of them there are and wherever one is killed or hangs, at most
\* one is at work, and it pings over its own SIM card.
THEOREM LockWorks == ASSUME Idle!ConstAssumption, Apart
                     PROVE  Idle!Spec => [](Idle!TypeOK /\ Idle!OneInstance /\ Idle!PingsItsSim)
<1>1. Idle!Init => Shared  BY IdleInit
<1>2. Shared /\ [Idle!Next]_Idle!vars => Shared'  BY IdleTypeStep, LockStep, SimStep DEF Shared
<1>3. Shared => Idle!TypeOK /\ Idle!OneInstance /\ Idle!PingsItsSim
  BY Alone DEF Shared, SimInv, OnItsSim, Idle!PingsItsSim
<1> QED BY <1>1, <1>2, <1>3, PTL DEF Idle!Spec

\* Instances that are not killed from outside put the configuration and the SIM card
\* back, unless one of them had to kill another.
THEOREM OneAtATime == ASSUME Idle!ConstAssumption, Apart, ~Crashes
                      PROVE  Idle!Spec => []Idle!SwitchesAlone
<1> DEFINE I == Shared /\ FlagInv /\ PutBackInv
<1>1. Idle!Init => I  BY IdleInit
<1>2. I /\ [Idle!Next]_Idle!vars => I'
  BY IdleTypeStep, LockStep, SimStep, FlagStep, PutBackStep DEF Shared
<1>3. I => Idle!SwitchesAlone
  <2>1. I => Idle!EverythingPutBack  BY DEF PutBackInv, Idle!EverythingPutBack, Holds, Idle!Main
  <2>2. I => Idle!TypeOK /\ Idle!OneInstance /\ Idle!PingsItsSim
    BY Alone DEF Shared, SimInv, OnItsSim, Idle!PingsItsSim
  <2> QED BY <2>1, <2>2 DEF Idle!SwitchesAlone
<1> QED BY <1>1, <1>2, <1>3, PTL DEF Idle!Spec

---------------------------------------------------------------------------
(* mwan3: the inductive invariant *)

Waiting == {"gateway", "turn"}
Running == {"ping", "down", "up"}

Handlers ==
  [iface : Ifaces, action : {"ifup", "ifdown"}, by : Trackers \cup {0},
   pc : Waiting \cup {"chain", "route", "rule", "track", "policy"}]
Tracks == [pc : {"off", "start"} \cup Running, iface : Ifaces, score : 0 .. down + up]

\* A tracker that pings has not just come to the bound; one that has called
\* ifdown starts over.
ScoreOK(r) == (r.pc = "ping" => r.score # up) /\ (r.pc = "down" => r.score = 0)

TablesTyped ==
  /\ dev \subseteq Ifaces /\ alive \subseteq Ifaces
  /\ chain \subseteq Ifaces /\ route \subseteq Ifaces /\ rule \subseteq Ifaces
  /\ policy \subseteq Ifaces
  /\ q \in Seq(Handlers)
  /\ trk \in [Trackers -> Tracks] /\ \A t \in Trackers : ScoreOK(trk[t])
  /\ pidfile \in [Ifaces -> Trackers \cup {0}]

\* A handler past its turn is the oldest.
TurnInv == \A n \in DOMAIN q : n # 1 => q[n].pc \in Waiting

\* How far the oldest handler h has brought the tables.
Progress(h) ==
  /\ h.pc \in Waiting \cup {"chain"} => chain = route /\ route = rule /\ policy = chain
  /\ h.pc = "route" => chain = Set(route, h) /\ route = rule /\ policy = route
  /\ h.pc = "rule" => chain = route /\ route = Set(rule, h) /\ policy = rule
  /\ h.pc \in {"track", "policy"} => chain = route /\ route = rule

TableInv ==
  /\ q = <<>> => chain = route /\ route = rule /\ policy = chain
  /\ q # <<>> => Progress(q[1])

\* A tracker that runs is the one in the pid file of its interface, and a pid
\* file names a tracker of its interface that runs.
PidInv ==
  /\ \A t \in Trackers : trk[t].pc \in Running => pidfile[trk[t].iface] = t
  /\ \A i \in Ifaces :
       pidfile[i] # 0 => trk[pidfile[i]].pc \in Running /\ trk[pidfile[i]].iface = i

IInv == TablesTyped /\ TurnInv /\ TableInv /\ PidInv
---------------------------------------------------------------------------
(* mwan3: the queue of handlers *)

\* A handler ends.
LEMMA Removed ==
  ASSUME NEW S, NEW s \in Seq(S), NEW n \in DOMAIN s
  PROVE  /\ RemoveAt(s, n) \in Seq(S) /\ Len(RemoveAt(s, n)) = Len(s) - 1
         /\ \A i \in 1 .. Len(s) - 1 : RemoveAt(s, n)[i] = IF i < n THEN s[i] ELSE s[i + 1]
<1>1. n \in 1 .. Len(s) /\ Len(s) \in Nat  OBVIOUS
<1> DEFINE a == SubSeq(s, 1, n - 1)
           b == SubSeq(s, n + 1, Len(s))
<1>2. a \in Seq(S) /\ Len(a) = n - 1 /\ \A i \in 1 .. n - 1 : a[i] = s[i]
  BY <1>1
<1>3. b \in Seq(S) /\ Len(b) = Len(s) - n /\ \A i \in 1 .. Len(s) - n : b[i] = s[i + n]
  BY <1>1
<1> HIDE DEF a, b
<1>4. /\ a \o b \in Seq(S) /\ Len(a \o b) = Len(a) + Len(b)
      /\ \A i \in 1 .. Len(a) + Len(b) :
           (a \o b)[i] = IF i <= Len(a) THEN a[i] ELSE b[i - Len(a)]
  <2>1. a \in Seq(S) /\ b \in Seq(S)  BY <1>2, <1>3
  <2> QED BY <2>1
<1>5. RemoveAt(s, n) = a \o b  BY DEF RemoveAt, a, b
<1>6. Len(a) + Len(b) = Len(s) - 1  BY <1>1, <1>2, <1>3
<1>7. ASSUME NEW i \in 1 .. Len(s) - 1
      PROVE  (a \o b)[i] = IF i < n THEN s[i] ELSE s[i + 1]
  <2>1. CASE i < n  BY <1>1, <1>2, <1>4, <1>6, <2>1
  <2>2. CASE i >= n
    <3>1. i - (n - 1) \in 1 .. Len(s) - n /\ (i - (n - 1)) + n = i + 1  BY <1>1, <2>2
    <3>2. Len(a) = n - 1 /\ ~ (i <= Len(a)) /\ i \in 1 .. Len(a) + Len(b)
      BY <1>1, <1>2, <1>6, <2>2
    <3>3. (a \o b)[i] = b[i - (n - 1)]  BY <1>4, <3>2
    <3>4. b[i - (n - 1)] = s[i + 1]  BY <1>3, <3>1
    <3> QED BY <1>1, <2>2, <3>3, <3>4
  <2>3. i < n \/ i >= n  BY <1>1
  <2> QED BY <2>1, <2>2, <2>3
<1> QED BY <1>4, <1>5, <1>6, <1>7

\* A handler goes on.
LEMMA WentOn ==
  ASSUME TablesTyped, NEW n \in DOMAIN q,
         NEW to \in Waiting \cup {"chain", "route", "rule", "track", "policy"}, GoOn(n, to)
  PROVE  /\ q' \in Seq(Handlers) /\ Len(q') = Len(q)
         /\ q'[n] \in Handlers /\ q'[n].pc = to
         /\ q'[n].iface = q[n].iface /\ q'[n].action = q[n].action
         /\ \A i \in DOMAIN q : i # n => q'[i] = q[i]
<1>1. q \in Seq(Handlers) /\ q[n] \in Handlers  BY DEF TablesTyped
<1> DEFINE h == [q[n] EXCEPT !.pc = to]
<1>2. h \in Handlers /\ h.pc = to /\ h.iface = q[n].iface /\ h.action = q[n].action
  BY <1>1 DEF Handlers
<1>3. q' = [q EXCEPT ![n] = h]  BY <1>1 DEF GoOn, Handlers
<1> HIDE DEF h
<1>4. [q EXCEPT ![n] = h] \in Seq(Handlers) /\ Len([q EXCEPT ![n] = h]) = Len(q)
  BY <1>1, <1>2
<1>5. q'[n] = h /\ \A i \in DOMAIN q : i # n => q'[i] = q[i]
  BY <1>1, <1>3
<1> QED BY <1>2, <1>3, <1>4, <1>5

\* A handler starts, at the end of the queue.
LEMMA Started ==
  ASSUME TablesTyped, NEW i \in Ifaces, NEW action \in {"ifup", "ifdown"}, NEW by \in Trackers \cup {0},
         q' = Append(q, Handler(i, action, by))
  PROVE  /\ q' \in Seq(Handlers) /\ Len(q') = Len(q) + 1
         /\ q'[Len(q) + 1].pc \in Waiting
         /\ \A n \in DOMAIN q : q'[n] = q[n]
<1> DEFINE h == Handler(i, action, by)
<1>1. h \in Handlers /\ h.pc \in Waiting  BY DEF Handler, Handlers, Waiting
<1>2. q \in Seq(Handlers)  BY DEF TablesTyped
<1> HIDE DEF h
<1>3. /\ Append(q, h) \in Seq(Handlers) /\ Len(Append(q, h)) = Len(q) + 1
      /\ Append(q, h)[Len(q) + 1] = h
      /\ \A n \in 1 .. Len(q) : Append(q, h)[n] = q[n]
  BY <1>1, <1>2
<1>4. q' = Append(q, h) /\ DOMAIN q = 1 .. Len(q)  BY <1>2 DEF h
<1> QED BY <1>1, <1>3, <1>4

\* A handler's tracker is killed.
LEMMA Left ==
  ASSUME TablesTyped, NEW p, q' = Orphaned(q, p)
  PROVE  /\ q' \in Seq(Handlers) /\ Len(q') = Len(q)
         /\ \A n \in DOMAIN q : /\ q'[n].pc = q[n].pc /\ q'[n].iface = q[n].iface
                                /\ q'[n].action = q[n].action
<1>1. q \in Seq(Handlers) /\ DOMAIN q = 1 .. Len(q) /\ Len(q) \in Nat  BY DEF TablesTyped
<1>2. ASSUME NEW n \in DOMAIN q
      PROVE  /\ q'[n] \in Handlers /\ q'[n].pc = q[n].pc /\ q'[n].iface = q[n].iface
             /\ q'[n].action = q[n].action
  <2>1. q[n] \in Handlers  BY <1>1
  <2>2. q'[n] = IF q[n].by = p THEN [q[n] EXCEPT !.by = 0] ELSE q[n]
    BY <1>2 DEF Orphaned
  <2> QED BY <2>1, <2>2 DEF Handlers
<1>3. q' = [n \in 1 .. Len(q) |-> q'[n]]  BY <1>1 DEF Orphaned
<1>4. q' \in Seq(Handlers) /\ Len(q') = Len(q)
  <2>1. q' \in [1 .. Len(q) -> Handlers]  BY <1>1, <1>2, <1>3
  <2> QED BY <1>1, <2>1
<1> QED BY <1>2, <1>4

---------------------------------------------------------------------------
(* mwan3: the tables *)

\* Steps that leave the tables alone: a new oldest handler, if there is one,
\* finds them in agreement.
LEMMA TablesKept ==
  ASSUME TablesTyped, TableInv, UNCHANGED tables, q' \in Seq(Handlers),
         \A n \in DOMAIN q' : n # 1 => q'[n].pc \in Waiting,
         q' = <<>> => q = <<>> \/ q[1].pc \in Waiting \cup {"chain"},
         q' # <<>> =>
           \/ /\ q # <<>> /\ q'[1].iface = q[1].iface /\ q'[1].action = q[1].action
              /\ q'[1].pc = q[1].pc \/ (q[1].pc = "track" /\ q'[1].pc = "policy")
           \/ /\ q'[1].pc \in Waiting \cup {"chain"}
              /\ q = <<>> \/ q[1].pc \in Waiting \cup {"chain"}
  PROVE  TurnInv' /\ TableInv'
<1>1. TurnInv'  BY DEF TurnInv
<1>2. chain' = chain /\ route' = route /\ rule' = rule /\ policy' = policy  BY DEF tables
<1>3. ASSUME q = <<>> \/ q[1].pc \in Waiting \cup {"chain"}
      PROVE  chain = route /\ route = rule /\ policy = chain
  BY <1>3 DEF TableInv, Progress
<1>4. q' = <<>> => chain' = route' /\ route' = rule' /\ policy' = chain'
  BY <1>2, <1>3
<1>5. q' # <<>> => Progress(q[1])'
  <2> SUFFICES ASSUME q' # <<>> PROVE Progress(q[1])'  OBVIOUS
  <2>1. CASE /\ q # <<>> /\ q'[1].iface = q[1].iface /\ q'[1].action = q[1].action
             /\ q'[1].pc = q[1].pc \/ (q[1].pc = "track" /\ q'[1].pc = "policy")
    BY <1>2, <2>1 DEF TableInv, Progress, Set, Waiting
  <2>2. CASE /\ q'[1].pc \in Waiting \cup {"chain"}
             /\ q = <<>> \/ q[1].pc \in Waiting \cup {"chain"}
    BY <1>2, <1>3, <2>2 DEF Progress, Waiting
  <2> QED BY <2>1, <2>2
<1> QED BY <1>1, <1>4, <1>5 DEF TableInv
\* A handler that is not at work on the tables ends.
LEMMA EndsEffect ==
  ASSUME IInv, NEW n \in DOMAIN q, Ends(n), UNCHANGED tables, q[n].pc \in Waiting
  PROVE  q' \in Seq(Handlers) /\ TurnInv' /\ TableInv'
<1>1. q \in Seq(Handlers) /\ DOMAIN q = 1 .. Len(q) /\ Len(q) \in Nat
  <2>1. q \in Seq(Handlers)  BY Zenon DEF IInv, TablesTyped
  <2> QED BY <2>1
<1>2. /\ q' \in Seq(Handlers) /\ Len(q') = Len(q) - 1
      /\ \A i \in 1 .. Len(q) - 1 : q'[i] = IF i < n THEN q[i] ELSE q[i + 1]
  BY <1>1, Removed DEF Ends
<1>3. DOMAIN q' = 1 .. Len(q) - 1  BY <1>2
<1>4. \A i \in DOMAIN q' : i # 1 => q'[i].pc \in Waiting
  <2> SUFFICES ASSUME NEW i \in DOMAIN q', i # 1 PROVE q'[i].pc \in Waiting  OBVIOUS
  <2>1. i \in DOMAIN q /\ i + 1 \in DOMAIN q /\ i + 1 # 1  BY <1>1, <1>3
  <2> QED BY <1>2, <1>3, <2>1 DEF IInv, TurnInv
<1>5. CASE n = 1
  <2>1. q' # <<>> => q'[1].pc \in Waiting
    <3> SUFFICES ASSUME q' # <<>> PROVE q'[1].pc \in Waiting  OBVIOUS
    <3>1. 1 \in 1 .. Len(q) - 1 /\ 2 \in DOMAIN q  BY <1>1, <1>2
    <3>2. q'[1] = q[2]  BY <1>2, <1>5, <3>1
    <3> QED BY <3>1, <3>2 DEF IInv, TurnInv
  <2>2. q[1].pc \in Waiting  BY <1>5
  <2> QED BY <1>2, <1>4, <2>1, <2>2, TablesKept DEF IInv
<1>6. CASE n # 1
  <2>1. 1 \in 1 .. Len(q) - 1 /\ 1 < n  BY <1>1, <1>6
  <2>2. q'[1] = q[1] /\ q # <<>> /\ q' # <<>>  BY <1>1, <1>2, <2>1
  <2> QED BY <1>2, <1>4, <2>2, TablesKept DEF IInv
<1> QED BY <1>5, <1>6

\* A handler goes on without touching the tables: where it waits, to its turn,
\* or past the start of the tracker.
LEMMA GoOnEffect ==
  ASSUME IInv, NEW n \in DOMAIN q, NEW to, GoOn(n, to), UNCHANGED tables,
         \/ q[n].pc \in Waiting /\ to = "turn"
         \/ n = 1 /\ q[n].pc \in Waiting /\ to = "chain"
         \/ q[n].pc = "track" /\ to = "policy"
  PROVE  q' \in Seq(Handlers) /\ TurnInv' /\ TableInv'
<1>1. q \in Seq(Handlers) /\ DOMAIN q = 1 .. Len(q) /\ Len(q) \in Nat  BY DEF IInv, TablesTyped
<1>2. /\ q' \in Seq(Handlers) /\ Len(q') = Len(q)
      /\ q'[n].pc = to /\ q'[n].iface = q[n].iface /\ q'[n].action = q[n].action
      /\ \A i \in DOMAIN q : i # n => q'[i] = q[i]
  BY WentOn DEF IInv, Waiting
<1>3. DOMAIN q' = DOMAIN q /\ 1 \in DOMAIN q /\ q # <<>>  BY <1>1, <1>2
<1>4. q[n].pc = "track" => n = 1  BY DEF IInv, TurnInv, Waiting
<1>5. \A i \in DOMAIN q' : i # 1 => q'[i].pc \in Waiting
  BY <1>2, <1>3, <1>4 DEF IInv, TurnInv, Waiting
<1>6. CASE n # 1
  BY <1>2, <1>3, <1>5, <1>6, TablesKept DEF IInv
<1>7. CASE n = 1
  <2>1. q' # <<>>  BY <1>1, <1>2
  <2> QED BY <1>2, <1>3, <1>5, <1>7, <2>1, TablesKept DEF IInv, Waiting
<1> QED BY <1>6, <1>7

\* A handler starts and waits.
LEMMA AppendEffect ==
  ASSUME IInv, NEW i \in Ifaces, NEW action \in {"ifup", "ifdown"}, NEW by \in Trackers \cup {0},
         q' = Append(q, Handler(i, action, by)), UNCHANGED tables
  PROVE  q' \in Seq(Handlers) /\ TurnInv' /\ TableInv'
<1>1. q \in Seq(Handlers) /\ DOMAIN q = 1 .. Len(q) /\ Len(q) \in Nat  BY DEF IInv, TablesTyped
<1>2. /\ q' \in Seq(Handlers) /\ Len(q') = Len(q) + 1
      /\ q'[Len(q) + 1].pc \in Waiting
      /\ \A n \in DOMAIN q : q'[n] = q[n]
  BY Started DEF IInv
<1>3. DOMAIN q' = 1 .. Len(q) + 1  BY <1>2
<1>4. \A n \in DOMAIN q' : n # 1 => q'[n].pc \in Waiting
  <2> SUFFICES ASSUME NEW n \in DOMAIN q', n # 1 PROVE q'[n].pc \in Waiting  OBVIOUS
  <2>1. n \in DOMAIN q \/ n = Len(q) + 1  BY <1>1, <1>3
  <2> QED BY <1>2, <2>1 DEF IInv, TurnInv
<1>5. q' # <<>>  BY <1>1, <1>2
<1>6. CASE q = <<>>
  <2>1. q'[1].pc \in Waiting  BY <1>2, <1>6
  <2> QED BY <1>2, <1>4, <1>5, <1>6, <2>1, TablesKept DEF IInv
<1>7. CASE q # <<>>
  <2>1. 1 \in DOMAIN q  BY <1>1, <1>7
  <2> QED BY <1>2, <1>4, <1>5, <1>7, <2>1, TablesKept DEF IInv
<1> QED BY <1>6, <1>7

\* A tracker dies, and its handler goes on without it.
LEMMA OrphanEffect ==
  ASSUME IInv, NEW p, q' = q \/ q' = Orphaned(q, p), UNCHANGED tables
  PROVE  q' \in Seq(Handlers) /\ TurnInv' /\ TableInv'
<1>1. q \in Seq(Handlers) /\ DOMAIN q = 1 .. Len(q) /\ Len(q) \in Nat  BY DEF IInv, TablesTyped
<1>2. /\ q' \in Seq(Handlers) /\ Len(q') = Len(q)
      /\ \A n \in DOMAIN q : /\ q'[n].pc = q[n].pc /\ q'[n].iface = q[n].iface
                             /\ q'[n].action = q[n].action
  BY <1>1, Left DEF IInv
<1>3. DOMAIN q' = DOMAIN q  BY <1>1, <1>2
<1>4. \A n \in DOMAIN q' : n # 1 => q'[n].pc \in Waiting  BY <1>2, <1>3 DEF IInv, TurnInv
<1>5. q' = <<>> => q = <<>>  BY <1>1, <1>2
<1>6. q' # <<>> => q # <<>> /\ 1 \in DOMAIN q  BY <1>1, <1>2
<1> QED BY <1>2, <1>4, <1>5, <1>6, TablesKept DEF IInv

\* The oldest handler, at work, brings one table further.
LEMMA WorkEffect ==
  ASSUME IInv, NEW n \in DOMAIN q,
         \/ mwan3_set_iface_iptables(n) \/ mwan3_set_iface_route(n) \/ mwan3_set_iface_rules(n)
         \/ mwan3_set_policies_iptables(n)
  PROVE  /\ q' \in Seq(Handlers) /\ TurnInv' /\ TableInv'
         /\ chain' \subseteq Ifaces /\ route' \subseteq Ifaces /\ rule' \subseteq Ifaces
         /\ policy' \subseteq Ifaces
<1>1. q \in Seq(Handlers) /\ DOMAIN q = 1 .. Len(q) /\ Len(q) \in Nat /\ q[n] \in Handlers
  BY DEF IInv, TablesTyped
<1>2. n = 1 /\ q # <<>> /\ Progress(q[1])
  BY <1>1 DEF IInv, TurnInv, TableInv, Waiting, At, mwan3_set_iface_iptables,
              mwan3_set_iface_route, mwan3_set_iface_rules, mwan3_set_policies_iptables
<1>3. /\ chain' \subseteq Ifaces /\ route' \subseteq Ifaces /\ rule' \subseteq Ifaces
      /\ policy' \subseteq Ifaces
  BY <1>1 DEF IInv, TablesTyped, Handlers, Set, mwan3_set_iface_iptables,
              mwan3_set_iface_route, mwan3_set_iface_rules, mwan3_set_policies_iptables
<1>4. CASE mwan3_set_policies_iptables(n)
  <2>1. /\ q' \in Seq(Handlers) /\ Len(q') = Len(q) - 1
        /\ \A i \in 1 .. Len(q) - 1 : q'[i] = IF i < n THEN q[i] ELSE q[i + 1]
    BY <1>1, <1>4, Removed DEF mwan3_set_policies_iptables, Ends
  <2>2. DOMAIN q' = 1 .. Len(q) - 1  BY <2>1
  <2>3. \A i \in DOMAIN q' : q'[i].pc \in Waiting
    <3> SUFFICES ASSUME NEW i \in DOMAIN q' PROVE q'[i].pc \in Waiting  OBVIOUS
    <3>1. i + 1 \in DOMAIN q /\ i + 1 # 1 /\ ~ (i < 1) /\ i \in 1 .. Len(q) - 1  BY <1>1, <2>2
    <3>2. q'[i] = q[i + 1]  BY <1>2, <2>1, <3>1
    <3> QED BY <3>1, <3>2 DEF IInv, TurnInv
  <2>4. chain' = route' /\ route' = rule' /\ policy' = chain'
    BY <1>2, <1>4 DEF mwan3_set_policies_iptables, At, Progress
  <2>5. q' # <<>> => 1 \in DOMAIN q'  BY <1>1, <2>1, <2>2
  <2> QED BY <1>3, <2>1, <2>3, <2>4, <2>5, SMTT(30) DEF TurnInv, TableInv, Progress, Waiting
<1>5. ASSUME NEW to \in {"route", "rule", "track", "policy"}, GoOn(n, to), Progress(q[1])'
      PROVE  q' \in Seq(Handlers) /\ TurnInv' /\ TableInv'
  <2>1. /\ q' \in Seq(Handlers) /\ Len(q') = Len(q)
        /\ \A i \in DOMAIN q : i # n => q'[i] = q[i]
    BY <1>5, WentOn DEF IInv
  <2>2. DOMAIN q' = DOMAIN q /\ q' # <<>>  BY <1>1, <1>2, <2>1
  <2>3. TurnInv'  BY <1>2, <2>1, <2>2 DEF IInv, TurnInv
  <2> QED BY <1>5, <2>1, <2>2, <2>3 DEF TableInv
<1>6. ASSUME NEW to \in {"route", "rule", "track", "policy"}, GoOn(n, to)
      PROVE  q'[1].pc = to /\ q'[1].iface = q[1].iface /\ q'[1].action = q[1].action
  BY <1>2, <1>6, WentOn DEF IInv
<1>7. CASE mwan3_set_iface_iptables(n)
  <2>1. GoOn(n, "route") /\ q[1].pc = "chain"  BY <1>2, <1>7 DEF mwan3_set_iface_iptables, At
  <2>2. Progress(q[1])'
    BY <1>2, <1>6, <1>7, <2>1 DEF mwan3_set_iface_iptables, Progress, Set, Waiting
  <2> QED BY <1>3, <1>5, <2>1, <2>2
<1>8. CASE mwan3_set_iface_route(n)
  <2>1. GoOn(n, "rule") /\ q[1].pc = "route"  BY <1>2, <1>8 DEF mwan3_set_iface_route, At
  <2>2. Progress(q[1])'
    BY <1>2, <1>6, <1>8, <2>1 DEF mwan3_set_iface_route, Progress, Set, Waiting
  <2> QED BY <1>3, <1>5, <2>1, <2>2
<1>9. CASE mwan3_set_iface_rules(n)
  <2>1. PICK to \in {"track", "policy"} : GoOn(n, to)
    BY <1>9 DEF mwan3_set_iface_rules
  <2>2. q[1].pc = "rule"  BY <1>2, <1>9 DEF mwan3_set_iface_rules, At
  <2>3. Progress(q[1])'
    BY <1>2, <1>6, <1>9, <2>1, <2>2 DEF mwan3_set_iface_rules, Progress, Set, Waiting
  <2> QED BY <1>3, <1>5, <2>1, <2>3
<1> QED BY <1>3, <1>4, <1>7, <1>8, <1>9
---------------------------------------------------------------------------
(* mwan3: the trackers *)

\* A tracker that is not there.
LEMMA OffType == ASSUME ConstAssumption PROVE Off \in Tracks /\ Off.pc = "off"
<1>1. (CHOOSE i \in Ifaces : TRUE) \in Ifaces  BY DEF ConstAssumption
<1>2. 0 \in 0 .. down + up  BY DEF ConstAssumption
<1> QED BY <1>1, <1>2 DEF Off, Tracks

\* One tracker changes, and the pid files do not.
LEMMA TrackerMoves ==
  ASSUME ConstAssumption, IInv, NEW t \in Trackers, NEW r \in Tracks,
         trk' = [trk EXCEPT ![t] = r], pidfile' = pidfile,
         ScoreOK(r),
         \/ trk[t].pc \notin Running /\ r.pc \notin Running
         \/ trk[t].pc \in Running /\ r.pc \in Running /\ r.iface = trk[t].iface
  PROVE  /\ trk' \in [Trackers -> Tracks] /\ PidInv'
         /\ \A s \in Trackers : ScoreOK(trk'[s])
<1>1. trk \in [Trackers -> Tracks] /\ pidfile \in [Ifaces -> Trackers \cup {0}]
  BY DEF IInv, TablesTyped
<1>2. trk'[t] = r /\ \A s \in Trackers : s # t => trk'[s] = trk[s]  BY <1>1
<1>3. trk' \in [Trackers -> Tracks]  BY <1>1
<1>4. \A s \in Trackers : ScoreOK(trk'[s])
  BY <1>2 DEF IInv, TablesTyped
<1>5. \A s \in Trackers : trk'[s].pc \in Running => pidfile'[trk'[s].iface] = s
  BY <1>2 DEF IInv, PidInv
<1>6. ASSUME NEW i \in Ifaces, pidfile'[i] # 0
      PROVE  trk'[pidfile'[i]].pc \in Running /\ trk'[pidfile'[i]].iface = i
  <2>1. pidfile[i] \in Trackers /\ trk[pidfile[i]].pc \in Running /\ trk[pidfile[i]].iface = i
    BY <1>1, <1>6 DEF IInv, PidInv
  <2> QED BY <1>2, <2>1
<1> QED BY <1>3, <1>4, <1>5, <1>6 DEF PidInv

\* mwan3_track
LEMMA TrackEffect ==
  ASSUME ConstAssumption, IInv, NEW n \in DOMAIN q, mwan3_track(n)
  PROVE  IInv'
<1>1. PICK t \in Trackers :
        /\ trk[t].pc = "off"
        /\ trk' = [trk EXCEPT ![t] = [Off EXCEPT !.pc = "start", !.iface = q[n].iface]]
  BY DEF mwan3_track
<1> DEFINE r == [Off EXCEPT !.pc = "start", !.iface = q[n].iface]
<1>2. q[n] \in Handlers  BY DEF IInv, TablesTyped
<1>3. r \in Tracks /\ r.pc = "start"  BY <1>2, OffType DEF Tracks, Handlers
<1>4. /\ trk' \in [Trackers -> Tracks] /\ PidInv'
      /\ \A s \in Trackers : ScoreOK(trk'[s])
  <2>1. trk' = [trk EXCEPT ![t] = r] /\ pidfile' = pidfile  BY <1>1 DEF mwan3_track
  <2> HIDE DEF r
  <2> QED BY <1>1, <1>3, <2>1, TrackerMoves DEF Running, ScoreOK
<1>5. q' \in Seq(Handlers) /\ TurnInv' /\ TableInv'
  <2>1. GoOn(n, "policy") /\ UNCHANGED tables /\ q[n].pc = "track"  BY DEF mwan3_track, At
  <2> QED BY <2>1, GoOnEffect
<1>6. UNCHANGED <<tables, dev, alive, pidfile>>  BY DEF mwan3_track, world
<1> QED BY <1>4, <1>5, <1>6 DEF IInv, TablesTyped, tables

\* The handlers.
LEMMA HandlerInv == ASSUME ConstAssumption, IInv, HandlerStep PROVE IInv'
<1>1. PICK n \in DOMAIN q :
        \/ FindGateway(n) \/ WaitTurn(n) \/ mwan3_set_iface_iptables(n)
        \/ mwan3_set_iface_route(n) \/ mwan3_set_iface_rules(n) \/ mwan3_track(n)
        \/ mwan3_set_policies_iptables(n)
  BY DEF HandlerStep
<1>2. CASE FindGateway(n) \/ WaitTurn(n)
  <2>1. UNCHANGED <<tables, world, trk, pidfile>> /\ q[n].pc \in Waiting
    BY <1>2 DEF FindGateway, WaitTurn, At, Waiting
  <2>2. q' \in Seq(Handlers) /\ TurnInv' /\ TableInv'
    <3>1. \/ GoOn(n, "turn") \/ Ends(n)
          \/ n = 1 /\ GoOn(n, "chain")
      BY <1>2 DEF FindGateway, WaitTurn
    <3> QED BY <2>1, <3>1, GoOnEffect, EndsEffect
  <2> QED BY <2>1, <2>2 DEF IInv, TablesTyped, PidInv, tables, world
<1>3. CASE \/ mwan3_set_iface_iptables(n) \/ mwan3_set_iface_route(n)
           \/ mwan3_set_iface_rules(n) \/ mwan3_set_policies_iptables(n)
  <2>1. /\ q' \in Seq(Handlers) /\ TurnInv' /\ TableInv'
        /\ chain' \subseteq Ifaces /\ route' \subseteq Ifaces /\ rule' \subseteq Ifaces
        /\ policy' \subseteq Ifaces
    BY <1>3, WorkEffect
  <2>2. UNCHANGED <<world, trk, pidfile>>
    BY <1>3 DEF mwan3_set_iface_iptables, mwan3_set_iface_route, mwan3_set_iface_rules,
                mwan3_set_policies_iptables
  <2> QED BY <2>1, <2>2 DEF IInv, TablesTyped, PidInv, world
<1>4. CASE mwan3_track(n)  BY <1>4, TrackEffect
<1> QED BY <1>1, <1>2, <1>3, <1>4

\* A tracker starts: it kills the one in the pid file, which is of its own
\* interface.
LEMMA StartEffect ==
  ASSUME ConstAssumption, IInv, NEW t \in Trackers, Start(t)
  PROVE  IInv'
<1> DEFINE i == trk[t].iface
           p == pidfile[i]
<1>1. /\ trk \in [Trackers -> Tracks] /\ pidfile \in [Ifaces -> Trackers \cup {0}]
      /\ trk[t] \in Tracks /\ i \in Ifaces /\ trk[t].pc = "start"
  BY DEF IInv, TablesTyped, Start, Tracks
<1>2. Starting(t) \in Tracks /\ Starting(t).pc = "ping" /\ Starting(t).iface = i
      /\ Starting(t).score # up
  <2>1. down + up \in 0 .. down + up /\ down + up # up  BY DEF ConstAssumption
  <2> QED BY <1>1, <2>1 DEF Starting, Tracks, Running
<1>3. /\ trk' = [s \in Trackers |-> IF s = t THEN Starting(t) ELSE IF s = p THEN Off ELSE trk[s]]
      /\ pidfile' = [pidfile EXCEPT ![i] = t]
      /\ q' = q \/ q' = Orphaned(q, p)
      /\ UNCHANGED <<tables, world>>
  BY DEF Start
<1> HIDE DEF i, p
<1>4. q' \in Seq(Handlers) /\ TurnInv' /\ TableInv'  BY <1>3, OrphanEffect
<1>5. trk' \in [Trackers -> Tracks]  BY <1>1, <1>2, <1>3, OffType
<1>6. /\ trk'[t] = Starting(t)
      /\ \A s \in Trackers : s # t => trk'[s] = IF s = p THEN Off ELSE trk[s]
  BY <1>3
<1>7. \A s \in Trackers : ScoreOK(trk'[s])
  BY <1>2, <1>6, OffType DEF IInv, TablesTyped, ScoreOK
<1>8. pidfile' \in [Ifaces -> Trackers \cup {0}] /\ pidfile'[i] = t
      /\ \A j \in Ifaces : j # i => pidfile'[j] = pidfile[j]
  BY <1>1, <1>3
<1>9. \A s \in Trackers : trk'[s].pc \in Running => pidfile'[trk'[s].iface] = s
  <2> SUFFICES ASSUME NEW s \in Trackers, trk'[s].pc \in Running
               PROVE  pidfile'[trk'[s].iface] = s
    OBVIOUS
  <2>1. CASE s = t  BY <1>2, <1>6, <1>8, <2>1
  <2>2. CASE s # t
    <3>1. trk'[s] = trk[s] /\ s # p  BY <1>6, <2>2, OffType DEF Running
    <3>2. trk[s].iface \in Ifaces  BY <1>1 DEF Tracks
    <3>3. pidfile[trk[s].iface] = s  BY <3>1 DEF IInv, PidInv
    <3>4. trk[s].iface # i  BY <3>1, <3>3 DEF p
    <3> QED BY <1>8, <3>1, <3>2, <3>3, <3>4
  <2> QED BY <2>1, <2>2
<1>10. \A j \in Ifaces :
         pidfile'[j] # 0 => trk'[pidfile'[j]].pc \in Running /\ trk'[pidfile'[j]].iface = j
  <2> SUFFICES ASSUME NEW j \in Ifaces, pidfile'[j] # 0
               PROVE  trk'[pidfile'[j]].pc \in Running /\ trk'[pidfile'[j]].iface = j
    OBVIOUS
  <2>1. CASE j = i  BY <1>2, <1>6, <1>8, <2>1 DEF Running
  <2>2. CASE j # i
    <3>1. /\ pidfile'[j] = pidfile[j] /\ pidfile[j] \in Trackers
          /\ trk[pidfile[j]].pc \in Running /\ trk[pidfile[j]].iface = j
      BY <1>1, <1>8, <2>2 DEF IInv, PidInv
    <3>2. pidfile[j] # t  BY <1>1, <3>1 DEF Running
    <3>3. pidfile[j] # p
      <4> SUFFICES ASSUME pidfile[j] = p PROVE FALSE  OBVIOUS
      <4>1. p # 0  BY <3>1, <1>8, <2>2
      <4>2. trk[p].iface = i  BY <1>1, <4>1 DEF IInv, PidInv, p
      <4> QED BY <2>2, <3>1, <4>2
    <3> QED BY <1>6, <3>1, <3>2, <3>3
  <2> QED BY <2>1, <2>2
<1> QED BY <1>3, <1>4, <1>5, <1>7, <1>8, <1>9, <1>10 DEF IInv, TablesTyped, PidInv, tables, world

\* A round of pings.
LEMMA PingEffect ==
  ASSUME ConstAssumption, IInv, NEW t \in Trackers, Ping(t)
  PROVE  IInv'
<1> DEFINE s == IF Answers(t) THEN Found(trk[t].score) ELSE Lost(trk[t].score)
<1>1. /\ trk \in [Trackers -> Tracks] /\ trk[t] \in Tracks /\ trk[t].pc = "ping"
      /\ trk[t].iface \in Ifaces /\ trk[t].score \in 0 .. down + up
  BY DEF IInv, TablesTyped, Ping, Tracks
<1>2. s \in 0 .. down + up
  BY <1>1 DEF ConstAssumption, Found, Lost
<1>3. UNCHANGED <<tables, world, pidfile>>  BY DEF Ping
<1> HIDE DEF s
<1>4. ASSUME NEW action \in {"ifup", "ifdown"}, NEW x \in 0 .. down + up,
             NEW to \in {"down", "up"}, to = "down" => x = 0, Calls(t, action, x, to)
      PROVE  IInv'
  <2> DEFINE r == [trk[t] EXCEPT !.score = x, !.pc = to]
  <2>1. r \in Tracks /\ r.pc = to /\ r.iface = trk[t].iface /\ ScoreOK(r)
    BY <1>1, <1>4 DEF Tracks, Running, ScoreOK
  <2>2. trk' = [trk EXCEPT ![t] = r]  BY <1>1, <1>4 DEF Calls, Tracks
  <2>3. q' = Append(q, Handler(trk[t].iface, action, t))  BY <1>4 DEF Calls
  <2> HIDE DEF r
  <2>4. /\ trk' \in [Trackers -> Tracks] /\ PidInv'
        /\ \A u \in Trackers : ScoreOK(trk'[u])
    BY <1>1, <1>3, <2>1, <2>2, TrackerMoves DEF Running
  <2>5. q' \in Seq(Handlers) /\ TurnInv' /\ TableInv'
    BY <1>1, <1>3, <2>3, AppendEffect
  <2> QED BY <1>3, <2>4, <2>5 DEF IInv, TablesTyped, tables, world
<1>5. CASE Calls(t, "ifdown", 0, "down")
  <2>1. 0 \in 0 .. down + up  BY DEF ConstAssumption
  <2> QED BY <1>4, <1>5, <2>1
<1>6. CASE Calls(t, "ifup", s, "up")  BY <1>2, <1>4, <1>6
<1>7. CASE s # up /\ trk' = [trk EXCEPT ![t].score = s] /\ UNCHANGED q
  <2> DEFINE r == [trk[t] EXCEPT !.score = s]
  <2>1. r \in Tracks /\ r.pc = "ping" /\ r.iface = trk[t].iface /\ r.score = s
    BY <1>1, <1>2 DEF Tracks
  <2>2. trk' = [trk EXCEPT ![t] = r]  BY <1>1, <1>7 DEF Tracks
  <2> HIDE DEF r
  <2>3. /\ trk' \in [Trackers -> Tracks] /\ PidInv'
        /\ \A u \in Trackers : ScoreOK(trk'[u])
    BY <1>1, <1>3, <1>7, <2>1, <2>2, TrackerMoves DEF Running, ScoreOK
  <2>4. q' \in Seq(Handlers) /\ TurnInv' /\ TableInv'
    BY <1>3, <1>7, OrphanEffect
  <2> QED BY <1>3, <2>3, <2>4 DEF IInv, TablesTyped, tables, world
<1> QED BY <1>5, <1>6, <1>7 DEF Ping, s

\* hotplug-call returns.
LEMMA ReturnedEffect ==
  ASSUME ConstAssumption, IInv, NEW t \in Trackers, Returned(t)
  PROVE  IInv'
<1>1. /\ trk \in [Trackers -> Tracks] /\ trk[t] \in Tracks /\ trk[t].pc \in {"down", "up"}
      /\ trk[t].iface \in Ifaces /\ pidfile \in [Ifaces -> Trackers \cup {0}]
  BY DEF IInv, TablesTyped, Returned, Tracks
<1>2. UNCHANGED <<tables, world, q>>  BY DEF Returned
<1>3. q' \in Seq(Handlers) /\ TurnInv' /\ TableInv'  BY <1>2, OrphanEffect
<1>4. CASE trk[t].pc = "down"
  <2> DEFINE r == [trk[t] EXCEPT !.pc = "ping"]
  <2>1. r \in Tracks /\ r.pc = "ping" /\ r.iface = trk[t].iface /\ r.score = trk[t].score
    BY <1>1 DEF Tracks, Running
  <2>2. trk' = [trk EXCEPT ![t] = r] /\ pidfile' = pidfile
    BY <1>1, <1>4 DEF Returned, Tracks
  <2>3. ScoreOK(r)  BY <1>4, <2>1 DEF IInv, TablesTyped, ConstAssumption, ScoreOK
  <2> HIDE DEF r
  <2>4. /\ trk' \in [Trackers -> Tracks] /\ PidInv'
        /\ \A u \in Trackers : ScoreOK(trk'[u])
    BY <1>4, <2>1, <2>2, <2>3, TrackerMoves DEF Running
  <2> QED BY <1>2, <1>3, <2>2, <2>4 DEF IInv, TablesTyped, tables, world
<1>5. CASE trk[t].pc = "up"
  <2> DEFINE i == trk[t].iface
  <2>1. trk' = [trk EXCEPT ![t] = Off] /\ pidfile' = [pidfile EXCEPT ![i] = 0]
    BY <1>1, <1>5 DEF Returned
  <2>2. pidfile[i] = t /\ i \in Ifaces  BY <1>1, <1>5 DEF IInv, PidInv, Running
  <2> HIDE DEF i
  <2>3. /\ trk' \in [Trackers -> Tracks] /\ trk'[t] = Off
        /\ \A s \in Trackers : s # t => trk'[s] = trk[s]
    BY <1>1, <2>1, OffType
  <2>4. /\ pidfile' \in [Ifaces -> Trackers \cup {0}] /\ pidfile'[i] = 0
        /\ \A j \in Ifaces : j # i => pidfile'[j] = pidfile[j]
    BY <1>1, <2>1, <2>2
  <2>5. \A s \in Trackers : ScoreOK(trk'[s])
    BY <2>3, OffType DEF IInv, TablesTyped, ScoreOK
  <2>6. \A s \in Trackers : trk'[s].pc \in Running => pidfile'[trk'[s].iface] = s
    <3> SUFFICES ASSUME NEW s \in Trackers, trk'[s].pc \in Running
                 PROVE  pidfile'[trk'[s].iface] = s
      OBVIOUS
    <3>1. s # t /\ trk'[s] = trk[s]  BY <2>3, OffType DEF Running
    <3>2. trk[s].iface \in Ifaces  BY <1>1 DEF Tracks
    <3>3. pidfile[trk[s].iface] = s  BY <3>1 DEF IInv, PidInv
    <3> QED BY <2>2, <2>4, <3>1, <3>2, <3>3
  <2>7. \A j \in Ifaces :
          pidfile'[j] # 0 => trk'[pidfile'[j]].pc \in Running /\ trk'[pidfile'[j]].iface = j
    <3> SUFFICES ASSUME NEW j \in Ifaces, pidfile'[j] # 0
                 PROVE  trk'[pidfile'[j]].pc \in Running /\ trk'[pidfile'[j]].iface = j
      OBVIOUS
    <3>1. j # i /\ pidfile'[j] = pidfile[j]  BY <2>4
    <3>2. /\ pidfile[j] \in Trackers /\ trk[pidfile[j]].pc \in Running
          /\ trk[pidfile[j]].iface = j
      BY <1>1, <3>1 DEF IInv, PidInv
    <3>3. pidfile[j] # t  BY <3>1, <3>2 DEF i
    <3> QED BY <2>3, <3>1, <3>2, <3>3
  <2> QED BY <1>2, <1>3, <2>3, <2>4, <2>5, <2>6, <2>7 DEF IInv, TablesTyped, PidInv, tables, world
<1> QED BY <1>1, <1>4, <1>5
---------------------------------------------------------------------------
(* mwan3: the theorems *)

\* The invariant holds at the start.
LEMMA InitInv == ASSUME ConstAssumption, Init PROVE IInv
<1>1. PICK s \in SetToSeqs(Ifaces) : q = [n \in DOMAIN s |-> Handler(s[n], "ifup", 0)]
  BY DEF Init
<1>2. Cardinality(Ifaces) \in Nat  BY FS_CardinalityType DEF ConstAssumption
<1>3. s \in [1 .. Cardinality(Ifaces) -> Ifaces]  BY DEF SetToSeqs
<1>4. \A i \in Ifaces : Handler(i, "ifup", 0) \in Handlers /\ Handler(i, "ifup", 0).pc \in Waiting
  BY DEF Handler, Handlers, Waiting
<1>5. q \in [1 .. Cardinality(Ifaces) -> Handlers] /\ \A n \in DOMAIN q : q[n].pc \in Waiting
  BY <1>1, <1>3, <1>4
<1>6. q \in Seq(Handlers)  BY <1>2, <1>5
<1>7. trk = [t \in Trackers |-> Off] /\ pidfile = [i \in Ifaces |-> 0]
      /\ dev = Ifaces /\ alive = Ifaces /\ chain = {} /\ route = {} /\ rule = {} /\ policy = {}
  BY DEF Init
<1>8. trk \in [Trackers -> Tracks] /\ \A t \in Trackers : trk[t].pc = "off" /\ ScoreOK(trk[t])
  BY <1>7, OffType DEF ScoreOK
<1>9. TablesTyped  BY <1>6, <1>7, <1>8 DEF TablesTyped
<1>10. TurnInv  BY <1>5 DEF TurnInv
<1>11. TableInv
  <2>1. q # <<>> => 1 \in DOMAIN q  BY <1>6
  <2> QED BY <1>5, <1>7, <2>1 DEF TableInv, Progress, Waiting
<1>12. PidInv  BY <1>7, <1>8 DEF PidInv, Running
<1> QED BY <1>9, <1>10, <1>11, <1>12 DEF IInv

\* Every step keeps it.
LEMMA StepInv == ASSUME ConstAssumption, IInv, [Next]_vars PROVE IInv'
<1>1. CASE HandlerStep  BY <1>1, HandlerInv
<1>2. ASSUME NEW t \in Trackers, TrackerStep(t) PROVE IInv'
  BY <1>2, StartEffect, PingEffect, ReturnedEffect DEF TrackerStep
<1>3. ASSUME NEW i \in Ifaces, Flip(i) PROVE IInv'
  <2>1. UNCHANGED <<tables, dev, q, trk, pidfile>> /\ alive' \subseteq Ifaces
    BY <1>3 DEF Flip, IInv, TablesTyped
  <2> QED BY <2>1 DEF IInv, TablesTyped, TurnInv, TableInv, Progress, Set, PidInv, tables
<1>4. ASSUME NEW i \in Ifaces, NetifdEvent(i) PROVE IInv'
  <2>1. UNCHANGED <<tables, alive, trk, pidfile>> /\ dev' \subseteq Ifaces
    BY <1>4 DEF NetifdEvent, IInv, TablesTyped
  <2>2. q' \in Seq(Handlers) /\ TurnInv' /\ TableInv'
    BY <1>4, <2>1, AppendEffect DEF NetifdEvent
  <2> QED BY <2>1, <2>2 DEF IInv, TablesTyped, PidInv, tables
<1>5. CASE UNCHANGED vars
  BY <1>5 DEF vars, tables, world, IInv, TablesTyped, TurnInv, TableInv, Progress, Set, PidInv
<1> QED BY <1>1, <1>2, <1>3, <1>4, <1>5 DEF Next

\* What the invariant says of the tables and of the trackers.
LEMMA InvTables == ASSUME ConstAssumption, IInv PROVE TablesOK
<1>1. TypeOK
  <2>1. \A n \in DOMAIN q : q[n] \in Handlers  BY DEF IInv, TablesTyped
  <2>2. \A t \in Trackers : trk[t] \in Tracks /\ ScoreOK(trk[t])  BY DEF IInv, TablesTyped
  <2>3. 0 .. down + up \subseteq {0} \cup 1 .. up \cup (up + 1) .. (down + up)
    BY DEF ConstAssumption
  <2> QED BY <2>1, <2>2, <2>3
          DEF TypeOK, IInv, TablesTyped, Handlers, Tracks, Waiting, Running, ScoreOK
<1>2. TablesAgree
  <2>1. q # <<>> => 1 \in DOMAIN q  BY DEF IInv, TablesTyped
  <2> QED BY <2>1 DEF TablesAgree, IInv, TableInv, Progress, Waiting
<1>3. OneTracker
  <2> SUFFICES ASSUME NEW i \in Ifaces
               PROVE  Cardinality({t \in Trackers : trk[t].pc \notin {"off", "start"}
                                                     /\ trk[t].iface = i}) <= 1
    BY DEF OneTracker
  <2> DEFINE S == {t \in Trackers : trk[t].pc \notin {"off", "start"} /\ trk[t].iface = i}
  <2>1. \A t \in S : t = pidfile[i]
    BY DEF IInv, TablesTyped, PidInv, Tracks, Running
  <2>2. S = {} \/ S = {pidfile[i]}  BY <2>1
  <2>3. Cardinality(S) = 0 \/ Cardinality(S) = 1  BY <2>2, FS_EmptySet, FS_Singleton
  <2> QED BY <2>3
<1> QED BY <1>1, <1>2, <1>3 DEF TablesOK

\* 15-mwan3 and mwan3track: whatever handlers overlap, give up or lose their
\* tracker, the tables agree when none is at work, and every interface has one
\* tracker at most.
THEOREM TablesHold == ASSUME ConstAssumption PROVE Spec => []TablesOK
<1>1. Init => IInv  BY InitInv
<1>2. IInv /\ [Next]_vars => IInv'  BY StepInv
<1>3. IInv => TablesOK  BY InvTables
<1> QED BY <1>1, <1>2, <1>3, PTL DEF Spec

\* mwan3track, lines 5 to 12: the process that the pid file names is a tracker
\* of this very interface, so a start kills no other.
KillsItsOwn ==
  \A t \in Trackers :
    trk[t].pc = "start" /\ pidfile[trk[t].iface] # 0 =>
      trk[pidfile[trk[t].iface]].iface = trk[t].iface

\* The pid file is never stale, although pids are used again.
THEOREM PidFilesHold == ASSUME ConstAssumption PROVE Spec => []KillsItsOwn
<1>1. Init => IInv  BY InitInv
<1>2. IInv /\ [Next]_vars => IInv'  BY StepInv
<1>3. IInv => KillsItsOwn
  BY DEF IInv, TablesTyped, Tracks, PidInv, KillsItsOwn
<1> QED BY <1>1, <1>2, <1>3, PTL DEF Spec

---------------------------------------------------------------------------
(* mwan3_set_policy: a fold over the members *)

\* A set of natural numbers has a least one.
LEMMA Least ==
  ASSUME NEW T \in SUBSET Nat, T # {}
  PROVE  \E x \in T : \A y \in T : x <= y
<1>1. PICK x \in T : \A y \in T : ~ (<<y, x>> \in OpToRel(<, Nat))
  BY WFMin, NatLessThanWellFounded
<1>2. \A n, m \in Nat : <<m, n>> \in OpToRel(<, Nat) <=> m < n  BY DEF OpToRel
<1> HIDE DEF OpToRel
<1>3. ASSUME NEW y \in T PROVE x <= y
  <2>1. x \in Nat /\ y \in Nat  OBVIOUS
  <2>2. ~ (y < x)  BY <1>1, <1>2, <2>1
  <2> QED BY <2>1, <2>2
<1> QED BY <1>3

\* Induction up to a bound, with a set for the predicate.
LEMMA UpTo ==
  ASSUME NEW N \in Nat, NEW T, 0 \in T, \A n \in 0..N-1 : n \in T => n + 1 \in T
  PROVE  \A n \in 0..N : n \in T
<1> DEFINE B == {n \in 0..N : n \notin T}
<1> SUFFICES ASSUME B # {} PROVE FALSE  OBVIOUS
<1>1. B \in SUBSET Nat  OBVIOUS
<1>2. PICK x \in B : \A y \in B : x <= y
  <2> HIDE DEF B
  <2> QED BY <1>1, Least
<1>3. x \in 0..N /\ x # 0 /\ x \notin T  OBVIOUS
<1>4. x - 1 \in 0..N-1 /\ (x - 1) + 1 = x /\ ~ (x <= x - 1) /\ x - 1 \in 0..N  BY <1>3
<1>5. x - 1 \in T  BY <1>2, <1>4
<1> QED BY <1>3, <1>4, <1>5

\* What FoldLeft takes first.
LEMMA GreatestIs ==
  ASSUME NEW n \in Nat, NEW t \in SUBSET (1 .. n + 1), n + 1 \in t
  PROVE  Policy!Max(t) = n + 1
<1>1. n + 1 \in t /\ \A y \in t : n + 1 >= y  OBVIOUS
<1>2. \A x \in t : (\A y \in t : x >= y) => x = n + 1  OBVIOUS
<1> QED BY <1>1, <1>2 DEF Policy!Max

\* The policy that mwan3_set_policy makes of base and the members s.
Policies(base, s) == Policy!FoldLeft(Policy!mwan3_set_policy, base, s)

\* FoldLeft from left to right: g[k] is what the first k members make of base.
LEMMA FoldIs ==
  ASSUME NEW N \in Nat, NEW s, DOMAIN s = 1 .. N, NEW base
  PROVE  \E g : /\ g[0] = base
                /\ \A k \in 0 .. N - 1 : g[k + 1] = Policy!mwan3_set_policy(g[k], s[k + 1])
                /\ Policies(base, s) = g[N]
<1> DEFINE Op(x, y) == Policy!mwan3_set_policy(y, x)
           F(f, n) == [t \in SUBSET (1 .. n) |->
                         IF t = {} THEN base
                         ELSE Op(s[Policy!Max(t)], f[t \ {Policy!Max(t)}])]
           T == {n \in 0 .. N : \E f : f = F(f, n)}
           iter == CHOOSE f : f = F(f, N)
<1>1. 0 \in T
  <2> DEFINE f == [t \in SUBSET (1 .. 0) |-> base]
  <2>1. f = F(f, 0)
    <3>1. \A t \in SUBSET (1 .. 0) : t = {}  OBVIOUS
    <3> HIDE DEF Op
    <3> QED BY <3>1
  <2> HIDE DEF f, F
  <2> QED BY <2>1
<1>2. \A n \in 0 .. N - 1 : n \in T => n + 1 \in T
  <2> SUFFICES ASSUME NEW n \in 0 .. N - 1, n \in T PROVE n + 1 \in T  OBVIOUS
  <2>1. PICK f : f = F(f, n)  OBVIOUS
  <2> HIDE DEF Op
  <2>2. \A t \in SUBSET (1 .. n) :
          f[t] = IF t = {} THEN base ELSE Op(s[Policy!Max(t)], f[t \ {Policy!Max(t)}])
    BY <2>1
  <2> DEFINE h == [t \in SUBSET (1 .. n + 1) |->
                     IF n + 1 \in t THEN Op(s[n + 1], f[t \ {n + 1}]) ELSE f[t]]
  <2>3. ASSUME NEW t \in SUBSET (1 .. n + 1)
        PROVE  h[t] = IF t = {} THEN base ELSE Op(s[Policy!Max(t)], h[t \ {Policy!Max(t)}])
    <3>1. CASE n + 1 \in t
      <4>1. Policy!Max(t) = n + 1  BY <3>1, GreatestIs
      <4>2. t \ {n + 1} \in SUBSET (1 .. n + 1) /\ n + 1 \notin t \ {n + 1} /\ t # {}  BY <3>1
      <4>3. h[t] = Op(s[n + 1], f[t \ {n + 1}]) /\ h[t \ {n + 1}] = f[t \ {n + 1}]
        BY <3>1, <4>2
      <4> HIDE DEF h
      <4> QED BY <4>1, <4>2, <4>3
    <3>2. CASE n + 1 \notin t
      <4> DEFINE r == t \ {Policy!Max(t)}
      <4>1. t \in SUBSET (1 .. n) /\ r \in SUBSET (1 .. n + 1) /\ n + 1 \notin r
        <5>1. \A x \in t : x \in 1 .. n  BY <3>2
        <5>2. \A x \in r : x \in t  OBVIOUS
        <5> HIDE DEF r
        <5> QED BY <3>2, <5>1, <5>2
      <4>2. h[t] = f[t] /\ h[r] = f[r]  BY <3>2, <4>1
      <4>3. f[t] = IF t = {} THEN base ELSE Op(s[Policy!Max(t)], f[r])  BY <2>2, <4>1
      <4> HIDE DEF h, r
      <4> QED BY <4>2, <4>3 DEF r
    <3> QED BY <3>1, <3>2
  <2>4. h = F(h, n + 1)
    <3>1. h = [t \in SUBSET (1 .. n + 1) |-> h[t]]  OBVIOUS
    <3> HIDE DEF h
    <3> QED BY <2>3, <3>1
  <2> HIDE DEF h, F
  <2>5. n + 1 \in 0 .. N  OBVIOUS
  <2> QED BY <2>4, <2>5
<1>3. N \in T
  <2> HIDE DEF T
  <2>1. \A n \in 0 .. N : n \in T  BY <1>1, <1>2, UpTo
  <2> QED BY <2>1
<1>4. iter = F(iter, N)
  <2> HIDE DEF F
  <2> QED BY <1>3
<1>5. Policies(base, s) = iter[1 .. N]
  BY DEF Policies, Policy!FoldLeft, Policy!MapThenFoldSet
<1> HIDE DEF iter, T, Op
<1>6. \A t \in SUBSET (1 .. N) :
        iter[t] = IF t = {} THEN base ELSE Op(s[Policy!Max(t)], iter[t \ {Policy!Max(t)}])
  BY <1>4
<1> HIDE DEF F
<1> DEFINE g == [k \in 0 .. N |-> iter[1 .. k]]
<1>7. g[0] = base
  <2>1. 1 .. 0 = {} /\ {} \in SUBSET (1 .. N) /\ 0 \in 0 .. N  OBVIOUS
  <2> QED BY <1>6, <2>1
<1>8. ASSUME NEW k \in 0 .. N - 1
      PROVE  g[k + 1] = Policy!mwan3_set_policy(g[k], s[k + 1])
  <2>1. 1 .. k + 1 \in SUBSET (1 .. N) /\ k + 1 \in 1 .. k + 1 /\ (1 .. k + 1) \ {k + 1} = 1 .. k
    OBVIOUS
  <2>2. Policy!Max(1 .. k + 1) = k + 1  BY <2>1, GreatestIs
  <2>3. iter[1 .. k + 1] = Op(s[k + 1], iter[1 .. k])  BY <1>6, <2>1, <2>2
  <2> QED BY <2>3 DEF Op
<1>9. g[N] = iter[1 .. N]  OBVIOUS
<1> HIDE DEF g
<1> QED BY <1>5, <1>7, <1>8, <1>9

---------------------------------------------------------------------------
(* mwan3_set_policy: the members of the lowest metric *)

\* What mwan3_set_policies_iptables starts from.
NoPolicy == [chain |-> <<Policy!Unreachable>>, lowest |-> 256, total |-> 0]
Rules == {Policy!Rule(i, p) : i \in Ifaces \cup {"unreachable"}, p \in Int}
Accs == [chain : Seq(Rules), lowest : 1 .. 256, total : Nat]

\* Interfaces that have a rule.
ChainOf(rs) == {rs[j].iface : j \in DOMAIN rs}

\* What mwan3_set_policy has made of the active members in S.
LowestOf(acc, S) ==
  /\ acc \in Accs
  /\ \A m \in S : acc.lowest <= m.metric
  /\ acc.lowest = 256 \/ \E m \in S : m.metric = acc.lowest
  /\ ChainOf(acc.chain) = IF acc.lowest = 256 THEN {"unreachable"}
                          ELSE {m.iface : m \in {c \in S : c.metric = acc.lowest}}

\* A rule before the others.
LEMMA RuleBefore ==
  ASSUME NEW c \in Seq(Rules), NEW r \in Rules
  PROVE  /\ <<r>> \o c \in Seq(Rules) /\ <<r>> \in Seq(Rules)
         /\ ChainOf(<<r>> \o c) = {r.iface} \cup ChainOf(c)
         /\ ChainOf(<<r>>) = {r.iface}
<1> DEFINE d == <<r>> \o c
<1>1. d \in Seq(Rules) /\ <<r>> \in Seq(Rules)  OBVIOUS
<1>2. Len(c) \in Nat /\ DOMAIN c = 1 .. Len(c) /\ DOMAIN d = 1 .. Len(c) + 1 /\ DOMAIN <<r>> = 1 .. 1
  OBVIOUS
<1>3. d[1] = r /\ (\A j \in 1 .. Len(c) : d[j + 1] = c[j]) /\ <<r>>[1] = r  OBVIOUS
<1>4. ChainOf(<<r>>) = {r.iface}  BY <1>2, <1>3 DEF ChainOf
<1> HIDE DEF d
<1>5. ASSUME NEW x \in ChainOf(d) PROVE x \in {r.iface} \cup ChainOf(c)
  <2>1. PICK j \in 1 .. Len(c) + 1 : x = d[j].iface  BY <1>2 DEF ChainOf
  <2>2. CASE j = 1  BY <1>3, <2>1, <2>2
  <2>3. CASE j # 1
    <3>1. j - 1 \in 1 .. Len(c) /\ (j - 1) + 1 = j  BY <1>2, <2>3
    <3>2. d[j] = c[j - 1]  BY <1>3, <3>1
    <3> QED BY <1>2, <2>1, <3>1, <3>2 DEF ChainOf
  <2> QED BY <2>2, <2>3
<1>6. r.iface \in ChainOf(d)
  <2>1. 1 \in DOMAIN d  BY <1>2
  <2> QED BY <1>3, <2>1 DEF ChainOf
<1>7. ASSUME NEW x \in ChainOf(c) PROVE x \in ChainOf(d)
  <2>1. PICK j \in 1 .. Len(c) : x = c[j].iface  BY <1>2 DEF ChainOf
  <2>2. j + 1 \in DOMAIN d  BY <1>2
  <2>3. x = d[j + 1].iface  BY <1>3, <2>1
  <2> QED BY <2>2, <2>3 DEF ChainOf
<1> QED BY <1>1, <1>4, <1>5, <1>6, <1>7 DEF d

LEMMA MemberFields ==
  ASSUME Policy!ConstAssumption, NEW m \in Policy!Members
  PROVE  /\ m.iface \in Ifaces /\ m.metric \in Int /\ m.weight \in Int
         /\ 1 <= m.metric /\ m.metric < 256 /\ 1 <= m.weight
<1>1. m.iface \in Ifaces /\ m.metric \in Metrics /\ m.weight \in Weights
  BY DEF Policy!Members
<1>2. Metrics \subseteq 1 .. 255 /\ Weights \subseteq 1 .. 1000  BY DEF Policy!ConstAssumption
<1>3. \A x \in Metrics : x \in Int /\ 1 <= x /\ x < 256
  <2>1. TAKE x \in Metrics
  <2>2. x \in 1 .. 255  BY <1>2
  <2> QED BY <2>2
<1>4. \A x \in Weights : x \in Int /\ 1 <= x
  <2>1. TAKE x \in Weights
  <2>2. x \in 1 .. 1000  BY <1>2
  <2> QED BY <2>2
<1> QED BY <1>1, <1>3, <1>4

\* One more member.
LEMMA LowestStep ==
  ASSUME Policy!ConstAssumption, NEW S, S \subseteq Policy!Members, NEW acc, LowestOf(acc, S),
         NEW m \in Policy!Members
  PROVE  LowestOf(Policy!mwan3_set_policy(acc, m), IF m.iface \in active' THEN S \cup {m} ELSE S)
<1> DEFINE new == Policy!mwan3_set_policy(acc, m)
           Q == IF m.iface \in active' THEN S \cup {m} ELSE S
<1>1. /\ m.iface \in Ifaces /\ m.metric \in Int /\ m.weight \in Int
      /\ 1 <= m.metric /\ m.metric < 256 /\ 1 <= m.weight
  BY MemberFields
<1>3. /\ acc \in Accs /\ acc.chain \in Seq(Rules) /\ acc.lowest \in Int /\ acc.total \in Nat
      /\ 1 <= acc.lowest /\ acc.lowest <= 256
      /\ acc = [chain |-> acc.chain, lowest |-> acc.lowest, total |-> acc.total]
  <2>1. acc \in Accs  BY DEF LowestOf
  <2>2. /\ acc.chain \in Seq(Rules) /\ acc.lowest \in 1 .. 256 /\ acc.total \in Nat
        /\ acc = [chain |-> acc.chain, lowest |-> acc.lowest, total |-> acc.total]
    BY <2>1 DEF Accs
  <2>3. \A x \in 1 .. 256 : x \in Int /\ 1 <= x /\ x <= 256  OBVIOUS
  <2> QED BY <2>1, <2>2, <2>3
<1>4. \A c \in S : c.metric \in Int  BY MemberFields
<1>5. /\ \A c \in S : acc.lowest <= c.metric
      /\ acc.lowest = 256 \/ \E c \in S : c.metric = acc.lowest
      /\ ChainOf(acc.chain) = IF acc.lowest = 256 THEN {"unreachable"}
                              ELSE {c.iface : c \in {e \in S : e.metric = acc.lowest}}
  BY DEF LowestOf
<1>6. CASE m.iface \notin active'
  <2>1. new = acc  BY <1>6 DEF Policy!mwan3_set_policy
  <2>2. Q = S  BY <1>6
  <2> HIDE DEF new, Q
  <2>3. LowestOf(new, Q)  BY <2>1, <2>2
  <2> QED BY <2>3 DEF new, Q
<1>7. CASE m.iface \in active' /\ m.metric > acc.lowest
  <2>1. new = acc  BY <1>7 DEF Policy!mwan3_set_policy
  <2>2. Q = S \cup {m}  BY <1>7
  <2>3. acc.lowest <= m.metric /\ m.metric # acc.lowest /\ acc.lowest # 256  BY <1>1, <1>3, <1>7
  <2>4. {c \in Q : c.metric = acc.lowest} = {c \in S : c.metric = acc.lowest}
    BY <2>2, <2>3
  <2>5. LowestOf(acc, Q)  BY <1>3, <1>5, <2>2, <2>3, <2>4 DEF LowestOf
  <2> QED BY <2>1, <2>5
<1>8. CASE m.iface \in active' /\ m.metric < acc.lowest
  <2> DEFINE r == Policy!Rule(m.iface, 1000)
  <2>1. new = [chain |-> <<r>>, lowest |-> m.metric, total |-> m.weight]
    <3>1. ~ (m.metric > acc.lowest)  BY <1>1, <1>3, <1>8
    <3> QED BY <1>8, <3>1 DEF Policy!mwan3_set_policy, Policy!LowerMetric
  <2>2. r \in Rules /\ r.iface = m.iface  BY <1>1 DEF Rules, Policy!Rule
  <2> HIDE DEF r, new
  <2>3. new \in Accs /\ new.lowest = m.metric /\ new.chain = <<r>>
    <3>1. <<r>> \in Seq(Rules)  BY <2>2
    <3> QED BY <1>1, <2>1, <3>1 DEF Accs
  <2>4. Q = S \cup {m}  BY <1>8
  <2>5. \A c \in S : m.metric < c.metric /\ c.metric # m.metric
    BY <1>1, <1>3, <1>4, <1>5, <1>8
  <2>6. {c \in Q : c.metric = m.metric} = {m}  BY <2>4, <2>5
  <2>7. <<>> \in Seq(Rules)  OBVIOUS
  <2>8. ChainOf(<<r>>) = {m.iface}  BY <2>2, <2>7, RuleBefore
  <2>9. m.metric # 256 /\ m.metric <= m.metric  BY <1>1
  <2>10. LowestOf(new, Q)
    <3>1. \A c \in Q : new.lowest <= c.metric  BY <1>1, <1>4, <2>3, <2>4, <2>5, <2>9
    <3>2. \E c \in Q : c.metric = new.lowest  BY <2>3, <2>4
    <3>3. ChainOf(new.chain) = {c.iface : c \in {e \in Q : e.metric = new.lowest}}
      BY <2>3, <2>6, <2>8
    <3> QED BY <2>3, <2>9, <3>1, <3>2, <3>3 DEF LowestOf
  <2> QED BY <2>10 DEF new
<1>9. CASE m.iface \in active' /\ m.metric = acc.lowest
  <2> DEFINE total == acc.total + m.weight
             r == Policy!Rule(m.iface, (m.weight * 1000) \div total)
  <2>1. new = [acc EXCEPT !.total = total, !.chain = <<r>> \o @]
    <3>1. ~ (m.metric > acc.lowest) /\ ~ (m.metric < acc.lowest)  BY <1>1, <1>9
    <3> QED BY <1>9, <3>1 DEF Policy!mwan3_set_policy, Policy!SameMetric
  <2>2. total \in Nat \ {0}  BY <1>1, <1>3
  <2>3. r \in Rules /\ r.iface = m.iface
    <3> HIDE DEF total
    <3>1. m.weight * 1000 \in Int  BY <1>1
    <3>2. (m.weight * 1000) \div total \in Int  BY <2>2, <3>1
    <3> QED BY <1>1, <3>2 DEF Rules, Policy!Rule
  <2> HIDE DEF r, new, total
  <2>4. new.lowest = acc.lowest /\ new.chain = <<r>> \o acc.chain /\ new.total = total
        /\ new = [chain |-> <<r>> \o acc.chain, lowest |-> acc.lowest, total |-> total]
    BY <1>3, <2>1
  <2>5. /\ <<r>> \o acc.chain \in Seq(Rules)
        /\ ChainOf(<<r>> \o acc.chain) = {m.iface} \cup ChainOf(acc.chain)
    BY <1>3, <2>3, RuleBefore
  <2>6. new \in Accs  BY <1>3, <2>2, <2>4, <2>5 DEF Accs
  <2>7. Q = S \cup {m} /\ acc.lowest # 256  BY <1>1, <1>9
  <2>8. {c \in Q : c.metric = acc.lowest}
          = {m} \cup {c \in S : c.metric = acc.lowest}
    BY <1>9, <2>7
  <2>9. ChainOf(new.chain) = {c.iface : c \in {e \in Q : e.metric = new.lowest}}
    BY <1>5, <2>4, <2>5, <2>7, <2>8
  <2>10. /\ \A c \in Q : new.lowest <= c.metric
         /\ \E c \in Q : c.metric = new.lowest
    BY <1>3, <1>5, <1>9, <2>4, <2>7
  <2>11. LowestOf(new, Q)  BY <2>4, <2>6, <2>7, <2>9, <2>10 DEF LowestOf
  <2> QED BY <2>11 DEF new
<1>10. m.metric > acc.lowest \/ m.metric < acc.lowest \/ m.metric = acc.lowest  BY <1>1, <1>3
<1> QED BY <1>6, <1>7, <1>8, <1>9, <1>10

\* What mwan3_set_policies_iptables makes of all the members.
LEMMA LowestChain ==
  ASSUME Policy!ConstAssumption, NEW N \in Nat, NEW s \in [1 .. N -> Policy!Members],
         NEW A, A = active'
  PROVE  LowestOf(Policies(NoPolicy, s), {s[j] : j \in {h \in 1 .. N : s[h].iface \in A}})
<1> DEFINE base == NoPolicy
           Seen(k) == {s[j] : j \in {h \in 1 .. k : s[h].iface \in A}}
<1>1. DOMAIN s = 1 .. N  OBVIOUS
<1>2. LowestOf(base, Seen(0))
  <2> DEFINE r == Policy!Unreachable
  <2>1. r \in Rules /\ r.iface = "unreachable"  BY DEF Policy!Unreachable, Policy!Rule, Rules
  <2> HIDE DEF r
  <2>2. <<>> \in Seq(Rules)  OBVIOUS
  <2>3. <<r>> \in Seq(Rules) /\ ChainOf(<<r>>) = {"unreachable"}  BY <2>1, <2>2, RuleBefore
  <2>4. base.chain = <<r>> /\ base.lowest = 256  BY DEF NoPolicy, r
  <2>5. base \in Accs  BY <2>3 DEF Accs, NoPolicy, r
  <2>6. Seen(0) = {}  OBVIOUS
  <2> HIDE DEF base, Seen
  <2> QED BY <2>3, <2>4, <2>5, <2>6 DEF LowestOf
<1> HIDE DEF base
<1>3. PICK g : /\ g[0] = base
               /\ \A k \in 0 .. N - 1 : g[k + 1] = Policy!mwan3_set_policy(g[k], s[k + 1])
               /\ Policies(base, s) = g[N]
  BY <1>1, FoldIs
<1> DEFINE T == {k \in 0 .. N : LowestOf(g[k], Seen(k))}
<1>4. 0 \in T
  <2> HIDE DEF Seen
  <2>1. 0 \in 0 .. N  OBVIOUS
  <2> QED BY <1>2, <1>3, <2>1
<1>5. ASSUME NEW k \in 0 .. N - 1, k \in T PROVE k + 1 \in T
  <2> DEFINE m == s[k + 1]
  <2>1. k \in Nat /\ k + 1 \in 0 .. N /\ k + 1 \in 1 .. N /\ 1 .. k \subseteq 1 .. N
        /\ 1 .. k + 1 = (1 .. k) \cup {k + 1}
    OBVIOUS
  <2>2. m \in Policy!Members  BY <2>1
  <2>3. Seen(k) \subseteq Policy!Members  BY <2>1
  <2>4. Seen(k + 1) = IF m.iface \in A THEN Seen(k) \cup {m} ELSE Seen(k)
    <3> DEFINE J(n) == {h \in 1 .. n : s[h].iface \in A}
    <3>1. CASE m.iface \in A
      <4>1. J(k + 1) = J(k) \cup {k + 1}  BY <2>1, <3>1
      <4> QED BY <3>1, <4>1
    <3>2. CASE m.iface \notin A
      <4>1. J(k + 1) = J(k)  BY <2>1, <3>2
      <4> QED BY <3>2, <4>1
    <3> QED BY <3>1, <3>2
  <2> HIDE DEF Seen, m
  <2>5. LowestOf(g[k], Seen(k))  BY <1>5
  <2>6. g[k + 1] = Policy!mwan3_set_policy(g[k], m)  BY <1>3 DEF m
  <2>7. LowestOf(Policy!mwan3_set_policy(g[k], m),
                 IF m.iface \in active' THEN Seen(k) \cup {m} ELSE Seen(k))
    BY <2>2, <2>3, <2>5, LowestStep
  <2> QED BY <2>1, <2>4, <2>6, <2>7
<1>6. N \in T
  <2> HIDE DEF T
  <2>1. \A k \in 0 .. N : k \in T  BY <1>4, <1>5, UpTo
  <2> QED BY <2>1
<1>7. LowestOf(Policies(base, s), Seen(N))  BY <1>3, <1>6
<1> QED BY <1>7 DEF base

\* Members of the lowest metric, among those in S.
LEMMA LowestAreBest ==
  ASSUME Policy!ConstAssumption, NEW S, S \subseteq Policy!Members, NEW acc, LowestOf(acc, S)
  PROVE  LET best == {m \in S : \A c \in S : m.metric <= c.metric}
         IN  ChainOf(acc.chain) = IF best = {} THEN {"unreachable"} ELSE {m.iface : m \in best}
<1> DEFINE best == {m \in S : \A c \in S : m.metric <= c.metric}
<1>1. acc.lowest \in Int
  <2>1. acc.lowest \in 1 .. 256  BY DEF LowestOf, Accs
  <2> QED BY <2>1
<1>2. \A m \in S : m.metric \in Int /\ m.metric < 256  BY MemberFields
<1>3. /\ \A m \in S : acc.lowest <= m.metric
      /\ acc.lowest = 256 \/ \E m \in S : m.metric = acc.lowest
      /\ ChainOf(acc.chain) = IF acc.lowest = 256 THEN {"unreachable"}
                              ELSE {m.iface : m \in {c \in S : c.metric = acc.lowest}}
  BY DEF LowestOf
<1>4. CASE acc.lowest = 256
  <2>1. S = {}  BY <1>2, <1>3, <1>4
  <2> QED BY <1>3, <1>4, <2>1
<1>5. CASE acc.lowest # 256
  <2>1. PICK m \in S : m.metric = acc.lowest  BY <1>3, <1>5
  <2>2. \A c \in S : c.metric = acc.lowest => \A e \in S : c.metric <= e.metric
    BY <1>3
  <2>3. \A c \in S : (\A e \in S : c.metric <= e.metric) => c.metric = acc.lowest
    <3> SUFFICES ASSUME NEW c \in S, \A e \in S : c.metric <= e.metric
                 PROVE  c.metric = acc.lowest
      OBVIOUS
    <3>1. c.metric <= acc.lowest /\ acc.lowest <= c.metric  BY <1>3, <2>1
    <3> QED BY <1>1, <1>2, <3>1
  <2>4. best = {c \in S : c.metric = acc.lowest}  BY <2>2, <2>3
  <2>5. best # {}  BY <2>1, <2>4
  <2> HIDE DEF best
  <2>6. ChainOf(acc.chain) = IF best = {} THEN {"unreachable"} ELSE {c.iface : c \in best}
    BY <1>3, <1>5, <2>4, <2>5
  <2> QED BY <2>6 DEF best
<1> QED BY <1>4, <1>5

---------------------------------------------------------------------------
(* mwan3_set_policy: the theorem *)

\* The inductive invariant.
PolicyInv ==
  /\ \E N \in Nat : members \in [1 .. N -> Policy!Members]
  /\ Policy!LowestMetricOnly

\* Rules that belong to the active members of members s.
LEMMA OnlyLowest ==
  ASSUME Policy!ConstAssumption, NEW N \in Nat, members \in [1 .. N -> Policy!Members],
         NEW i, Policy!Changes(i)
  PROVE  Policy!LowestMetricOnly'
<1> DEFINE end == Policies(NoPolicy, members)
           S == {members[j] : j \in {h \in 1 .. N : members[h].iface \in active'}}
<1>1. policyChain' = end.chain /\ members' = members
  BY DEF Policy!Changes, Policy!mwan3_set_policies_iptables, Policies, NoPolicy
<1>2. LowestOf(end, S)
  <2> DEFINE A == active'
  <2>1. A = active'  OBVIOUS
  <2> HIDE DEF A
  <2>2. LowestOf(end, {members[j] : j \in {h \in 1 .. N : members[h].iface \in A}})
    BY <2>1, LowestChain
  <2> QED BY <2>1, <2>2
<1>3. S \subseteq Policy!Members  OBVIOUS
<1>4. Policy!Candidates' = S
  <2>1. DOMAIN members = 1 .. N  OBVIOUS
  <2>2. Policy!ToSet(members) = {members[j] : j \in 1 .. N}  BY <2>1 DEF Policy!ToSet
  <2>3. Policy!Candidates' = {m \in Policy!ToSet(members) : m.iface \in active'}
    BY <1>1 DEF Policy!Candidates, Policy!ToSet
  <2> QED BY <2>2, <2>3
<1> HIDE DEF end, S
<1>5. Policy!Best' = {m \in S : \A c \in S : m.metric <= c.metric}
  BY <1>4 DEF Policy!Best
<1>6. ChainOf(end.chain) = IF Policy!Best' = {} THEN {"unreachable"}
                           ELSE {m.iface : m \in Policy!Best'}
  BY <1>2, <1>3, <1>5, LowestAreBest
<1>7. {policyChain'[n].iface : n \in DOMAIN policyChain'} = ChainOf(end.chain)
  BY <1>1 DEF ChainOf
<1> QED BY <1>6, <1>7 DEF Policy!LowestMetricOnly

\* The policy has rules for the active members of the lowest metric and for no
\* others, in whatever order mwan3_set_policies_iptables meets them.
THEOREM LowestOnly ==
  ASSUME Policy!ConstAssumption, IsFiniteSet(Ifaces)
  PROVE  Policy!Spec => []Policy!LowestMetricOnly
<1>1. Policy!Init => PolicyInv
  <2> SUFFICES ASSUME Policy!Init PROVE PolicyInv  OBVIOUS
  <2>1. Policy!Cardinality(Ifaces) = Cardinality(Ifaces)
    BY DEF Policy!Cardinality, Cardinality
  <2>2. Policy!Cardinality(Ifaces) \in Nat  BY <2>1, FS_CardinalityType
  <2>3. \E N \in Nat : members \in [1 .. N -> Policy!Members]  BY <2>2 DEF Policy!Init
  <2>4. active = {} /\ policyChain = <<Policy!Unreachable>>  BY DEF Policy!Init
  <2>5. Policy!Best = {}  BY <2>4 DEF Policy!Best, Policy!Candidates
  <2>6. {policyChain[n].iface : n \in DOMAIN policyChain} = {"unreachable"}
    <3> DEFINE r == Policy!Unreachable
    <3>1. r \in Rules /\ r.iface = "unreachable"  BY DEF Policy!Unreachable, Policy!Rule, Rules
    <3>2. <<>> \in Seq(Rules)  OBVIOUS
    <3> HIDE DEF r
    <3>3. ChainOf(<<r>>) = {"unreachable"}  BY <3>1, <3>2, RuleBefore
    <3> QED BY <2>4, <3>3 DEF ChainOf, r
  <2> QED BY <2>3, <2>5, <2>6 DEF PolicyInv, Policy!LowestMetricOnly
<1>2. PolicyInv /\ [Policy!Next]_Policy!vars => PolicyInv'
  <2> SUFFICES ASSUME PolicyInv, [Policy!Next]_Policy!vars PROVE PolicyInv'  OBVIOUS
  <2>1. PICK N \in Nat : members \in [1 .. N -> Policy!Members]  BY DEF PolicyInv
  <2>2. ASSUME NEW i \in Ifaces, Policy!Changes(i) PROVE PolicyInv'
    <3>1. Policy!LowestMetricOnly'  BY <2>1, <2>2, OnlyLowest
    <3>2. members' = members  BY <2>2 DEF Policy!Changes
    <3> QED BY <2>1, <3>1, <3>2 DEF PolicyInv, Policy!Members
  <2>3. CASE UNCHANGED Policy!vars
    <3>1. members' = members /\ active' = active /\ policyChain' = policyChain
      BY <2>3 DEF Policy!vars
    <3>2. Policy!Candidates' = Policy!Candidates  BY <3>1 DEF Policy!Candidates, Policy!ToSet
    <3>3. Policy!Best' = Policy!Best  BY <3>2 DEF Policy!Best
    <3>4. Policy!LowestMetricOnly'
      BY <3>1, <3>3 DEF PolicyInv, Policy!LowestMetricOnly
    <3> QED BY <2>1, <3>1, <3>4 DEF PolicyInv, Policy!Members
  <2> QED BY <2>2, <2>3 DEF Policy!Next
<1>3. PolicyInv => Policy!LowestMetricOnly  BY DEF PolicyInv
<1> QED BY <1>1, <1>2, <1>3, PTL DEF Policy!Spec
=============================================================================
