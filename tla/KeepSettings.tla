----------------------------- MODULE KeepSettings -----------------------------
(***************************************************************************)
(* The mobile settings across a firmware upgrade: fw_upgrade.sh has them   *)
(* written to a block of flash (keep_settings_new.sh backup), empties /etc *)
(* (leave_config_new.sh) and calls sysupgrade; the next boot puts them     *)
(* back and clears the block (restore_settings,                            *)
(* mobile_settings_restore.sh).  The power may be cut between any two      *)
(* steps; a router that does not start, or has no network any more, is     *)
(* recovered by the boot loader.                                           *)
(***************************************************************************)
EXTENDS Naturals

CONSTANTS
  Settings,     \* values of network.ppp; each has its own ifname
  Fails,        \* what may fail: "backup", a command of it; "image", sysupgrade
  MaxChanges,   \* bound: changes of the settings by the user
  MaxUpgrades,  \* bound
  MaxCuts       \* bound: power cuts

Default == "default"
Blank == "blank"        \* no archive that unpacks: zeroed, erased or half written
None == "none"

\* Files of /etc without which the router does not start, or does not restore.
Startup == {"inittab", "restore_settings"}

ConstAssumption ==
  /\ {Default, Blank, None} \cap Settings = {} /\ Fails \subseteq {"backup", "image"}
  /\ {MaxChanges, MaxUpgrades, MaxCuts} \subseteq Nat

VARIABLES
  pc,
  etc,          \* those of Startup that are there
  ppp,          \* network.ppp in /etc/config; None without /etc/config/network
  wan,          \* the settings whose ifname is network.wan.ifname in /etc/config
  staged,       \* the same, set and not committed; lost with the power
  flash,
  archive,      \* keep_settings.tar.gz in /tmp
  chosen,       \* what the user set last
  changes, upgrades, cuts

config == <<ppp, wan, staged>>
bounds == <<changes, upgrades, cuts>>
vars == <<pc, etc, config, flash, archive, chosen, bounds>>

Init ==
  /\ pc = "run" /\ etc = Startup /\ ppp \in Settings /\ wan = ppp /\ staged = None
  /\ chosen = ppp /\ flash = Blank /\ archive = None
  /\ changes = 0 /\ upgrades = 0 /\ cuts = 0

Change ==
  /\ pc = "run" /\ ppp # None /\ changes < MaxChanges /\ changes' = changes + 1
  /\ chosen' \in Settings \ {chosen} /\ ppp' = chosen' /\ wan' = chosen'
  /\ UNCHANGED <<pc, etc, staged, flash, archive, upgrades, cuts>>

---------------------------------------------------------------------------
(* fw_upgrade.sh with keep_mobile *)

\* backup_uci_settings and tar; leave_config_new.sh follows whatever the outcome.
Backup ==
  /\ pc = "run" /\ ppp # None /\ upgrades < MaxUpgrades /\ upgrades' = upgrades + 1
  /\ \/ archive' = ppp /\ pc' = "size"
     \/ "backup" \in Fails /\ archive' = None /\ pc' = "leave"
  /\ UNCHANGED <<etc, config, flash, chosen, changes, cuts>>

\* write_mtd_tar: the size first.  With the size that was there before, an archive
\* that is still in flash unpacks as before.
WriteSize ==
  /\ pc = "size" /\ flash' \in {Blank, flash} /\ pc' = "data"
  /\ UNCHANGED <<etc, config, archive, chosen, bounds>>

\* Mutant: the archive is not written.
WriteNothing ==
  /\ pc = "data" /\ archive' = None /\ pc' = "leave"
  /\ UNCHANGED <<etc, config, flash, chosen, bounds>>

\* ... then the archive, and the copy in /tmp is removed.
WriteData ==
  /\ pc = "data" /\ flash' = archive /\ archive' = None /\ pc' = "leave"
  /\ UNCHANGED <<etc, config, chosen, bounds>>

DdFails ==
  /\ "backup" \in Fails /\ pc \in {"size", "data"} /\ archive' = None /\ pc' = "leave"
  /\ UNCHANGED <<etc, config, flash, chosen, bounds>>

\* leave_config_new.sh: find removes every file of /etc; only simcard, data_limit and
\* reregister are put back.
LeaveConfig ==
  /\ pc = "leave" /\ etc' = {} /\ ppp' = None /\ wan' = None /\ pc' = "upgrade"
  /\ UNCHANGED <<staged, flash, archive, chosen, bounds>>

\* A firmware with its files and defaults is in place.
NewFirmware ==
  /\ etc' = Startup /\ ppp' = Default /\ wan' = Default /\ pc' = "boot"

Sysupgrade ==
  /\ pc = "upgrade" /\ NewFirmware
  /\ UNCHANGED <<staged, flash, archive, chosen, bounds>>

\* The image check fails, or the move to the RAM disk: the router goes on without
\* its configuration.
SysupgradeFails ==
  /\ "image" \in Fails /\ pc = "upgrade" /\ pc' = "run"
  /\ UNCHANGED <<etc, config, flash, archive, chosen, bounds>>

---------------------------------------------------------------------------
(* init, restore_settings and mobile_settings_restore.sh *)

\* Without inittab no start-up script runs.
DoesNotStart ==
  /\ pc = "boot" /\ "inittab" \notin etc /\ pc' = "dead"
  /\ UNCHANGED <<etc, config, flash, archive, chosen, bounds>>

\* restore_settings, keep_settings_new.sh check: the archive is read and unpacked.
Check ==
  /\ pc = "boot" /\ "inittab" \in etc
  /\ pc' = IF "restore_settings" \in etc /\ flash # Blank THEN "restore" ELSE "run"
  /\ UNCHANGED <<etc, config, flash, archive, chosen, bounds>>

\* mobile_settings_restore.sh gives up without /etc/config/network.
NoNetwork ==
  /\ pc = "restore" /\ ppp = None /\ pc' = "run"
  /\ UNCHANGED <<etc, config, flash, archive, chosen, bounds>>

\* keep_settings_new.sh restore: uci import -m and uci commit
Restore ==
  /\ pc = "restore" /\ ppp # None /\ ppp' = flash /\ pc' = "wan"
  /\ UNCHANGED <<etc, wan, staged, flash, archive, chosen, bounds>>

SetWan ==
  /\ pc = "wan" /\ staged' = ppp /\ pc' = "delete"
  /\ UNCHANGED <<etc, ppp, wan, flash, archive, chosen, bounds>>

\* keep_settings_new.sh delete
Delete ==
  /\ pc = "delete" /\ flash' = Blank /\ pc' = "commit"
  /\ UNCHANGED <<etc, config, archive, chosen, bounds>>

Commit ==
  /\ pc = "commit" /\ wan' = staged /\ staged' = None /\ pc' = "run"
  /\ UNCHANGED <<etc, ppp, flash, archive, chosen, bounds>>

---------------------------------------------------------------------------
\* What is in /tmp is lost.  A block that is being written may have been erased; of the
\* files that are being removed any may be gone.
PowerCut ==
  /\ pc \notin {"boot", "dead"} /\ cuts < MaxCuts /\ cuts' = cuts + 1
  /\ pc' = "boot" /\ staged' = None /\ archive' = None
  /\ flash' \in {flash} \cup (IF pc \in {"size", "data", "delete"} THEN {Blank} ELSE {})
  /\ \/ UNCHANGED <<etc, ppp, wan>>
     \/ pc = "leave" /\ etc' \in SUBSET etc /\ UNCHANGED <<ppp, wan>>
     \/ pc = "leave" /\ etc' \in SUBSET etc /\ ppp' = None /\ wan' = None
  /\ UNCHANGED <<chosen, changes, upgrades>>

\* The web page of the boot loader writes a firmware over kernel and file system; the
\* partition with the archive stays.
Recover ==
  /\ pc = "dead" \/ (pc = "run" /\ ppp = None)
  /\ NewFirmware /\ staged' = None /\ archive' = None
  /\ UNCHANGED <<flash, chosen, bounds>>

Next ==
  \/ Change \/ Backup \/ WriteSize \/ WriteData \/ DdFails \/ LeaveConfig
  \/ Sysupgrade \/ SysupgradeFails \/ DoesNotStart \/ Check \/ NoNetwork
  \/ Restore \/ SetWan \/ Delete \/ Commit \/ PowerCut \/ Recover

Spec == Init /\ [][Next]_vars

---------------------------------------------------------------------------
(* Properties *)

\* The places of the scripts, and what each kind of storage can hold; what a boot puts
\* back is an archive.  After a backup that failed it can be one of the defaults.
TypeOK ==
  /\ pc \in {"run", "size", "data", "leave", "upgrade", "boot", "dead", "restore", "wan",
             "delete", "commit"}
  /\ etc \subseteq Startup
  /\ {ppp, wan, staged} \subseteq Settings \cup {Default, None} /\ (ppp = None <=> wan = None)
  /\ flash \in Settings \cup {Default, Blank}
  /\ archive \in Settings \cup {Default, None}
  /\ chosen \in Settings
  /\ pc \in {"restore", "wan", "delete"} => flash # Blank

\* What the user chose is in /etc/config or in flash, also of a router that does not
\* start, or goes on after sysupgrade gave up.
NeverLost == ppp = chosen \/ flash = chosen

\* keep_mobile: a router that runs and has a network has the settings that the user
\* chose, wherever the power was cut and however often it was recovered.
SettingsKept == pc = "run" /\ ppp # None => ppp = chosen

\* An archive that a boot puts back, however late, is not over what the user has changed
\* since it was written.
PutsBackLatest == pc = "restore" => flash = chosen

\* A router that is whole leaves no archive to be put back at a later boot.
NothingLeft == pc = "run" /\ etc = Startup /\ ppp # None => flash = Blank

\* "Restoring saved 3G and LAN settings": network.wan uses the interface of the
\* settings that were put back.  A power cut between delete and commit refutes it.
WanFollows == pc = "run" => wan = ppp

\* Wherever the power was cut it uses that interface or the one of the defaults, never
\* that of settings which were changed since.
WanOrDefault == pc = "run" => wan \in {ppp, Default}

\* An upgrade that keeps the mobile settings neither loses them nor brings them
\* back twice.
SettingsRestored ==
  /\ TypeOK /\ NeverLost /\ SettingsKept /\ PutsBackLatest /\ NothingLeft /\ WanOrDefault

---------------------------------------------------------------------------
(* Observations, which a cut in leave_config_new.sh and sysupgrade that gives up refute *)

\* A router starts again after a power cut.
StartsAgain == pc # "dead"

\* A router that runs has a network.
HasNetwork == pc = "run" => ppp # None
=============================================================================
