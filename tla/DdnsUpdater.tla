----------------------------- MODULE DdnsUpdater -----------------------------
(***************************************************************************)
(* The updater of one dynamic DNS section (dynamic_dns_updater.sh): looks  *)
(* up the registered address, compares it with the local one, sends an     *)
(* update, sleeps for the check interval and looks again.  Hotplug starts  *)
(* it on ifup and kills it on ifdown.  Time is counted in check intervals; *)
(* retries within an interval take no time.                                *)
(***************************************************************************)
EXTENDS Integers

CONSTANTS
  Addrs,
  Named,        \* what may be registered at first, "": nothing
  FORCE,        \* FORCE_SECONDS in check intervals, at least 1
  retry_count,  \* 0: endless retry
  Lag,          \* the name servers need time to take over an update
  MaxChanges,   \* bound: changes of the local address
  MaxStarts     \* bound: events of hotplug

None == -1

ConstAssumption ==
  /\ FORCE \in Nat \ {0} /\ retry_count \in Nat /\ "" \notin Addrs /\ Lag \in BOOLEAN
  /\ Named \subseteq Addrs \cup {""}
  /\ {MaxChanges, MaxStarts} \subseteq Nat

VARIABLES
  pc, LOCAL_IP, REGISTERED_IP, ERR_UPDATE, CNT,
  young,        \* the process has not slept yet
  age,          \* intervals since the time in UPDFILE, FORCE: or more; None: no file
  ip,           \* local address, "": none
  provider, dns,        \* the address that the provider has, and that a lookup returns
  acked,        \* the address of the last update, "" if its answer was lost
  orphans,      \* a sleep is left of a process that was killed
  changes, starts

process == <<LOCAL_IP, REGISTERED_IP, ERR_UPDATE, CNT, young>>
service == <<provider, dns, acked>>
bounds == <<changes, starts>>
vars == <<pc, process, age, ip, service, orphans, bounds>>

Init ==
  /\ pc = "off" /\ LOCAL_IP = "" /\ REGISTERED_IP = "" /\ ERR_UPDATE = 0 /\ CNT = 0
  /\ young = TRUE /\ age = None /\ ip \in Addrs
  /\ provider \in Named /\ dns = provider /\ acked = "" /\ orphans = FALSE
  /\ changes = 0 /\ starts = 0

Older(a) == IF a = None \/ a = FORCE THEN a ELSE a + 1

---------------------------------------------------------------------------
(* The process *)

\* A process that runs is killed first, with -9: it does not kill its sleep.
\* LAST_TIME is what UPDFILE says, and stays equal to it.
Start ==
  /\ starts < MaxStarts /\ starts' = starts + 1
  /\ pc' = "first" /\ young' = TRUE /\ ERR_UPDATE' = 0 /\ CNT' = 0
  /\ LOCAL_IP' = "" /\ REGISTERED_IP' = "" /\ orphans' = (orphans \/ pc = "sleep")
  /\ UNCHANGED <<age, ip, service, changes>>

Stop ==
  /\ pc # "off" /\ starts < MaxStarts /\ starts' = starts + 1
  /\ pc' = "off" /\ orphans' = (orphans \/ pc = "sleep")
  /\ UNCHANGED <<process, age, ip, service, changes>>

\* A failed attempt of get_registered_ip, get_local_ip or do_transfer.
Retries(at) ==
  /\ pc = at
  /\ IF retry_count > 0 /\ CNT = retry_count
     THEN pc' = "off" /\ UNCHANGED CNT
     ELSE UNCHANGED pc /\ CNT' = IF retry_count > 0 THEN CNT + 1 ELSE CNT
  /\ UNCHANGED <<LOCAL_IP, REGISTERED_IP, ERR_UPDATE, young, age, ip, orphans, bounds>>

\* The first lookup: no address is an answer, an error is tried again.
FirstLookup ==
  /\ pc = "first" /\ CNT' = 0
  /\ \/ REGISTERED_IP' = dns /\ pc' = "local"
     \/ UNCHANGED REGISTERED_IP /\ pc' = "again"
  /\ UNCHANGED <<LOCAL_IP, ERR_UPDATE, young, age, ip, service, orphans, bounds>>

LookupAgain ==
  /\ pc = "again" /\ dns # ""
  /\ REGISTERED_IP' = dns /\ CNT' = 0 /\ pc' = "local"
  /\ UNCHANGED <<LOCAL_IP, ERR_UPDATE, young, age, ip, service, orphans, bounds>>

\* CURR_TIME -ge NEXT_TIME
Due == age \in {None, FORCE}

get_local_ip ==
  /\ pc = "local" /\ ip # ""
  /\ LOCAL_IP' = ip /\ CNT' = 0
  /\ pc' = IF Due \/ ip # REGISTERED_IP THEN "send" ELSE "sleep"
  /\ UNCHANGED <<REGISTERED_IP, ERR_UPDATE, young, age, ip, service, orphans, bounds>>

\* The update arrives, and its answer does or does not.
Delivered ==
  /\ provider' = LOCAL_IP /\ dns' = IF Lag THEN dns ELSE LOCAL_IP

send_update ==
  /\ pc = "send" /\ Delivered
  /\ pc' = "save" /\ acked' = LOCAL_IP /\ CNT' = 0
  /\ UNCHANGED <<LOCAL_IP, REGISTERED_IP, ERR_UPDATE, young, age, ip, orphans, bounds>>

AnswerLost == Delivered /\ acked' = "" /\ Retries("send")

\* The provider does not accept the update: it is tried after the check interval.
Rejected ==
  /\ pc = "send" /\ pc' = "sleep" /\ CNT' = 0
  /\ UNCHANGED <<LOCAL_IP, REGISTERED_IP, ERR_UPDATE, young, age, ip, service, orphans, bounds>>

Save ==
  /\ pc = "save" /\ pc' = "sleep" /\ age' = 0
  /\ UNCHANGED <<process, ip, service, orphans, bounds>>

Sleep ==
  /\ pc = "sleep" /\ pc' = "check" /\ age' = Older(age) /\ young' = FALSE
  /\ REGISTERED_IP' = "" /\ orphans' = FALSE
  /\ UNCHANGED <<LOCAL_IP, ERR_UPDATE, CNT, ip, service, bounds>>

\* Mutant: the lookup is repeated until it gives the address that was sent.
CheckUntilSame ==
  /\ pc = "check" /\ dns # "" /\ LOCAL_IP = dns
  /\ REGISTERED_IP' = dns /\ CNT' = 0 /\ ERR_UPDATE' = 0 /\ pc' = "local"
  /\ UNCHANGED <<LOCAL_IP, young, age, ip, service, orphans, bounds>>

\* get_registered_ip; addresses that still differ are a failed update.
Check ==
  /\ pc = "check" /\ dns # ""
  /\ REGISTERED_IP' = dns /\ CNT' = 0
  /\ IF LOCAL_IP = dns THEN ERR_UPDATE' = 0 /\ pc' = "local"
     ELSE IF retry_count > 0 /\ ERR_UPDATE = retry_count THEN pc' = "off" /\ UNCHANGED ERR_UPDATE
     ELSE pc' = "local" /\ ERR_UPDATE' = IF retry_count > 0 THEN ERR_UPDATE + 1 ELSE 0
  /\ UNCHANGED <<LOCAL_IP, young, age, ip, service, orphans, bounds>>

Fails == \E at \in {"again", "local", "send", "check"} : Retries(at) /\ UNCHANGED service

Works == FirstLookup \/ Save \/ Sleep

---------------------------------------------------------------------------
(* The world *)

IpChanges ==
  /\ changes < MaxChanges /\ changes' = changes + 1
  /\ ip' \in (Addrs \cup {""}) \ {ip}
  /\ UNCHANGED <<pc, process, age, service, orphans, starts>>

Propagate ==
  /\ dns # provider /\ dns' = provider
  /\ UNCHANGED <<pc, process, age, ip, provider, acked, orphans, bounds>>

\* An interval passes while no updater runs.
Idle ==
  /\ pc = "off" /\ (age # Older(age) \/ orphans) /\ age' = Older(age) /\ orphans' = FALSE
  /\ UNCHANGED <<pc, process, ip, service, bounds>>

Next ==
  \/ Start \/ Stop \/ Works \/ LookupAgain \/ get_local_ip \/ send_update \/ AnswerLost
  \/ Rejected \/ Check \/ Fails \/ IpChanges \/ Propagate \/ Idle

\* The process goes on; the name servers take over what the provider has; lookups,
\* transfers and updates do not fail for ever.
Fairness ==
  /\ WF_vars(Works) /\ WF_vars(Propagate)
  /\ SF_vars(LookupAgain) /\ SF_vars(get_local_ip) /\ SF_vars(send_update) /\ SF_vars(Check)

Spec == Init /\ [][Next]_vars /\ Fairness

---------------------------------------------------------------------------
(* Properties *)

\* The places of the loop, addresses that are known where they are used, and
\* counters that never pass retry_count.
TypeOK ==
  /\ pc \in {"off", "first", "again", "local", "send", "save", "sleep", "check"}
  /\ {LOCAL_IP, REGISTERED_IP, ip, provider, dns, acked} \subseteq Addrs \cup {""}
  /\ ERR_UPDATE \in 0..retry_count /\ CNT \in 0..retry_count
  /\ age \in {None} \cup 0..FORCE
  /\ {young, orphans} \subseteq BOOLEAN
  /\ pc \in {"send", "save", "sleep", "check"} => LOCAL_IP # ""

\* The name ends up at the address that the router ends up with, if the updater
\* is left running.
Registered ==
  \A a \in Addrs : <>[](ip = a /\ pc # "off") => <>[](dns = a)

\* "force to send an update to your service if no change was detected"
Forced == <>[](pc # "off" /\ ip # "") => []<>(pc = "save")

\* "the following lines should prevent multiple updates if hotplug fires multiple
\* startups": a new process sends an address that the provider has accepted last only
\* if an update is due.  It is due also when the process that sent it was killed before
\* it saved the time, and none was saved or FORCE had passed.
OnceOnStartups ==
  [][pc = "send" /\ pc' = "save" /\ young => (acked = LOCAL_IP => Due)]_vars

\* "do NOT retry after RETRY_SECONDS, do retry after CHECK_SECONDS": the look at
\* what is registered that follows an update ends, and the loop goes on.
CheckEnds == pc = "check" ~> pc # "check"

---------------------------------------------------------------------------
(* Observations, which Stop and Start refute *)

\* "stop sections process incl. childs (sleeps)"
NoOrphans == ~orphans

\* No new process sends the address that the provider has accepted last.
NeverTwice == [][pc = "send" /\ pc' = "save" /\ young => acked # LOCAL_IP]_vars
=============================================================================
