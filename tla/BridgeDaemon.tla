---------------------------- MODULE BridgeDaemon ----------------------------
(***************************************************************************)
(* Bridge mode of the mobile interface (bridge_daemon.sh): the script asks *)
(* the modem for its address, has dnsmasq lease that address to one client *)
(* in the LAN, and has ebtables rewrite what comes from the modem to the   *)
(* client's MAC address.  ncm.sh kills the script and starts it again      *)
(* whenever the connection is set up.                                      *)
(***************************************************************************)
EXTENDS Integers, Sequences, SequencesExt

CONSTANTS
  Addrs, Macs,
  Returns,      \* the modem may get an address again that it had before, or none
  MaxChanges,   \* bound: changes of the address, and of the first lease
  MaxFlushes,   \* bound: times that the rules are flushed
  MaxRestarts   \* bound: times that ncm.sh starts the script again

ConstAssumption ==
  /\ "" \notin Addrs \cup Macs /\ Returns \in BOOLEAN
  /\ {MaxChanges, MaxFlushes, MaxRestarts} \subseteq Nat

VARIABLES
  pc,
  old_ip, old_mac, IP, mac,     \* variables of the script, "" when empty
  addr, lease,                  \* the modem's address; first MAC in dhcp.leases
  served,                       \* the address in DNS_TC that dnsmasq runs with
  rules,                        \* dnat rules of wwan0
  had,                          \* addresses that the modem had
  moved, flushed, restarted     \* for the bounds

script == <<old_ip, old_mac, IP, mac>>
counters == <<had, moved, flushed, restarted>>
vars == <<pc, script, addr, lease, served, rules, counters>>

Init ==
  /\ pc = "ip" /\ old_ip = "" /\ old_mac = "" /\ IP = "" /\ mac = ""
  /\ addr = "" /\ lease = "" /\ served = "" /\ rules = <<>>
  /\ had = {} /\ moved = [addr |-> 0, lease |-> 0] /\ flushed = 0 /\ restarted = 0

---------------------------------------------------------------------------
(* The script *)

\* ebtables -D removes one rule, or fails; -A with an empty destination fails.
Deleted(rs, m) ==
  IF \E i \in DOMAIN rs : rs[i] = m
  THEN RemoveAt(rs, CHOOSE i \in DOMAIN rs : rs[i] = m /\ \A j \in 1..(i - 1) : rs[j] # m)
  ELSE rs
Added(rs, m) == IF m = "" THEN rs ELSE Append(rs, m)

\* First loop: check, until there is an address; dhcp.
FindIp ==
  /\ pc = "ip" /\ IP' = addr
  /\ IF addr = "" THEN UNCHANGED <<pc, old_ip, served>>
                  ELSE pc' = "mac" /\ old_ip' = addr /\ served' = addr
  /\ UNCHANGED <<old_mac, mac, addr, lease, rules, counters>>

\* Second loop: get_mac, until there is a lease.
FindMac ==
  /\ pc = "mac" /\ mac' = lease
  /\ IF lease = "" THEN UNCHANGED <<pc, old_mac, rules>>
                   ELSE /\ pc' = "watch"
                        /\ rules' = Added(Deleted(rules, lease), lease)
                        /\ old_mac' = lease
  /\ UNCHANGED <<old_ip, IP, addr, lease, served, counters>>

\* Third loop: check and get_mac;
Watch ==
  /\ pc = "watch" /\ pc' = "dhcp" /\ IP' = addr /\ mac' = lease
  /\ UNCHANGED <<old_ip, old_mac, addr, lease, served, rules, counters>>

\* then dhcp, if the address is not old_ip.  "$old_ip=$IP" is no assignment but
\* the name of a command, and old_ip keeps its value;
WatchDhcp ==
  /\ pc = "dhcp" /\ pc' = "rules"
  /\ served' = IF old_ip # IP THEN IP ELSE served
  /\ UNCHANGED <<script, addr, lease, rules, counters>>

\* Mutant: whether there still is a rule is not looked at.
RulesOnChange ==
  /\ pc = "rules" /\ pc' = "watch" /\ old_mac' = mac
  /\ rules' = IF old_mac # mac THEN Added(Deleted(rules, old_mac), mac) ELSE rules
  /\ UNCHANGED <<old_ip, IP, mac, addr, lease, served, counters>>

\* then the rules, if the MAC address is not old_mac or there is no rule.
WatchRules ==
  /\ pc = "rules" /\ pc' = "watch" /\ old_mac' = mac
  /\ rules' = IF old_mac # mac \/ rules = <<>>
              THEN Added(Deleted(rules, old_mac), mac) ELSE rules
  /\ UNCHANGED <<old_ip, IP, mac, addr, lease, served, counters>>

Daemon == FindIp \/ FindMac \/ Watch \/ WatchDhcp \/ WatchRules

\* ncm.sh: killall bridge_daemon.sh; bridge_daemon.sh &
Restart ==
  /\ restarted < MaxRestarts /\ restarted' = restarted + 1
  /\ pc' = "ip" /\ old_ip' = "" /\ old_mac' = "" /\ IP' = "" /\ mac' = ""
  /\ UNCHANGED <<addr, lease, served, rules, had, moved, flushed>>

---------------------------------------------------------------------------
(* The modem, the client, and other programs *)

AddrChanges ==
  /\ moved.addr < MaxChanges /\ moved' = [moved EXCEPT !.addr = @ + 1]
  /\ addr' \in IF Returns THEN (Addrs \cup {""}) \ {addr} ELSE Addrs \ had
  /\ had' = had \cup {addr'}
  /\ UNCHANGED <<pc, script, lease, served, rules, flushed, restarted>>

\* Another client is first in the file, or none: leases end after 2 minutes.
LeaseChanges ==
  /\ served # "" /\ moved.lease < MaxChanges /\ moved' = [moved EXCEPT !.lease = @ + 1]
  /\ lease' \in (Macs \cup {""}) \ {lease}
  /\ UNCHANGED <<pc, script, addr, served, rules, had, flushed, restarted>>

Flush ==
  /\ rules # <<>> /\ flushed < MaxFlushes /\ flushed' = flushed + 1
  /\ rules' = <<>>
  /\ UNCHANGED <<pc, script, addr, lease, served, had, moved, restarted>>

Next == Daemon \/ Restart \/ AddrChanges \/ LeaseChanges \/ Flush

\* The script's loops go round.
Spec == Init /\ [][Next]_vars /\ WF_vars(Daemon)

---------------------------------------------------------------------------
(* Properties *)

\* The places of the two loops and what the script has remembered.
TypeOK ==
  /\ pc \in {"ip", "mac", "watch", "dhcp", "rules"}
  /\ {old_ip, IP, addr, served} \subseteq Addrs \cup {""}
  /\ {old_mac, mac, lease} \subseteq Macs \cup {""}
  /\ rules \in Seq(Macs)
  /\ pc = "ip" => old_ip = ""
  /\ pc \notin {"ip", "mac"} => old_ip # ""

\* Packets from the modem go to one client: there are never two rules.
OneRule == Len(rules) <= 1

\* dnsmasq ends up with the address that the modem ends up with, once a client
\* has a lease (the second loop does not look at the address).
FollowsIp ==
  \A a \in Addrs : <>[](addr = a /\ lease # "") => <>[](served = a)

\* The client that ends up first in the leases ends up with a rule, also when the
\* rules are flushed and when the script is killed and started again.
FollowsMac ==
  \A m \in Macs : <>[](lease = m /\ addr # "") => <>[](m \in ToSet(rules))

\* "IP has changed.": the third loop calls dhcp when dnsmasq has another address.
OnlyOnChange == [][pc = "dhcp" /\ pc' = "rules" /\ old_ip # IP => IP # served]_vars
=============================================================================
