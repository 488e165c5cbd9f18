----------------------------- MODULE Mwan3Policy -----------------------------
(***************************************************************************)
(* The chain that 15-mwan3 makes of a policy: members are taken in the     *)
(* order of the configuration, and rules with a probability are put before *)
(* those that are there.  Mwan3 has the tables of the interfaces.          *)
(***************************************************************************)
EXTENDS Integers, Sequences, FiniteSets, SequencesExt

CONSTANTS
  Ifaces,
  Metrics, Weights      \* bounds: sets of metrics and of weights

ConstAssumption ==
  /\ Metrics \subseteq 1..255 /\ Weights \subseteq 1..1000 /\ "unreachable" \notin Ifaces

VARIABLES
  members,      \* use_member of the policy
  active,       \* interfaces that have a chain
  chain         \* the rules; a packet takes the first one that matches

vars == <<members, active, chain>>

\* In a thousand; a rule without probability matches always.
Rule(i, p) == [iface |-> i, prob |-> p]
Unreachable == Rule("unreachable", 1000)

\* -F and -A
LowerMetric(acc, m) ==
  [chain |-> <<Rule(m.iface, 1000)>>, lowest |-> m.metric, total |-> m.weight]

\* Mutant: the rule is put behind the others.
AppendSame(acc, m) ==
  LET total == acc.total + m.weight
  IN  [acc EXCEPT !.total = total,
                  !.chain = Append(@, Rule(m.iface, (m.weight * 1000) \div total))]

\* -I, with the share of the weights that were seen so far
SameMetric(acc, m) ==
  LET total == acc.total + m.weight
  IN  [acc EXCEPT !.total = total,
                  !.chain = <<Rule(m.iface, (m.weight * 1000) \div total)>> \o @]

mwan3_set_policy(acc, m) ==
  IF m.iface \notin active' \/ m.metric > acc.lowest THEN acc
  ELSE IF m.metric < acc.lowest THEN LowerMetric(acc, m)
  ELSE SameMetric(acc, m)

mwan3_set_policies_iptables ==
  chain' = FoldLeft(mwan3_set_policy, [chain |-> <<Unreachable>>, lowest |-> 256, total |-> 0],
                    members).chain

Members == [iface : Ifaces, metric : Metrics, weight : Weights]

Init ==
  /\ members \in {s \in [1..Cardinality(Ifaces) -> Members] :
                    \A i, j \in DOMAIN s : i # j => s[i].iface # s[j].iface}
  /\ active = {} /\ chain = <<Unreachable>>

\* ifup or ifdown of an interface
Changes(i) ==
  /\ active' = IF i \in active THEN active \ {i} ELSE active \cup {i}
  /\ mwan3_set_policies_iptables
  /\ UNCHANGED members

Next == \E i \in Ifaces : Changes(i)
Spec == Init /\ [][Next]_vars

---------------------------------------------------------------------------
(* Properties *)

Candidates == {m \in ToSet(members) : m.iface \in active}
Best == {m \in Candidates : \A c \in Candidates : m.metric <= c.metric}

\* The policy has rules for the active members of the lowest metric and for no
\* others, whatever their order; without active members it is unreachable.
LowestMetricOnly ==
  {chain[n].iface : n \in DOMAIN chain}
    = IF Best = {} THEN {"unreachable"} ELSE {m.iface : m \in Best}

\* What is left for the n-th rule, in a million, when those before it do not match.
Left(n) == FoldLeft(LAMBDA acc, r : (acc * (1000 - r.prob)) \div 1000, 1000000,
                    SubSeq(chain, 1, n - 1))
Share(n) == (Left(n) * chain[n].prob) \div 1000
Total == FoldLeft(LAMBDA acc, m : IF m \in Best THEN acc + m.weight ELSE acc, 0, members)

\* Each of them gets its share of the traffic, by weight, to a few thousandths.
SharesByWeight ==
  \A n \in DOMAIN chain : \A m \in Best :
    m.iface = chain[n].iface =>
      LET wanted == (m.weight * 1000000) \div Total
      IN  Share(n) - wanted \in -3000..3000

\* The chain of a policy as a whole: the right members, with the right shares.
PolicyOK == LowestMetricOnly /\ SharesByWeight
=============================================================================
