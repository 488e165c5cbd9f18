-------------------------------- MODULE Mwan3 --------------------------------
(***************************************************************************)
(* mwan3: the hotplug script 15-mwan3 puts an interface into the tables on *)
(* ifup and takes it out on ifdown, and starts mwan3track, which pings and *)
(* calls the hotplug scripts itself when the hosts are lost or found.      *)
(* Handlers run concurrently and wait for their turn: the oldest           *)
(* hotplug-call goes first.                                                *)
(***************************************************************************)
EXTENDS Integers, Sequences, FiniteSets, SequencesExt

CONSTANTS
  Ifaces,
  Trackers,             \* pids of mwan3track
  down, up,             \* rounds after which an interface is offline or online
  MaxFlips,             \* bound: times that the hosts get lost or found
  MaxEvents,            \* bound: interfaces that netifd takes down or up
  MaxAborts             \* bound: handlers that wait for a minute in vain

ConstAssumption ==
  /\ Ifaces # {} /\ IsFiniteSet(Ifaces)
  /\ down \in Nat \ {0} /\ up \in Nat \ {0} /\ 0 \notin Trackers
  /\ {MaxFlips, MaxEvents, MaxAborts} \subseteq Nat

VARIABLES
  dev,          \* interfaces that are up for netifd
  alive,        \* interfaces with enough hosts that answer
  chain, route, rule,   \* interfaces that have a chain, a default route, rules
  policy,       \* interfaces that the policies use
  q,            \* running handlers, the oldest first
  trk, pidfile,
  flips, events, aborts

tables == <<chain, route, rule, policy>>
world == <<dev, alive, flips, events>>
vars == <<tables, world, q, trk, pidfile, aborts>>

Handler(i, action, by) ==
  [iface |-> i, action |-> action, by |-> by,
   pc |-> IF action = "ifup" THEN "gateway" ELSE "turn"]
Off == [pc |-> "off", iface |-> CHOOSE i \in Ifaces : TRUE, score |-> 0]

\* netifd has brought up the interfaces, in some order.
Init ==
  /\ dev = Ifaces /\ alive = Ifaces
  /\ chain = {} /\ route = {} /\ rule = {} /\ policy = {}
  /\ \E s \in SetToSeqs(Ifaces) : q = [n \in DOMAIN s |-> Handler(s[n], "ifup", 0)]
  /\ trk = [t \in Trackers |-> Off] /\ pidfile = [i \in Ifaces |-> 0]
  /\ flips = 0 /\ events = 0 /\ aborts = 0

---------------------------------------------------------------------------
(* 15-mwan3 *)

At(n, at) == n \in DOMAIN q /\ q[n].pc = at
GoOn(n, to) == q' = [q EXCEPT ![n].pc = to]
Ends(n) == q' = RemoveAt(q, n)

\* ACTION ifup adds to a table, ifdown removes.
Set(S, h) == IF h.action = "ifup" THEN S \cup {h.iface} ELSE S \ {h.iface}

\* Ten seconds for a default route.
FindGateway(n) ==
  /\ At(n, "gateway")
  /\ IF q[n].iface \in dev THEN GoOn(n, "turn") ELSE Ends(n)
  /\ UNCHANGED <<tables, world, trk, pidfile, aborts>>

\* Mutant: the script does not wait.
NoTurn(n) ==
  /\ At(n, "turn") /\ GoOn(n, "chain")
  /\ UNCHANGED <<tables, world, trk, pidfile, aborts>>

\* pgrep -o finds the oldest hotplug-call; after a minute the script gives up.
WaitTurn(n) ==
  /\ At(n, "turn")
  /\ \/ n = 1 /\ GoOn(n, "chain") /\ UNCHANGED aborts
     \/ n > 1 /\ aborts < MaxAborts /\ aborts' = aborts + 1 /\ Ends(n)
  /\ UNCHANGED <<tables, world, trk, pidfile>>

mwan3_set_iface_iptables(n) ==
  /\ At(n, "chain") /\ GoOn(n, "route") /\ chain' = Set(chain, q[n])
  /\ UNCHANGED <<route, rule, policy, world, trk, pidfile, aborts>>

mwan3_set_iface_route(n) ==
  /\ At(n, "route") /\ GoOn(n, "rule") /\ route' = Set(route, q[n])
  /\ UNCHANGED <<chain, rule, policy, world, trk, pidfile, aborts>>

mwan3_set_iface_rules(n) ==
  /\ At(n, "rule") /\ rule' = Set(rule, q[n])
  /\ GoOn(n, IF q[n].action = "ifup" THEN "track" ELSE "policy")
  /\ UNCHANGED <<chain, route, policy, world, trk, pidfile, aborts>>

\* mwan3track is started in the background.
mwan3_track(n) ==
  /\ At(n, "track") /\ GoOn(n, "policy")
  /\ \E t \in Trackers :
       /\ trk[t].pc = "off"
       /\ trk' = [trk EXCEPT ![t] = [Off EXCEPT !.pc = "start", !.iface = q[n].iface]]
  /\ UNCHANGED <<tables, world, pidfile, aborts>>

\* Every policy is made of the interfaces that have a chain (see Mwan3Policy).
mwan3_set_policies_iptables(n) ==
  /\ At(n, "policy") /\ Ends(n) /\ policy' = chain
  /\ UNCHANGED <<chain, route, rule, world, trk, pidfile, aborts>>

HandlerStep ==
  \E n \in DOMAIN q :
    \/ FindGateway(n) \/ WaitTurn(n) \/ mwan3_set_iface_iptables(n)
    \/ mwan3_set_iface_route(n) \/ mwan3_set_iface_rules(n) \/ mwan3_track(n)
    \/ mwan3_set_policies_iptables(n)

---------------------------------------------------------------------------
(* mwan3track *)

\* A killed tracker leaves its handler running.
Orphaned(s, t) == [n \in DOMAIN s |-> IF s[n].by = t THEN [s[n] EXCEPT !.by = 0] ELSE s[n]]

Starting(t) == [trk[t] EXCEPT !.pc = "ping", !.score = down + up]

\* Lines 5 to 12.  Trackers of an interface are started one after another, by
\* handlers that wait for each other.
Start(t) ==
  /\ trk[t].pc = "start"
  /\ LET p == pidfile[trk[t].iface]
     IN  /\ trk' = [s \in Trackers |-> IF s = t THEN Starting(t)
                                        ELSE IF s = p THEN Off ELSE trk[s]]
         /\ q' = IF p = 0 THEN q ELSE Orphaned(q, p)
  /\ pidfile' = [pidfile EXCEPT ![trk[t].iface] = t]
  /\ UNCHANGED <<tables, world, aborts>>

\* Mutant: the bound itself counts as below it.
LostEarly(s) == IF s - 1 <= up THEN 0 ELSE s - 1

\* The score after a round without and with enough answers.
Lost(s) == IF s - 1 < up THEN 0 ELSE s - 1
Found(s) == IF s + 1 > up THEN down + up ELSE s + 1

Calls(t, action, s, to) ==
  /\ q' = Append(q, Handler(trk[t].iface, action, t))
  /\ trk' = [trk EXCEPT ![t].score = s, ![t].pc = to]

Answers(t) == trk[t].iface \in alive \cap dev

\* One round of pings.
Ping(t) ==
  /\ trk[t].pc = "ping"
  /\ LET s == IF Answers(t) THEN Found(trk[t].score) ELSE Lost(trk[t].score)
     IN  \/ ~Answers(t) /\ s = up /\ Calls(t, "ifdown", 0, "down")
         \/ Answers(t) /\ s = up /\ Calls(t, "ifup", s, "up")
         \/ s # up /\ trk' = [trk EXCEPT ![t].score = s] /\ UNCHANGED q
  /\ UNCHANGED <<tables, world, pidfile, aborts>>

\* hotplug-call returns: after an ifup the tracker leaves, another one was started.
Returned(t) ==
  /\ trk[t].pc \in {"down", "up"} /\ \A n \in DOMAIN q : q[n].by # t
  /\ IF trk[t].pc = "down"
     THEN trk' = [trk EXCEPT ![t].pc = "ping"] /\ UNCHANGED pidfile
     ELSE trk' = [trk EXCEPT ![t] = Off] /\ pidfile' = [pidfile EXCEPT ![trk[t].iface] = 0]
  /\ UNCHANGED <<tables, world, q, aborts>>

TrackerStep(t) == Start(t) \/ Ping(t) \/ Returned(t)

---------------------------------------------------------------------------
(* The network and netifd *)

Flip(i) ==
  /\ flips < MaxFlips /\ flips' = flips + 1
  /\ alive' = IF i \in alive THEN alive \ {i} ELSE alive \cup {i}
  /\ UNCHANGED <<tables, dev, events, q, trk, pidfile, aborts>>

NetifdEvent(i) ==
  /\ events < MaxEvents /\ events' = events + 1
  /\ \/ i \in dev /\ dev' = dev \ {i} /\ q' = Append(q, Handler(i, "ifdown", 0))
     \/ i \notin dev /\ dev' = dev \cup {i} /\ q' = Append(q, Handler(i, "ifup", 0))
  /\ UNCHANGED <<tables, alive, flips, trk, pidfile, aborts>>

Next ==
  \/ HandlerStep \/ \E t \in Trackers : TrackerStep(t)
  \/ \E i \in Ifaces : Flip(i) \/ NetifdEvent(i)

\* Every process gets to run.
Spec == Init /\ [][Next]_vars /\ WF_vars(HandlerStep) /\ \A t \in Trackers : WF_vars(TrackerStep(t))

---------------------------------------------------------------------------
(* Properties *)

\* The interfaces, the two tables and the processes have the values the scripts give them.
TypeOK ==
  /\ dev \subseteq Ifaces /\ alive \subseteq Ifaces
  /\ chain \subseteq Ifaces /\ route \subseteq Ifaces /\ rule \subseteq Ifaces
  /\ policy \subseteq Ifaces
  /\ \A n \in DOMAIN q :
       /\ q[n].iface \in Ifaces /\ q[n].by \in Trackers \cup {0}
       /\ q[n].pc \in {"gateway", "turn", "chain", "route", "rule", "track", "policy"}
  /\ \A t \in Trackers :
       /\ trk[t].pc \in {"off", "start", "ping", "down", "up"}
       /\ trk[t].score \in {0} \cup 1..up \cup (up + 1)..(down + up)
       /\ trk[t].pc = "ping" => trk[t].score # up
  /\ pidfile \in [Ifaces -> Trackers \cup {0}]

\* "Interface $1 error" is what mwan3 reports of an interface that is in some of
\* the tables only: no interface is, and the policies agree, when no handler is at work.
TablesAgree ==
  (\A n \in DOMAIN q : q[n].pc \in {"gateway", "turn"}) =>
    chain = route /\ route = rule /\ policy = chain

\* Two trackers would take an interface down and up against each other.
OneTracker ==
  \A i \in Ifaces : Cardinality({t \in Trackers : trk[t].pc \notin {"off", "start"}
                                                   /\ trk[t].iface = i}) <= 1

\* Failover: an interface whose hosts answer ends up in the policies, one whose
\* hosts are lost ends up out of them.
Failover ==
  \A i \in Ifaces : /\ <>[](i \in alive \cap dev) => <>[](i \in policy)
                    /\ <>[](i \notin alive) => <>[](i \notin policy)

\* The tables as a whole: handlers leave them in agreement and one tracker in charge.
TablesOK == TypeOK /\ TablesAgree /\ OneTracker
=============================================================================
