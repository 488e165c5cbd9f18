------------------------------- MODULE SimIdle -------------------------------
(***************************************************************************)
(* SIM idle protection (sim_idle_protection.sh): cron starts the script    *)
(* for a SIM card; it takes a lock file, switches to the card, enables the *)
(* mobile interface, pings, and puts everything back.  Instances run       *)
(* concurrently; each command of the script is a step.  The sections ppp   *)
(* and mobile WAN of the configuration are treated alike: one is modelled. *)
(***************************************************************************)
EXTENDS Integers, FiniteSets

CONSTANTS
  Procs,        \* instances; each is its own pid
  SimOf,        \* the SIM card that an instance is started for
  MaxWait,      \* rounds of sleep 5, 119 in the script
  Apart,        \* cron starts an instance only when no other one is taking the lock
  Crashes       \* an instance may be killed from outside and its pid used again

Sims == {"sim1", "sim2"}

ConstAssumption ==
  /\ 0 \notin Procs /\ SimOf \in [Procs -> Sims] /\ MaxWait \in Nat \ {0}
  /\ Apart \in BOOLEAN /\ Crashes \in BOOLEAN

VARIABLES
  pc, lock,     \* lock: the pid in the file, 0: no file
  v,            \* variables of each instance, see Fresh
  hung,         \* instances that hang in a command
  foreign,      \* pids that belong to other processes now
  sim,          \* the active card
  conf,         \* enabled and disabled of network.ppp
  killed        \* pids that were killed by an instance

vars == <<pc, lock, v, hung, foreign, sim, conf, killed>>
world == <<hung, foreign, killed>>

Original == [enabled |-> 0, disabled |-> 1]
Default == "sim1"

\* The pid that was read, rounds waited, what was read of the configuration,
\* SIM_CHANGED and PPP_CHANGED.
Fresh == [pid |-> 0, waited |-> 0, saved |-> Original, sim |-> FALSE, conf |-> FALSE]

Init ==
  /\ pc = [p \in Procs |-> "off"] /\ lock = 0
  /\ v = [p \in Procs |-> Fresh]
  /\ hung = {} /\ foreign = {} /\ killed = {}
  /\ sim = Default /\ conf = Original

Locking == {"check", "cat", "wait", "write"}
Main == {"read", "switch", "sim", "set1", "set2", "ping", "reset1", "reset2", "back"}
Alive(q) == IF q = 0 THEN TRUE ELSE pc[q] # "off" \/ q \in foreign       \* -e /proc/$q
Goes(p, to) == pc' = [pc EXCEPT ![p] = to]
Runs(p) == p \notin hung

---------------------------------------------------------------------------
(* Taking the lock *)

Start(p) ==
  /\ pc[p] = "off" /\ p \notin foreign
  /\ Apart => \A q \in Procs : pc[q] \notin Locking
  /\ Goes(p, "check")
  /\ UNCHANGED <<lock, v, sim, conf, world>>

Check(p) ==
  /\ pc[p] = "check"
  /\ Goes(p, IF lock # 0 THEN "cat" ELSE "write")
  /\ UNCHANGED <<lock, v, sim, conf, world>>

\* The file may be gone by now: then pid is empty.
Cat(p) ==
  /\ pc[p] = "cat"
  /\ v' = [v EXCEPT ![p].pid = lock]
  /\ Goes(p, IF Alive(lock) THEN "wait" ELSE "write")
  /\ lock' = IF Alive(lock) THEN lock ELSE 0
  /\ UNCHANGED <<sim, conf, world>>

\* Mutant: the script waits as long as it takes.
WaitForever(p) ==
  /\ pc[p] = "wait" /\ ~Alive(v[p].pid) /\ Goes(p, "write")
  /\ UNCHANGED <<lock, v, sim, conf, world>>

\* The pid is gone, or the script sleeps, or it has waited long enough and
\* kills it; the pid may be its own by now.
Wait(p) ==
  /\ pc[p] = "wait"
  /\ \/ ~Alive(v[p].pid) /\ Goes(p, "write") /\ UNCHANGED <<v, hung, foreign, killed>>
     \/ /\ Alive(v[p].pid) /\ v[p].waited < MaxWait
        /\ v' = [v EXCEPT ![p].waited = @ + 1]
        /\ UNCHANGED <<pc, hung, foreign, killed>>
     \/ /\ Alive(v[p].pid) /\ v[p].waited = MaxWait
        /\ pc' = [q \in Procs |-> IF q = v[p].pid THEN "off" ELSE IF q = p THEN "write" ELSE pc[q]]
        /\ killed' = killed \cup ({v[p].pid} \ {0})
        /\ hung' = hung \ {v[p].pid} /\ foreign' = foreign \ {v[p].pid}
        /\ v' = [q \in Procs |-> IF q = v[p].pid THEN Fresh ELSE v[q]]
  /\ UNCHANGED <<lock, sim, conf>>

Write(p) ==
  /\ pc[p] = "write" /\ lock' = p /\ Goes(p, "read")
  /\ UNCHANGED <<v, sim, conf, world>>

---------------------------------------------------------------------------
(* main *)

ReadConfig(p) ==
  /\ pc[p] = "read" /\ Goes(p, "switch")
  /\ v' = [v EXCEPT ![p].saved = conf]
  /\ UNCHANGED <<lock, sim, conf, world>>

SwitchSim(p) ==
  /\ pc[p] = "switch" /\ Goes(p, "sim")
  /\ sim' = SimOf[p]
  /\ v' = [v EXCEPT ![p].sim = sim # SimOf[p]]
  /\ UNCHANGED <<lock, conf, world>>

wait_for_sim(p) ==
  /\ pc[p] = "sim"
  /\ \E to \in {"set1", "back"} : Goes(p, to)
  /\ UNCHANGED <<lock, v, sim, conf, world>>

set_mobile(p) ==
  /\ \/ /\ pc[p] = "set1" /\ (v[p].saved.disabled = 1 \/ v[p].saved.enabled = 0)
        /\ conf' = [conf EXCEPT !.enabled = 1]
        /\ v' = [v EXCEPT ![p].conf = TRUE]
        /\ Goes(p, "set2")
     \/ /\ pc[p] = "set1" /\ ~(v[p].saved.disabled = 1 \/ v[p].saved.enabled = 0)
        /\ Goes(p, "ping") /\ UNCHANGED <<conf, v>>
     \/ /\ pc[p] = "set2" /\ conf' = [conf EXCEPT !.disabled = 0]
        /\ Goes(p, "ping") /\ UNCHANGED v
  /\ UNCHANGED <<lock, sim, world>>

\* wait_for_connection and ping
Ping(p) ==
  /\ pc[p] = "ping" /\ Goes(p, "reset1")
  /\ UNCHANGED <<lock, v, sim, conf, world>>

\* Mutant: only one of the two options is put back.
ResetOne(p) ==
  /\ pc[p] = "reset1" /\ Goes(p, "back")
  /\ conf' = IF v[p].conf THEN [conf EXCEPT !.enabled = v[p].saved.enabled] ELSE conf
  /\ UNCHANGED <<lock, v, sim, world>>

reset_mobile(p) ==
  /\ \/ /\ pc[p] = "reset1" /\ Goes(p, "reset2")
        /\ conf' = IF v[p].conf THEN [conf EXCEPT !.enabled = v[p].saved.enabled] ELSE conf
     \/ /\ pc[p] = "reset2" /\ Goes(p, "back")
        /\ conf' = IF v[p].conf THEN [conf EXCEPT !.disabled = v[p].saved.disabled] ELSE conf
  /\ UNCHANGED <<lock, v, sim, world>>

SwitchBack(p) ==
  /\ pc[p] = "back" /\ Goes(p, "unlock")
  /\ sim' = IF v[p].sim THEN Default ELSE sim
  /\ UNCHANGED <<lock, v, conf, world>>

Unlock(p) ==
  /\ pc[p] = "unlock" /\ lock' = 0 /\ Goes(p, "exit")
  /\ UNCHANGED <<v, sim, conf, world>>

Exit(p) ==
  /\ pc[p] = "exit" /\ Goes(p, "off")
  /\ v' = [v EXCEPT ![p] = Fresh]
  /\ UNCHANGED <<lock, sim, conf, world>>

\* A command (gsmctl, sim_switch, network reload) does not return.
Hang(p) ==
  /\ pc[p] \in Main /\ Runs(p) /\ hung' = hung \cup {p}
  /\ UNCHANGED <<pc, lock, v, foreign, sim, conf, killed>>

Crash(p) ==
  /\ Crashes /\ pc[p] # "off" /\ Goes(p, "off") /\ hung' = hung \ {p}
  /\ v' = [v EXCEPT ![p] = Fresh]
  /\ UNCHANGED <<lock, foreign, sim, conf, killed>>

\* Another process gets the pid of an instance that is gone, or ends.
PidReused(p) ==
  /\ Crashes /\ pc[p] = "off"
  /\ foreign' = IF p \in foreign THEN foreign \ {p} ELSE foreign \cup {p}
  /\ UNCHANGED <<pc, lock, v, hung, sim, conf, killed>>

Step(p) ==
  /\ Runs(p)
  /\ \/ Check(p) \/ Cat(p) \/ Wait(p) \/ Write(p)
     \/ ReadConfig(p) \/ SwitchSim(p) \/ wait_for_sim(p) \/ set_mobile(p) \/ Ping(p)
     \/ reset_mobile(p) \/ SwitchBack(p) \/ Unlock(p) \/ Exit(p)

Next == \E p \in Procs : Start(p) \/ Step(p) \/ Hang(p) \/ Crash(p) \/ PidReused(p)

\* A process that does not hang goes on.
Spec == Init /\ [][Next]_vars /\ \A p \in Procs : WF_vars(Step(p))

---------------------------------------------------------------------------
(* Properties *)

\* The places of the script; none has waited longer than the loop allows.
TypeOK ==
  /\ pc \in [Procs -> Locking \cup Main \cup {"off", "unlock", "exit"}]
  /\ lock \in Procs \cup {0}
  /\ v \in [Procs -> [pid : Procs \cup {0}, waited : 0..MaxWait,
                      saved : [enabled : 0..1, disabled : 0..1],
                      sim : BOOLEAN, conf : BOOLEAN]]
  /\ hung \subseteq {p \in Procs : pc[p] \in Main}
  /\ foreign \subseteq {p \in Procs : pc[p] = "off"}
  /\ killed \subseteq Procs /\ sim \in Sims
  /\ conf \in [enabled : 0..1, disabled : 0..1]

InMain == {p \in Procs : pc[p] \in Main}

\* "Tikriname ir nepasileides kitas instance. Jei pasileides, laukiame jo darbo
\* pabaigos": no other instance is at work; if there is one, wait for its end.
OneInstance == Cardinality(InMain) <= 1

\* When no instance is at work and none was killed, the configuration and the
\* SIM card are what they were.
EverythingPutBack ==
  (\A p \in Procs : pc[p] = "off") /\ killed = {} => conf = Original /\ sim = Default

\* The ping goes out over the SIM card that the instance was started for.
PingsItsSim == \A p \in Procs : pc[p] = "ping" => sim = SimOf[p]

\* "PPP ir mobile WAN config nustatome i pradine stadija": an instance that is
\* done leaves the configuration in its initial state.
ResetsToInitial == \A p \in Procs : pc[p] = "unlock" => conf = Original

\* "instance pakibes todel kill'inam": what is killed is an instance.
KillsInstances == [][\A p \in Procs : p \in killed' \ killed => p \notin foreign]_vars

\* Whoever is started gets to work, also when another instance hangs, unless
\* it is killed itself.
EveryoneRuns == \A p \in Procs : (pc[p] = "check") ~> (pc[p] \in {"read", "off"})

\* The lock does what it is for: one instance at a time, on its own SIM card,
\* and nothing left behind.
SwitchesAlone == TypeOK /\ OneInstance /\ EverythingPutBack /\ PingsItsSim
=============================================================================
