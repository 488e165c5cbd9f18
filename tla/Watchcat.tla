------------------------------- MODULE Watchcat -------------------------------
(***************************************************************************)
(* The watchdog of watchcat.sh in ping mode: pings a host every pingperiod *)
(* seconds and reboots when no ping has been answered for period seconds.  *)
(* The script keeps two times; the model keeps their ages.  Commands other *)
(* than sleep and ping take no time.                                       *)
(***************************************************************************)
EXTENDS Integers

CONSTANTS
  period, pingperiod, forcedelay,
  Words,        \* addresses in pinghosts
  PingTime      \* bound: seconds that a ping takes

\* What load_watchcat has checked; a pingperiod of 0 is a loop without sleep.
ConstAssumption ==
  /\ {period, pingperiod, Words, PingTime} \subseteq Nat \ {0}
  /\ pingperiod < period /\ forcedelay \in Nat

VARIABLES
  pc,
  lastcheck,    \* age of time_lastcheck, to which time_now is equal while it is used
  withinternet, \* age of time_lastcheck_withinternet
  sent,         \* there was a connection when the ping was sent
  delay,        \* seconds since reboot was called
  hangs,        \* reboot does not come to its end
  online, since,        \* the connection, and since when it is so
  well          \* seconds since the connection had last held for Held seconds

vars == <<pc, lastcheck, withinternet, sent, delay, hangs, online, since, well>>

Larger(a, b) == IF a > b THEN a ELSE b

\* Longer than one round of the loop, so that a ping was sent and answered in it.
Held == Larger(pingperiod, PingTime) + PingTime + 1

Cap == period + 2 * Held + forcedelay

Aged(t) == IF t = Cap THEN t ELSE t + 1

Init ==
  /\ pc = "loop" /\ lastcheck = 0 /\ withinternet = 0 /\ sent = FALSE /\ delay = 0
  /\ hangs \in BOOLEAN
  /\ online \in BOOLEAN /\ since = 0 /\ well = 0

---------------------------------------------------------------------------
(* The script *)

\* Mutant: the time that the ping took is not taken off the sleep.
SleptFull == lastcheck >= pingperiod + PingTime

\* sleep pingperiod - time_diff, which counts from the last check
Slept == lastcheck >= pingperiod

\* The age of time_lastcheck_withinternet does not change by reading the time.
SendPing ==
  /\ pc = "loop" /\ Slept
  /\ lastcheck' = 0 /\ sent' = online /\ pc' = "ping"
  /\ UNCHANGED <<withinternet, delay, hangs, online, since, well>>

\* for host in "$pinghosts": one host, whatever the number of words.
Answered ==
  /\ pc = "ping" /\ online /\ sent /\ Words = 1
  /\ withinternet' = lastcheck /\ pc' = "decide"
  /\ UNCHANGED <<lastcheck, sent, delay, hangs, online, since, well>>

NoAnswer ==
  /\ pc = "ping" /\ (~online \/ Words # 1 \/ (~sent /\ lastcheck = PingTime))
  /\ pc' = "decide"
  /\ UNCHANGED <<lastcheck, withinternet, sent, delay, hangs, online, since, well>>

\* time_now is of before the ping.
Reached == withinternet - lastcheck >= period

Decide ==
  /\ pc = "decide"
  /\ pc' = IF Reached THEN "reboot" ELSE "loop"
  /\ delay' = 0
  /\ UNCHANGED <<lastcheck, withinternet, sent, hangs, online, since, well>>

\* reboot & and, with a forcedelay, the sysrq that follows it.
shutdown_now ==
  /\ pc = "reboot"
  /\ IF hangs THEN pc' = (IF forcedelay = 0 THEN "loop" ELSE "force") ELSE pc' = "down"
  /\ UNCHANGED <<lastcheck, withinternet, sent, delay, hangs, online, since, well>>

ForceReboot ==
  /\ pc = "force" /\ delay = forcedelay /\ pc' = "down"
  /\ UNCHANGED <<lastcheck, withinternet, sent, delay, hangs, online, since, well>>

---------------------------------------------------------------------------
(* The world *)

Connection ==
  /\ pc # "down" /\ online' = ~online /\ since' = 0
  /\ UNCHANGED <<pc, lastcheck, withinternet, sent, delay, hangs, well>>

\* Time passes while the script sleeps or waits for ping.
Second ==
  /\ \/ pc = "loop" /\ ~Slept
     \/ pc = "ping" /\ lastcheck < PingTime
     \/ pc = "force" /\ delay < forcedelay
  /\ lastcheck' = Aged(lastcheck) /\ withinternet' = Aged(withinternet)
  /\ since' = Aged(since) /\ delay' = IF pc = "force" THEN delay + 1 ELSE delay
  /\ well' = IF online /\ since' >= Held THEN 0 ELSE Aged(well)
  /\ UNCHANGED <<pc, sent, hangs, online>>

Next ==
  \/ SendPing \/ Answered \/ NoAnswer \/ Decide \/ shutdown_now \/ ForceReboot
  \/ Connection \/ Second

\* The script goes on, time too.
Spec ==
  /\ Init /\ [][Next]_vars
  /\ WF_vars(SendPing \/ Answered \/ NoAnswer \/ Decide \/ shutdown_now \/ ForceReboot \/ Second)

---------------------------------------------------------------------------
(* Properties *)

\* The places of the loop; a ping is never newer than the time it was sent at.
TypeOK ==
  /\ pc \in {"loop", "ping", "decide", "reboot", "force", "down"}
  /\ {lastcheck, withinternet, since, well} \subseteq 0..Cap /\ delay \in 0..forcedelay
  /\ {sent, hangs, online} \subseteq BOOLEAN
  /\ lastcheck <= withinternet

\* "no internet connectivity for $time_diff seconds. Reseting when reaching $period":
\* a reset is never due to less than period seconds, but for the time between two
\* pings, after a connection that held for a whole round of the loop.
NotWhileConnected == pc = "reboot" => well > period - Held

\* A connection that is lost and does not come back has the router reset within
\* period, one round of the loop and the forced delay.
ResetInTime ==
  ~online /\ pc # "down" =>
    since < period + Larger(pingperiod, PingTime) + PingTime + forcedelay

\* watchcat.sh resets the router neither too early nor too late.
ResetsOnTime == TypeOK /\ NotWhileConnected /\ ResetInTime
=============================================================================
