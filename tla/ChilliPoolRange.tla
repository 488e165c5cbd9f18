--------------------------- MODULE ChilliPoolRange ---------------------------
(***************************************************************************)
(* Which addresses ippool_new (coova-chilli, ippool.c) puts in the dynamic *)
(* pool, for every setting of dhcpstart, dhcpend, uamlisten and            *)
(* dhcplisten.  An address is its host part: 0 is the network, Hosts - 1   *)
(* the broadcast address.                                                  *)
(***************************************************************************)
EXTENDS Integers

CONSTANTS
  Hosts,        \* addresses of the subnet, a power of two: ~mask + 1
  UINT32,       \* what a uint32_t wraps at: 2^32 in the code
  OneListen,    \* dhcplisten is not configured and so it is uamlisten
  EndInside     \* dhcpend is not the broadcast address

ConstAssumption ==
  /\ Hosts \in Nat \ {0, 1, 2, 3} /\ UINT32 \in Nat /\ Hosts < UINT32 - 1
  /\ OneListen \in BOOLEAN /\ EndInside \in BOOLEAN

VARIABLES start, end, uamlisten, dhcplisten
vars == <<start, end, uamlisten, dhcplisten>>

Host == 0 .. Hosts - 1

\* The settings that pass the checks: inside of the subnet, in order.
Settings ==
  /\ start \in Host /\ end \in Host
  /\ start > 0 /\ end > 0 => start <= end
  /\ EndInside => end < Hosts - 1
  /\ uamlisten \in 1 .. Hosts - 2
  /\ dhcplisten \in IF OneListen THEN {uamlisten} ELSE 1 .. Hosts - 2

Init == start = 0 /\ end = 0 /\ uamlisten = 1 /\ dhcplisten = 1
\* The hotspot is started again with other settings.
Next == /\ start' \in Host /\ end' \in Host
        /\ uamlisten' \in 1 .. Hosts - 2
        /\ dhcplisten' \in 1 .. Hosts - 2
        /\ Settings'
Spec == Init /\ [][Next]_vars

\* Mutant: the address of the hotspot is not subtracted.
DynsizeFull ==
  (IF start > 0 /\ end > 0 THEN end - start
   ELSE IF start > 0 THEN Hosts - start - 1
   ELSE IF end > 0 THEN (IF Hosts > end THEN end ELSE Hosts) - 1
   ELSE Hosts - 2) % UINT32

\* The number of members, a uint32_t.
dynsize ==
  (IF start > 0 /\ end > 0 THEN end - start
   ELSE IF start > 0 THEN Hosts - start - 1 - 1
   ELSE IF end > 0 THEN (IF Hosts > end THEN end ELSE Hosts) - 1 - 1
   ELSE Hosts - 2 - 1) % UINT32

Reserved(a) == a = uamlisten \/ a = dhcplisten

\* The value of start when member i gets its address: one more once an
\* address of the hotspot itself was met.
StartAt ==
  LET s[i \in 0 .. Hosts] ==
        LET before == IF i = 0 THEN (IF start <= 0 THEN 1 ELSE start) ELSE s[i - 1]
        IN  IF Reserved(i + before) THEN before + 1 ELSE before
  IN  s

Allocated == dynsize <= Hosts       \* calloc of that many members fails
Member(i) == i + StartAt[i]
Pool == {Member(i) : i \in 0 .. dynsize - 1}

\* Every member has an address of its own that a client can use: inside of the
\* subnet, not the network and not the broadcast address.
UsableAddresses ==
  Allocated => /\ Pool \subseteq 1 .. Hosts - 2
               /\ \A i, j \in 0 .. dynsize - 1 : i # j => Member(i) # Member(j)

\* "skip the uamlisten address!" (ippool.c)
SkipsUamlisten == Allocated => uamlisten \notin Pool
=============================================================================
