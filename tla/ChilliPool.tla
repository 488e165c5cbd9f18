----------------------------- MODULE ChilliPool -----------------------------
(***************************************************************************)
(* The address pool of the hotspot (coova-chilli, ippool.c) and the two    *)
(* places of chilli.c that use it: cb_dhcp_request, which gives a client   *)
(* an address, and session_disconnect, which takes it back.                *)
(*                                                                         *)
(* A pool is a record: the members, the hash table of their addresses and  *)
(* the ends of the lists of free dynamic and free static members.  Member  *)
(* 0 is NULL and address 0 is 0.0.0.0.                                     *)
(***************************************************************************)
EXTENDS Integers, FiniteSets

CONSTANTS
  Clients,      \* connections
  Dyn,          \* dynamic members; member i has address i
  Stat,         \* static members
  StatAddrs,    \* addresses of the static range
  MaxAddr,      \* addresses a client may ask for: 0 .. MaxAddr
  HashSize,
  Anyip,        \* option uamanyip
  NatAnyip      \* option uamnatanyip: a client outside of the net is SNATed

ConstAssumption ==
  /\ Dyn \in Nat /\ Stat \in Nat /\ MaxAddr \in Nat /\ Dyn <= MaxAddr
  /\ StatAddrs \subseteq 1 .. MaxAddr
  /\ HashSize \in Nat \ {0}
  /\ Anyip \in BOOLEAN /\ NatAnyip \in BOOLEAN
  /\ 0 \notin Clients

VARIABLES
  pool,
  uplink,       \* the member each connection holds
  hisip,        \* the address its client was given
  natip         \* the address its packets are translated to

vars == <<pool, uplink, hisip, natip>>

Members == 1 .. Dyn + Stat
IsStatic(m) == m > Dyn
Buckets == 0 .. HashSize - 1
Hash(a) == a % HashSize            \* ippool_hash4: any function will do

---------------------------------------------------------------------------
(* The hash table *)

\* The n-th member of the chain of address a, 0 past its end.
Nth(P, a) ==
  LET nth[n \in Nat] == IF n = 0 THEN P.hash[Hash(a)]
                        ELSE IF nth[n - 1] = 0 THEN 0 ELSE P.m[nth[n - 1]].nexthash
  IN  nth
Chain(P, a) == {Nth(P, a)[n] : n \in 0 .. Cardinality(Members)} \ {0}

HashAdd(P, m) ==
  LET c == Chain(P, P.m[m].addr)
  IN  IF c = {} THEN [P EXCEPT !.hash[Hash(P.m[m].addr)] = m]
      ELSE LET tail == CHOOSE p \in c : P.m[p].nexthash = 0
           IN  [P EXCEPT !.m[tail].nexthash = m]

\* m is in its chain.
HashDel(P, m) ==
  LET before == {p \in Chain(P, P.m[m].addr) : P.m[p].nexthash = m}
  IN  IF before = {} THEN [P EXCEPT !.hash[Hash(P.m[m].addr)] = P.m[m].nexthash]
      ELSE [P EXCEPT !.m[CHOOSE p \in before : TRUE].nexthash = P.m[m].nexthash]

InHash(P, a) == {p \in Chain(P, a) : P.m[p].addr = a}
Found(P, a) == IF InHash(P, a) = {} THEN 0 ELSE CHOOSE p \in InHash(P, a) : TRUE

\* An address that is in use, 0 when there is none.
ippool_getip(P, a) == IF Found(P, a) # 0 /\ P.m[Found(P, a)].in_use THEN Found(P, a) ELSE 0

---------------------------------------------------------------------------
(* The lists of free members: P.free[FALSE] is dynamic, P.free[TRUE] static *)

\* Out of its list, in use.
Take(P, m) ==
  LET k == IsStatic(m)
      prev == P.m[m].prev
      next == P.m[m].next
      P1 == IF prev # 0 THEN [P EXCEPT !.m[prev].next = next] ELSE [P EXCEPT !.free[k].first = next]
      P2 == IF next # 0 THEN [P1 EXCEPT !.m[next].prev = prev] ELSE [P1 EXCEPT !.free[k].last = prev]
  IN  [P2 EXCEPT !.m[m].next = 0, !.m[m].prev = 0, !.m[m].in_use = TRUE]

\* At the end of its list, no longer in use; next is left as it is.
GiveBack(P, m) ==
  LET k == IsStatic(m)
      l == P.free[k].last
      P1 == IF l # 0 THEN [P EXCEPT !.m[l].next = m] ELSE [P EXCEPT !.free[k].first = m]
  IN  [P1 EXCEPT !.m[m].prev = l, !.free[k].last = m, !.m[m].in_use = FALSE, !.m[m].peer = 0]

Failed(P) == [m |-> 0, pool |-> P]

\* A free dynamic member has its address in the hash table all the time, a
\* static one only while it is in use.
ippool_newip(P, a, statip) ==
  LET allowed == IF a # 0 /\ statip THEN Anyip \/ a \in StatAddrs ELSE Dyn > 0
      found == IF a # 0 THEN Found(P, a) ELSE 0
      usable == IF ~statip /\ found # 0 /\ P.m[found].in_use THEN 0 ELSE found
      p2 == IF usable = 0 /\ ~statip THEN P.free[FALSE].first ELSE usable
      s == P.free[TRUE].first
  IN  IF ~allowed THEN Failed(P)
      ELSE IF statip /\ Anyip /\ found # 0 /\ IsStatic(found) THEN [m |-> found, pool |-> P]
      ELSE IF p2 # 0 THEN IF P.m[p2].in_use \/ IsStatic(p2) THEN Failed(P)
                          ELSE [m |-> p2, pool |-> Take(P, p2)]
      ELSE IF a = 0 \/ ~statip \/ s = 0 THEN Failed(P)
      ELSE [m |-> s, pool |-> HashAdd([Take(P, s) EXCEPT !.m[s].addr = a], s)]

\* Mutant: a static member goes back to its list and stays in the hash table.
FreeKeepsHash(P, m) ==
  IF IsStatic(m) THEN [GiveBack(P, m) EXCEPT !.m[m].nexthash = 0] ELSE GiveBack(P, m)

ippool_freeip(P, m) ==
  IF ~P.m[m].in_use \/ (IsStatic(m) /\ m \notin Chain(P, P.m[m].addr)) THEN P
  ELSE IF IsStatic(m) THEN [GiveBack(HashDel(P, m), m) EXCEPT !.m[m].addr = 0, !.m[m].nexthash = 0]
  ELSE GiveBack(P, m)

\* chilli.c newip: the address asked for if it can be had, any other if not.
newip(a) == LET fixed == ippool_newip(pool, a, TRUE)
            IN  IF fixed.m # 0 THEN fixed ELSE ippool_newip(fixed.pool, a, FALSE)

---------------------------------------------------------------------------
(* Connections *)

\* ippool_new: all members are free, the dynamic ones are in the hash table.
ippool_new ==
  LET listed(lo, hi, m) == [addr |-> IF m <= Dyn THEN m ELSE 0, in_use |-> FALSE, peer |-> 0,
                            prev |-> IF m = lo THEN 0 ELSE m - 1,
                            next |-> IF m = hi THEN 0 ELSE m + 1, nexthash |-> 0]
      empty == [m |-> [m \in Members |-> IF m <= Dyn THEN listed(1, Dyn, m)
                                         ELSE listed(Dyn + 1, Dyn + Stat, m)],
                hash |-> [b \in Buckets |-> 0],
                free |-> [k \in BOOLEAN |->
                           IF k THEN [first |-> IF Stat = 0 THEN 0 ELSE Dyn + 1,
                                      last |-> IF Stat = 0 THEN 0 ELSE Dyn + Stat]
                           ELSE [first |-> IF Dyn = 0 THEN 0 ELSE 1, last |-> Dyn]]]
      filled[i \in 0 .. Dyn] == IF i = 0 THEN empty ELSE HashAdd(filled[i - 1], i)
  IN  filled[Dyn]

Init ==
  /\ pool = ippool_new
  /\ uplink = [c \in Clients |-> 0] /\ hisip = uplink /\ natip = uplink

NeedsNat(a) == Anyip /\ NatAnyip /\ a > Dyn

\* The address goes back to the pool, the one for SNAT first.
Disconnected(P, m, nat) ==
  LET n == IF ~Anyip \/ nat = 0 THEN 0 ELSE ippool_getip(P, nat)
      P1 == IF n = 0 THEN P ELSE ippool_freeip(P, n)
  IN  IF P1.m[m].in_use THEN ippool_freeip(P1, m) ELSE P1

\* cb_dhcp_request of a connection that has no address yet.
cb_dhcp_request(c, a) ==
  LET got == newip(a)
      his == got.pool.m[got.m].addr
      mine == [got.pool EXCEPT !.m[got.m].peer = c]
      nat == ippool_newip(mine, 0, FALSE)
  IN  /\ uplink[c] = 0 /\ got.m # 0
      /\ IF ~NeedsNat(his)
         THEN /\ pool' = mine
              /\ uplink' = [uplink EXCEPT ![c] = got.m]
              /\ hisip' = [hisip EXCEPT ![c] = his]
              /\ UNCHANGED natip
         ELSE IF nat.m = 0                       \* no address for SNAT: dhcp_freeconn
         THEN /\ pool' = Disconnected(mine, got.m, 0)
              /\ UNCHANGED <<uplink, hisip, natip>>
         ELSE /\ pool' = [nat.pool EXCEPT !.m[nat.m].peer = c]
              /\ uplink' = [uplink EXCEPT ![c] = got.m]
              /\ hisip' = [hisip EXCEPT ![c] = his]
              /\ natip' = [natip EXCEPT ![c] = mine.m[nat.m].addr]

session_disconnect(c) ==
  /\ uplink[c] # 0
  /\ pool' = Disconnected(pool, uplink[c], natip[c])
  /\ uplink' = [uplink EXCEPT ![c] = 0]
  /\ hisip' = [hisip EXCEPT ![c] = 0]
  /\ natip' = [natip EXCEPT ![c] = 0]

Next ==
  \/ \E c \in Clients, a \in 0 .. MaxAddr : cb_dhcp_request(c, a)
  \/ \E c \in Clients : session_disconnect(c)

Spec == Init /\ [][Next]_vars

---------------------------------------------------------------------------
(* Properties *)

Link == 0 .. Dyn + Stat

\* Members, links and addresses are in range, dynamic members keep their address.
TypeOK ==
  /\ pool.m \in [Members -> [addr : 0 .. MaxAddr, in_use : BOOLEAN, peer : Clients \cup {0},
                             prev : Link, next : Link, nexthash : Link]]
  /\ \A m \in 1 .. Dyn : pool.m[m].addr = m
  /\ pool.hash \in [Buckets -> Link]
  /\ pool.free \in [BOOLEAN -> [first : Link, last : Link]]
  /\ uplink \in [Clients -> Link]
  /\ hisip \in [Clients -> 0 .. MaxAddr] /\ natip \in [Clients -> 0 .. Dyn]

Free(k) == {m \in Members : IsStatic(m) = k /\ ~pool.m[m].in_use}
ListOf(k) ==
  LET nth[n \in Nat] == IF n = 0 THEN pool.free[k].first
                        ELSE IF nth[n - 1] = 0 THEN 0 ELSE pool.m[nth[n - 1]].next
  IN  {nth[n] : n \in 0 .. Dyn + Stat}

\* No member is lost: the lists that ippool_newip and ippool_freeip splice hold
\* exactly the free members, linked both ways, and end.
FreeListsOK ==
  \A k \in BOOLEAN :
    /\ ListOf(k) = Free(k) \cup {0}
    /\ pool.free[k].first = 0 <=> pool.free[k].last = 0
    /\ \A m \in Free(k) :
         /\ pool.m[m].next = 0 <=> m = pool.free[k].last
         /\ pool.m[m].next # 0 => pool.m[pool.m[m].next].prev = m

\* A packet for a client's address finds the member of this client: dynamic
\* members and static ones in use are in the chain of their address, others
\* in none, and no address is there twice.
HashOK ==
  /\ \A m \in Members : (m \in Chain(pool, pool.m[m].addr)) <=> (~IsStatic(m) \/ pool.m[m].in_use)
  /\ \A a \in 1 .. MaxAddr : Cardinality(InHash(pool, a)) <= 1

\* Two connections never have the same address, and the address a client was
\* given still is the address of its member and leads to its connection.
OwnAddress ==
  \A c \in Clients : uplink[c] # 0 =>
    /\ ippool_getip(pool, hisip[c]) = uplink[c]
    /\ pool.m[uplink[c]].peer = c

\* No address is lost: one in use belongs to a connection.
InUseIsHeld ==
  \A m \in Members : pool.m[m].in_use =>
    \E c \in Clients : m = uplink[c] \/ (natip[c] # 0 /\ m = ippool_getip(pool, natip[c]))

\* "0=available; 1= used" (ippool.h): a member that is available is nobody's.
AvailableIsFree == \A c \in Clients : uplink[c] # 0 => pool.m[uplink[c]].in_use

\* The pool of ippool.c as a whole: no member is lost, found under two
\* addresses, or kept when its client has gone.
PoolOK == TypeOK /\ FreeListsOK /\ HashOK /\ InUseIsHeld
=============================================================================
