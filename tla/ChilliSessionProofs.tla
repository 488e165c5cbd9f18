------------------------ MODULE ChilliSessionProofs ------------------------
(***************************************************************************)
(* Theorems about ChilliSession, for any clients, addresses and number of  *)
(* records, any number of requests and messages in flight, and any number  *)
(* of allocations that fail.  A handler is an operator from the state of   *)
(* the data structures to the next one, so that the lemmas are about any   *)
(* state S that is Good and say that the handler's result is.              *)
(***************************************************************************)
EXTENDS ChilliSession, FiniteSetTheorems, TLAPS

---------------------------------------------------------------------------
(* The inductive invariant *)

AppConn == [inuse : BOOLEAN, mac : Macs \cup {0}, dnlink : 0 .. NConn,
            dnprot : {"zero", "null", "none", "uam", "mac"}, uplink : Addrs \cup {0},
            auth : BOOLEAN, uamabort : BOOLEAN, pap : BOOLEAN, start : 0 .. 3]
DhcpConn == [inuse : BOOLEAN, mac : Macs \cup {0}, peer : 0 .. NConn,
             authstate : {"none", "drop", "pass", "dnat"}]
Structures == [app : [Conns -> AppConn], appfree : Seq(Conns), appcount : 0 .. NConn,
               dhcp : [Conns -> DhcpConn], dhcpfree : Seq(Conns), dhcpcount : 0 .. NConn,
               holder : [Addrs -> 0 .. NConn], sessions : 0 .. 3]

\* Each connection is at most once in the free list, and then it was made and is not
\* in use; one in use was made.
FreeList(free, count, conn) ==
  /\ \A i, j \in 1 .. Len(free) : free[i] = free[j] => i = j
  /\ \A i \in 1 .. Len(free) : free[i] <= count /\ ~conn[free[i]].inuse
  /\ \A c \in Conns : conn[c].inuse => c <= count

\* No connection that was made is lost.
AllListed(free, count, conn) ==
  \A c \in 1 .. count : conn[c].inuse \/ \E i \in 1 .. Len(free) : free[i] = c

\* The connections in use, from the side of the session and from that of dhcp.c.
AppLinked(app, dhcp) ==
  \A c \in Conns :
    /\ ~app[c].inuse => app[c] = NoApp
    /\ app[c].inuse => /\ app[c].dnprot # "zero" /\ app[c].dnlink # 0
                       /\ dhcp[app[c].dnlink].inuse
                       /\ dhcp[app[c].dnlink].peer = c
                       /\ dhcp[app[c].dnlink].mac = app[c].mac
DhcpPeers(app, dhcp) ==
  \A d \in Conns : dhcp[d].inuse /\ dhcp[d].peer # 0 => /\ app[dhcp[d].peer].inuse
                                                        /\ app[dhcp[d].peer].dnlink = d
OneEach(dhcp) ==
  /\ \A d \in Conns : dhcp[d].inuse => dhcp[d].mac # 0
  /\ \A d, e \in Conns : dhcp[d].inuse /\ dhcp[e].inuse /\ dhcp[d].mac = dhcp[e].mac => d = e
Held(app, holder) ==
  \A a \in Addrs : \A c \in Conns : holder[a] = c <=> app[c].inuse /\ app[c].uplink = a

Linked(app, dhcp, holder) ==
  /\ AppLinked(app, dhcp)
  /\ DhcpPeers(app, dhcp)
  /\ OneEach(dhcp)
  /\ Held(app, holder)

Good(S) ==
  /\ S \in Structures
  /\ Linked(S.app, S.dhcp, S.holder)
  /\ FreeList(S.appfree, S.appcount, S.app)
  /\ AllListed(S.appfree, S.appcount, S.app)
  /\ FreeList(S.dhcpfree, S.dhcpcount, S.dhcp)

\* Packets of a client pass if and only if its session is authenticated.
Agree(app, dhcp) ==
  \A d \in Conns : dhcp[d].inuse =>
    (dhcp[d].authstate = "pass" <=> dhcp[d].peer # 0 /\ app[dhcp[d].peer].auth)

InFlight ==
  /\ \A r \in reqs : r.cbp \in Conns /\ r.mac \in Macs
  /\ \A g \in msgs : g.addr \in Addrs /\ g.type \in Portal

SInv == Good(st) /\ InFlight

---------------------------------------------------------------------------
(* Steps that leave the connections as they are *)

\* T has the lists, the connections and the addresses of S; what changes is how far
\* a client is authenticated.
SameApp(app, new) ==
  \A c \in Conns : /\ new[c].inuse = app[c].inuse /\ new[c].mac = app[c].mac
                   /\ new[c].dnlink = app[c].dnlink /\ new[c].uplink = app[c].uplink
                   /\ ~app[c].inuse => new[c] = app[c]
                   /\ app[c].dnprot # "zero" => new[c].dnprot # "zero"
SameDhcp(dhcp, new) ==
  \A d \in Conns : /\ new[d].inuse = dhcp[d].inuse /\ new[d].mac = dhcp[d].mac
                   /\ new[d].peer = dhcp[d].peer
SameShape(S, T) ==
  /\ T \in Structures
  /\ T.appfree = S.appfree /\ T.appcount = S.appcount
  /\ T.dhcpfree = S.dhcpfree /\ T.dhcpcount = S.dhcpcount /\ T.holder = S.holder
  /\ SameApp(S.app, T.app) /\ SameDhcp(S.dhcp, T.dhcp)

\* What only changes how far a client is authenticated keeps the invariant.
LEMMA SameShapeGood ==
  ASSUME NConn \in Nat, NEW S, NEW T, Good(S), SameShape(S, T)
  PROVE  Good(T)
<1>1. T \in Structures /\ S \in Structures  BY DEF Good, SameShape
<1>2. AppLinked(T.app, T.dhcp)
  <2>1. ASSUME NEW c \in Conns, ~T.app[c].inuse PROVE T.app[c] = NoApp
    BY <2>1 DEF Good, SameShape, Linked, AppLinked, SameApp
  <2>2. ASSUME NEW c \in Conns, T.app[c].inuse
        PROVE  /\ T.app[c].dnprot # "zero" /\ T.app[c].dnlink # 0
               /\ T.dhcp[T.app[c].dnlink].inuse
               /\ T.dhcp[T.app[c].dnlink].peer = c
               /\ T.dhcp[T.app[c].dnlink].mac = T.app[c].mac
    <3>1. S.app[c].inuse /\ T.app[c].dnlink = S.app[c].dnlink /\ T.app[c].mac = S.app[c].mac
      BY <2>2 DEF SameShape, SameApp
    <3>2. /\ S.app[c].dnprot # "zero" /\ S.app[c].dnlink # 0
          /\ S.dhcp[S.app[c].dnlink].inuse
          /\ S.dhcp[S.app[c].dnlink].peer = c
          /\ S.dhcp[S.app[c].dnlink].mac = S.app[c].mac
      BY <3>1 DEF Good, Linked, AppLinked
    <3>3. S.app[c].dnlink \in Conns
      <4>1. S.app[c] \in AppConn  BY <1>1 DEF Structures
      <4>2. S.app[c].dnlink \in 0 .. NConn  BY <4>1 DEF AppConn
      <4> QED BY <3>2, <4>2 DEF Conns
    <3>4. T.app[c].dnprot # "zero"  BY <3>2 DEF SameShape, SameApp
    <3> QED BY <3>1, <3>2, <3>3, <3>4 DEF SameShape, SameDhcp
  <2> QED BY <2>1, <2>2 DEF AppLinked
<1>3. DhcpPeers(T.app, T.dhcp)
  <2>1. ASSUME NEW d \in Conns, T.dhcp[d].inuse, T.dhcp[d].peer # 0
        PROVE  T.app[T.dhcp[d].peer].inuse /\ T.app[T.dhcp[d].peer].dnlink = d
    <3>1. S.dhcp[d].inuse /\ S.dhcp[d].peer = T.dhcp[d].peer  BY <2>1 DEF SameShape, SameDhcp
    <3>2. S.app[S.dhcp[d].peer].inuse /\ S.app[S.dhcp[d].peer].dnlink = d
      BY <2>1, <3>1 DEF Good, Linked, DhcpPeers
    <3>3. S.dhcp[d].peer \in Conns
      <4>1. S.dhcp[d] \in DhcpConn  BY <1>1 DEF Structures
      <4>2. S.dhcp[d].peer \in 0 .. NConn  BY <4>1 DEF DhcpConn
      <4> QED BY <2>1, <3>1, <4>2 DEF Conns
    <3> QED BY <3>1, <3>2, <3>3 DEF SameShape, SameApp
  <2> QED BY <2>1 DEF DhcpPeers
<1>4. OneEach(T.dhcp)  BY DEF Good, SameShape, Linked, OneEach, SameDhcp
<1>5. Held(T.app, T.holder)  BY DEF Good, SameShape, Linked, Held, SameApp
<1>6. FreeList(T.appfree, T.appcount, T.app)
  <2>1. \A i \in 1 .. Len(S.appfree) : S.appfree[i] \in Conns  BY <1>1 DEF Structures
  <2> QED BY <2>1 DEF Good, SameShape, FreeList, SameApp
<1>7. AllListed(T.appfree, T.appcount, T.app)
  <2>1. \A c \in 1 .. S.appcount : c \in Conns
    <3>1. S.appcount \in 0 .. NConn  BY <1>1 DEF Structures
    <3> QED BY <3>1 DEF Conns
  <2> QED BY <2>1 DEF Good, SameShape, AllListed, SameApp
<1>8. FreeList(T.dhcpfree, T.dhcpcount, T.dhcp)
  <2>1. \A i \in 1 .. Len(S.dhcpfree) : S.dhcpfree[i] \in Conns  BY <1>1 DEF Structures
  <2> QED BY <2>1 DEF Good, SameShape, FreeList, SameDhcp
<1> QED BY <1>1, <1>2, <1>3, <1>4, <1>5, <1>6, <1>7, <1>8 DEF Good, Linked

\* Nothing changes, or two such changes follow each other.
LEMMA SameShapeRefl ==
  ASSUME NEW S, S \in Structures
  PROVE  SameShape(S, S)
BY DEF SameShape, SameApp, SameDhcp

LEMMA SameShapeTrans ==
  ASSUME NEW S, NEW T, NEW U, SameShape(S, T), SameShape(T, U)
  PROVE  SameShape(S, U)
BY DEF SameShape, SameApp, SameDhcp

\* A connection in use, and the entry of a DHCP connection, get new contents.
LEMMA SameShapeApp ==
  ASSUME NEW S, S \in Structures, NEW c \in Conns, S.app[c].inuse, NEW x \in AppConn,
         x.inuse, x.mac = S.app[c].mac, x.dnlink = S.app[c].dnlink,
         x.uplink = S.app[c].uplink, x.dnprot # "zero", NEW T,
         T = [S EXCEPT !.app[c] = x]
  PROVE  SameShape(S, T)
<1>1. T = [S EXCEPT !.app = [S.app EXCEPT ![c] = x]]  OBVIOUS
<1>2. [S.app EXCEPT ![c] = x] \in [Conns -> AppConn]  BY DEF Structures
<1>3. T \in Structures  BY <1>1, <1>2 DEF Structures
<1>4. T.app = [S.app EXCEPT ![c] = x]  BY <1>1 DEF Structures
<1>5. SameApp(S.app, T.app)
  <2>1. ASSUME NEW e \in Conns
        PROVE  /\ T.app[e].inuse = S.app[e].inuse /\ T.app[e].mac = S.app[e].mac
               /\ T.app[e].dnlink = S.app[e].dnlink /\ T.app[e].uplink = S.app[e].uplink
               /\ ~S.app[e].inuse => T.app[e] = S.app[e]
               /\ S.app[e].dnprot # "zero" => T.app[e].dnprot # "zero"
    <3>1. CASE e = c
      <4>1. T.app[e] = x  BY <1>4, <3>1 DEF Structures
      <4>2. x.inuse = S.app[c].inuse  BY DEF Structures, AppConn
      <4> QED BY <3>1, <4>1, <4>2
    <3>2. CASE e # c
      <4>1. T.app[e] = S.app[e]  BY <1>4, <3>2 DEF Structures
      <4> QED BY <4>1
    <3> QED BY <3>1, <3>2
  <2> QED BY <2>1 DEF SameApp
<1>6. T.dhcp = S.dhcp /\ SameDhcp(S.dhcp, S.dhcp)  BY <1>1 DEF Structures, SameDhcp
<1>7. /\ T.appfree = S.appfree /\ T.appcount = S.appcount
      /\ T.dhcpfree = S.dhcpfree /\ T.dhcpcount = S.dhcpcount /\ T.holder = S.holder
  BY <1>1 DEF Structures
<1> QED BY <1>3, <1>5, <1>6, <1>7 DEF SameShape

\* The same for what dhcp.c does with the packets of a client.
LEMMA SameShapeDhcp ==
  ASSUME NEW S, S \in Structures, NEW d \in Conns,
         NEW s \in {"none", "drop", "pass", "dnat"}, NEW T,
         T = [S EXCEPT !.dhcp[d].authstate = s]
  PROVE  SameShape(S, T)
<1> DEFINE y == [S.dhcp[d] EXCEPT !.authstate = s]
<1>1. T = [S EXCEPT !.dhcp = [S.dhcp EXCEPT ![d] = y]]  OBVIOUS
<1>2. S.dhcp[d] \in DhcpConn  BY DEF Structures
<1>3. /\ y \in DhcpConn /\ y.inuse = S.dhcp[d].inuse /\ y.mac = S.dhcp[d].mac
      /\ y.peer = S.dhcp[d].peer
  BY <1>2 DEF DhcpConn
<1> HIDE DEF y
<1>4. [S.dhcp EXCEPT ![d] = y] \in [Conns -> DhcpConn]  BY <1>3 DEF Structures
<1>5. T \in Structures  BY <1>1, <1>4 DEF Structures
<1>6. T.dhcp = [S.dhcp EXCEPT ![d] = y]  BY <1>1 DEF Structures
<1>7. SameDhcp(S.dhcp, T.dhcp)
  <2>1. \A e \in Conns : T.dhcp[e] = IF e = d THEN y ELSE S.dhcp[e]  BY <1>6 DEF Structures
  <2> QED BY <1>3, <2>1 DEF SameDhcp
<1>8. T.app = S.app /\ SameApp(S.app, S.app)  BY <1>1 DEF Structures, SameApp
<1>9. /\ T.appfree = S.appfree /\ T.appcount = S.appcount
      /\ T.dhcpfree = S.dhcpfree /\ T.dhcpcount = S.dhcpcount /\ T.holder = S.holder
  BY <1>1 DEF Structures
<1> QED BY <1>5, <1>7, <1>8, <1>9 DEF SameShape

---------------------------------------------------------------------------
(* What RADIUS and the portal decide keeps the shape *)

\* The types of the fields.
LEMMA Fields ==
  ASSUME NEW S, S \in Structures, NEW c \in Conns
  PROVE  /\ S.app[c] \in AppConn /\ S.dhcp[c] \in DhcpConn
         /\ S.app[c].dnlink \in 0 .. NConn /\ S.dhcp[c].peer \in 0 .. NConn
         /\ S.app[c].uplink \in Addrs \cup {0} /\ S.app[c].auth \in BOOLEAN
         /\ S.app[c].inuse \in BOOLEAN /\ S.dhcp[c].inuse \in BOOLEAN
         /\ S.app[c].mac \in Macs \cup {0} /\ S.dhcp[c].mac \in Macs \cup {0}
<1>1. S.app[c] \in AppConn /\ S.dhcp[c] \in DhcpConn  BY DEF Structures
<1> QED BY <1>1 DEF AppConn, DhcpConn

\* A record of a session is used if a field of it is set.
LEMMA IsUsed ==
  ASSUME NConn \in Nat, NEW S, Good(S), NEW c \in Conns,
         \/ S.app[c].auth \/ S.app[c].uplink # 0 \/ S.app[c].dnlink # 0
         \/ S.app[c].dnprot # "zero"
  PROVE  /\ S.app[c].inuse /\ S.app[c].dnprot # "zero" /\ S.app[c].dnlink \in Conns
         /\ S.dhcp[S.app[c].dnlink].inuse /\ S.dhcp[S.app[c].dnlink].peer = c
         /\ S.dhcp[S.app[c].dnlink].mac = S.app[c].mac
<1>1. ~S.app[c].inuse => S.app[c] = NoApp  BY DEF Good, Linked, AppLinked
<1>2. S.app[c].inuse  BY <1>1 DEF NoApp
<1>3. S.app[c].dnlink \in 0 .. NConn  BY Fields DEF Good
<1>4. /\ S.app[c].dnprot # "zero" /\ S.app[c].dnlink # 0
      /\ S.dhcp[S.app[c].dnlink].inuse /\ S.dhcp[S.app[c].dnlink].peer = c
      /\ S.dhcp[S.app[c].dnlink].mac = S.app[c].mac
  BY <1>2 DEF Good, Linked, AppLinked
<1> QED BY <1>2, <1>3, <1>4 DEF Conns

\* Decides(S, T, c): nothing but the connections of client c may have changed, and they
\* agree.
Decides(S, T, c) ==
  /\ \A e \in Conns : e # c => T.app[e].auth = S.app[e].auth
  /\ \A f \in Conns : f # S.app[c].dnlink => T.dhcp[f].authstate = S.dhcp[f].authstate
  /\ T.dhcp[S.app[c].dnlink].authstate = "pass" <=> T.app[c].auth

\* If they agree for the client of the step, they agree for all.
LEMMA DecidesAgree ==
  ASSUME NConn \in Nat, NEW S, NEW T, Good(S), SameShape(S, T), Agree(S.app, S.dhcp),
         NEW c \in Conns, S.app[c].inuse, Decides(S, T, c)
  PROVE  Agree(T.app, T.dhcp)
<1> DEFINE d == S.app[c].dnlink
<1>1. ASSUME NEW f \in Conns, T.dhcp[f].inuse
      PROVE  T.dhcp[f].authstate = "pass" <=>
               T.dhcp[f].peer # 0 /\ T.app[T.dhcp[f].peer].auth
  <2>1. S.dhcp[f].inuse /\ T.dhcp[f].peer = S.dhcp[f].peer  BY <1>1 DEF SameShape, SameDhcp
  <2>2. S.dhcp[f].authstate = "pass" <=> S.dhcp[f].peer # 0 /\ S.app[S.dhcp[f].peer].auth
    BY <2>1 DEF Agree
  <2>3. d # 0  BY DEF Good, Linked, AppLinked
  <2>4. d \in Conns /\ S.dhcp[d].peer = c  BY <2>3, IsUsed
  <2>5. CASE f = d
    <3>1. c # 0  BY DEF Conns
    <3> QED BY <2>1, <2>4, <2>5, <3>1 DEF Decides
  <2>6. CASE f # d
    <3>1. T.dhcp[f].authstate = S.dhcp[f].authstate  BY <2>6 DEF Decides
    <3>2. CASE S.dhcp[f].peer = 0  BY <2>1, <2>2, <3>1, <3>2
    <3>3. CASE S.dhcp[f].peer # 0
      <4>1. S.app[S.dhcp[f].peer].dnlink = f  BY <2>1, <3>3 DEF Good, Linked, DhcpPeers
      <4>2. S.dhcp[f].peer # c  BY <2>6, <4>1
      <4>3. S.dhcp[f].peer \in Conns
        <5>1. S.dhcp[f] \in DhcpConn  BY DEF Good, Structures
        <5>2. S.dhcp[f].peer \in 0 .. NConn  BY <5>1 DEF DhcpConn
        <5> QED BY <3>3, <5>2 DEF Conns
      <4>4. T.app[S.dhcp[f].peer].auth = S.app[S.dhcp[f].peer].auth
        BY <4>2, <4>3 DEF Decides
      <4> QED BY <2>1, <2>2, <3>1, <4>4
    <3> QED BY <3>2, <3>3
  <2> QED BY <2>5, <2>6
<1> QED BY <1>1 DEF Agree

WithApp(S, c, x) == [S EXCEPT !.app[c] = x]
WithState(S, d, s) == [S EXCEPT !.dhcp[d].authstate = s]

\* What is in the fields after an assignment to one session.
LEMMA AppFields ==
  ASSUME NEW S, S \in Structures, NEW c \in Conns, NEW x, NEW T, T = WithApp(S, c, x)
  PROVE  /\ T.dhcp = S.dhcp /\ T.app[c] = x
         /\ \A e \in Conns : e # c => T.app[e] = S.app[e]
<1>1. T.dhcp = S.dhcp /\ T.app = [S.app EXCEPT ![c] = x]  BY DEF Structures, WithApp
<1> QED BY <1>1 DEF Structures

\* What is in the fields after an assignment to one authstate.
LEMMA DhcpFields ==
  ASSUME NEW S, S \in Structures, NEW d \in Conns, NEW s, NEW T, T = WithState(S, d, s)
  PROVE  /\ T.app = S.app /\ T.dhcp[d].authstate = s
         /\ \A f \in Conns : f # d => T.dhcp[f] = S.dhcp[f]
<1> DEFINE y == [S.dhcp[d] EXCEPT !.authstate = s]
<1>1. T = [S EXCEPT !.dhcp[d] = y]  BY DEF WithState
<1>2. y.authstate = s
  <2>1. S.dhcp[d] \in DhcpConn  BY DEF Structures
  <2> QED BY <2>1 DEF DhcpConn
<1> HIDE DEF y
<1>3. T.app = S.app /\ T.dhcp = [S.dhcp EXCEPT ![d] = y]  BY <1>1 DEF Structures
<1> QED BY <1>2, <1>3 DEF Structures

\* The assignments of the handlers to a session in use, field by field.
LEMMA AuthSet ==
  ASSUME NConn \in Nat, NEW S, Good(S), NEW c \in Conns, S.app[c].inuse,
         NEW b \in BOOLEAN, NEW T, T = [S EXCEPT !.app[c].auth = b]
  PROVE  SameShape(S, T)
<1> DEFINE x == [S.app[c] EXCEPT !.auth = b]
<1>1. T = [S EXCEPT !.app[c] = x]  OBVIOUS
<1>2. S.app[c] \in AppConn /\ S \in Structures  BY Fields DEF Good
<1>3. /\ x \in AppConn /\ x.inuse = S.app[c].inuse /\ x.mac = S.app[c].mac
      /\ x.dnlink = S.app[c].dnlink /\ x.uplink = S.app[c].uplink
      /\ x.dnprot = S.app[c].dnprot
  BY <1>2 DEF AppConn
<1>4. S.app[c].dnprot # "zero"  BY DEF Good, Linked, AppLinked
<1> HIDE DEF x
<1> QED BY <1>1, <1>2, <1>3, <1>4, SameShapeApp

LEMMA StartSet ==
  ASSUME NConn \in Nat, NEW S, Good(S), NEW c \in Conns, S.app[c].inuse,
         NEW n \in 0 .. 3, NEW T, T = [S EXCEPT !.app[c].start = n]
  PROVE  SameShape(S, T)
<1> DEFINE x == [S.app[c] EXCEPT !.start = n]
<1>1. T = [S EXCEPT !.app[c] = x]  OBVIOUS
<1>2. S.app[c] \in AppConn /\ S \in Structures  BY Fields DEF Good
<1>3. /\ x \in AppConn /\ x.inuse = S.app[c].inuse /\ x.mac = S.app[c].mac
      /\ x.dnlink = S.app[c].dnlink /\ x.uplink = S.app[c].uplink
      /\ x.dnprot = S.app[c].dnprot
  BY <1>2 DEF AppConn
<1>4. S.app[c].dnprot # "zero"  BY DEF Good, Linked, AppLinked
<1> HIDE DEF x
<1> QED BY <1>1, <1>2, <1>3, <1>4, SameShapeApp

LEMMA PapSet ==
  ASSUME NConn \in Nat, NEW S, Good(S), NEW c \in Conns, S.app[c].inuse,
         NEW b \in BOOLEAN, NEW T, T = [S EXCEPT !.app[c].pap = b]
  PROVE  SameShape(S, T)
<1> DEFINE x == [S.app[c] EXCEPT !.pap = b]
<1>1. T = [S EXCEPT !.app[c] = x]  OBVIOUS
<1>2. S.app[c] \in AppConn /\ S \in Structures  BY Fields DEF Good
<1>3. /\ x \in AppConn /\ x.inuse = S.app[c].inuse /\ x.mac = S.app[c].mac
      /\ x.dnlink = S.app[c].dnlink /\ x.uplink = S.app[c].uplink
      /\ x.dnprot = S.app[c].dnprot
  BY <1>2 DEF AppConn
<1>4. S.app[c].dnprot # "zero"  BY DEF Good, Linked, AppLinked
<1> HIDE DEF x
<1> QED BY <1>1, <1>2, <1>3, <1>4, SameShapeApp

LEMMA UamAbortSet ==
  ASSUME NConn \in Nat, NEW S, Good(S), NEW c \in Conns, S.app[c].inuse,
         NEW b \in BOOLEAN, NEW T, T = [S EXCEPT !.app[c].uamabort = b]
  PROVE  SameShape(S, T)
<1> DEFINE x == [S.app[c] EXCEPT !.uamabort = b]
<1>1. T = [S EXCEPT !.app[c] = x]  OBVIOUS
<1>2. S.app[c] \in AppConn /\ S \in Structures  BY Fields DEF Good
<1>3. /\ x \in AppConn /\ x.inuse = S.app[c].inuse /\ x.mac = S.app[c].mac
      /\ x.dnlink = S.app[c].dnlink /\ x.uplink = S.app[c].uplink
      /\ x.dnprot = S.app[c].dnprot
  BY <1>2 DEF AppConn
<1>4. S.app[c].dnprot # "zero"  BY DEF Good, Linked, AppLinked
<1> HIDE DEF x
<1> QED BY <1>1, <1>2, <1>3, <1>4, SameShapeApp

LEMMA DnprotSet ==
  ASSUME NConn \in Nat, NEW S, Good(S), NEW c \in Conns, S.app[c].inuse,
         NEW p \in {"null", "none", "uam", "mac"}, NEW T, T = [S EXCEPT !.app[c].dnprot = p]
  PROVE  SameShape(S, T)
<1> DEFINE x == [S.app[c] EXCEPT !.dnprot = p]
<1>1. T = [S EXCEPT !.app[c] = x]  OBVIOUS
<1>2. S.app[c] \in AppConn /\ S \in Structures  BY Fields DEF Good
<1>3. /\ x \in AppConn /\ x.inuse = S.app[c].inuse /\ x.mac = S.app[c].mac
      /\ x.dnlink = S.app[c].dnlink /\ x.uplink = S.app[c].uplink
      /\ x.dnprot # "zero"
  BY <1>2 DEF AppConn
<1> HIDE DEF x
<1> QED BY <1>1, <1>2, <1>3, SameShapeApp

\* terminate_appconn leaves the session not authenticated.
LEMMA TerminateShape ==
  ASSUME NConn \in Nat, NEW S, Good(S), NEW c \in Conns, NEW T, T = terminate_appconn(S, c)
  PROVE  SameShape(S, T) /\ ~T.app[c].auth
<1> DEFINE d == S.app[c].dnlink
           S1 == [S EXCEPT !.app[c].auth = FALSE]
<1>s. S \in Structures  BY DEF Good
<1>1. CASE ~S.app[c].auth  BY <1>1, <1>s, SameShapeRefl DEF terminate_appconn
<1>2. CASE S.app[c].auth
  <2>1. S.app[c].inuse /\ d \in Conns /\ d # 0 /\ S.app[c].dnprot # "zero"
    BY <1>2, IsUsed DEF Conns
  <2>2. SameShape(S, S1)  BY <2>1, AuthSet
  <2>3. T = [S1 EXCEPT !.dhcp[d].authstate = "dnat"]  BY <1>2, <2>1 DEF terminate_appconn
  <2>4. ~S1.app[c].auth
    <3>1. S1.app = [S.app EXCEPT ![c] = [S.app[c] EXCEPT !.auth = FALSE]]
      BY <1>s DEF Structures
    <3>2. S1.app[c] = [S.app[c] EXCEPT !.auth = FALSE]  BY <1>s, <3>1 DEF Structures
    <3>3. S.app[c] \in AppConn  BY <1>s, Fields
    <3> QED BY <3>2, <3>3 DEF AppConn
  <2> HIDE DEF S1, d
  <2>5. S1 \in Structures  BY <2>2 DEF SameShape
  <2>6. SameShape(S1, T)  BY <2>1, <2>3, <2>5, SameShapeDhcp
  <2>7. T.app = S1.app  BY <2>3, <2>5 DEF Structures
  <2> QED BY <2>2, <2>4, <2>6, <2>7, SameShapeTrans
<1> QED BY <1>1, <1>2

\* What terminate_appconn changes.
LEMMA TerminateFields ==
  ASSUME NConn \in Nat, NEW S, Good(S), NEW c \in Conns, S.app[c].inuse, NEW d,
         d = S.app[c].dnlink, NEW T, T = terminate_appconn(S, c)
  PROVE  /\ \A e \in Conns : e # c => T.app[e].auth = S.app[e].auth
         /\ \A f \in Conns : f # d => T.dhcp[f].authstate = S.dhcp[f].authstate
         /\ ~T.app[c].auth
         /\ T.dhcp[d].authstate = IF S.app[c].auth THEN "dnat" ELSE S.dhcp[d].authstate
<1>s. S \in Structures  BY DEF Good
<1>1. CASE ~S.app[c].auth
  <2>1. T = S  BY <1>1 DEF terminate_appconn
  <2> QED BY <1>1, <2>1
<1>2. CASE S.app[c].auth
  <2> DEFINE x == [S.app[c] EXCEPT !.auth = FALSE]
             S1 == [S EXCEPT !.app[c] = x]
  <2>1. d \in Conns /\ d # 0 /\ S.app[c].dnprot # "zero"  BY <1>2, IsUsed DEF Conns
  <2>2. T = WithState(S1, d, "dnat")  BY <1>2, <2>1 DEF terminate_appconn, WithState
  <2>3. ~x.auth
    <3>1. S.app[c] \in AppConn  BY <1>s, Fields
    <3> QED BY <3>1 DEF AppConn
  <2>4. S1 \in Structures
    <3>1. S1 = [S EXCEPT !.app[c].auth = FALSE]  OBVIOUS
    <3>2. SameShape(S, S1)  BY <3>1, AuthSet
    <3> QED BY <3>2 DEF SameShape
  <2>e. S1 = WithApp(S, c, x)  BY DEF WithApp
  <2> HIDE DEF x, S1
  <2>5. /\ S1.dhcp = S.dhcp /\ S1.app[c] = x
        /\ \A e \in Conns : e # c => S1.app[e] = S.app[e]
    BY <1>s, <2>e, AppFields
  <2>6. /\ T.app = S1.app /\ T.dhcp[d].authstate = "dnat"
        /\ \A f \in Conns : f # d => T.dhcp[f] = S1.dhcp[f]
    BY <2>1, <2>2, <2>4, DhcpFields
  <2> QED BY <1>2, <2>3, <2>5, <2>6
<1> QED BY <1>1, <1>2

\* It closes both sides, or none.
LEMMA TerminateAgree ==
  ASSUME NConn \in Nat, NEW S, Good(S), Agree(S.app, S.dhcp), NEW c \in Conns,
         NEW T, T = terminate_appconn(S, c)
  PROVE  Agree(T.app, T.dhcp)
<1>1. CASE ~S.app[c].auth
  <2>1. T = S  BY <1>1 DEF terminate_appconn
  <2> QED BY <2>1
<1>2. CASE S.app[c].auth
  <2>1. S.app[c].inuse  BY <1>2, IsUsed
  <2>2. Decides(S, T, c)  BY <1>2, <2>1, TerminateFields DEF Decides
  <2> QED BY <2>1, <2>2, TerminateShape, DecidesAgree
<1> QED BY <1>1, <1>2

\* dnprot_accept
LEMMA AcceptShape ==
  ASSUME NConn \in Nat, NEW S, Good(S), NEW c \in Conns, NEW T, T = dnprot_accept(S, c)
  PROVE  SameShape(S, T)
<1> DEFINE d == S.app[c].dnlink
           n == (S.sessions + 1) % 4
           S1 == [S EXCEPT !.dhcp[d].authstate = "pass"]
           S2 == [S1 EXCEPT !.app[c].auth = TRUE]
           S3 == [S2 EXCEPT !.app[c].start = n]
<1>s. S \in Structures  BY DEF Good
<1>1. CASE T = S  BY <1>1, <1>s, SameShapeRefl
<1>2. CASE S.app[c].uplink # 0 /\ S.app[c].dnlink # 0 /\ T # S
  <2>1. S.app[c].inuse /\ d \in Conns  BY <1>2, IsUsed
  <2>2. T = [S EXCEPT !.dhcp[d].authstate = "pass",
                      !.app[c].auth = TRUE, !.app[c].start = n, !.sessions = n]
    BY <1>2 DEF dnprot_accept
  <2>3. n \in 0 .. 3
    <3>1. S.sessions \in 0 .. 3  BY <1>s DEF Structures
    <3> QED BY <3>1
  <2>4. T = [S3 EXCEPT !.sessions = n]  BY <2>2
  <2> HIDE DEF n
  <2>5. SameShape(S, S1)  BY <1>s, <2>1, SameShapeDhcp
  <2>6. Good(S1) /\ S1.app[c].inuse  BY <2>1, <2>5, SameShapeGood, ZenonT(40) DEF SameShape, SameApp
  <2> HIDE DEF S1, d
  <2>7. SameShape(S1, S2)  BY <2>6, AuthSet
  <2>8. Good(S2) /\ S2.app[c].inuse  BY <2>6, <2>7, SameShapeGood, ZenonT(40) DEF SameShape, SameApp
  <2> HIDE DEF S2
  <2>9. SameShape(S2, S3)  BY <2>3, <2>8, StartSet
  <2> HIDE DEF S3
  <2>10. S3 \in Structures  BY <2>9 DEF SameShape
  <2>11. SameShape(S3, T)
    <3>1. /\ T \in Structures /\ T.app = S3.app /\ T.dhcp = S3.dhcp
          /\ T.appfree = S3.appfree /\ T.appcount = S3.appcount
          /\ T.dhcpfree = S3.dhcpfree /\ T.dhcpcount = S3.dhcpcount /\ T.holder = S3.holder
      BY <2>3, <2>4, <2>10 DEF Structures
    <3> QED BY <3>1 DEF SameShape, SameApp, SameDhcp
  <2>12. SameShape(S, S2)  BY <2>5, <2>7, SameShapeTrans
  <2>13. SameShape(S, S3)  BY <2>9, <2>12, SameShapeTrans
  <2> QED BY <2>11, <2>13, SameShapeTrans
<1> QED BY <1>1, <1>2 DEF dnprot_accept

\* dnprot_reject; a cleared record has another dnprot.
LEMMA RejectShape ==
  ASSUME ConstAssumption, NEW S, Good(S), NEW c \in Conns, NEW T, T = dnprot_reject(S, c)
  PROVE  SameShape(S, T)
<1> DEFINE d == S.app[c].dnlink
           s == IF MacDeny THEN "drop" ELSE "none"
           p == IF MacDeny THEN "null" ELSE "uam"
           S1 == [S EXCEPT !.dhcp[d].authstate = s]
<1>s. S \in Structures /\ NConn \in Nat  BY DEF Good, ConstAssumption
<1>1. CASE T = S  BY <1>1, <1>s, SameShapeRefl
<1>2. CASE S.app[c].dnlink # 0 /\ T # S
  <2>1. S.app[c].inuse /\ d \in Conns  BY <1>2, <1>s, IsUsed
  <2>2. s \in {"none", "drop", "pass", "dnat"} /\ p \in {"null", "none", "uam", "mac"}  OBVIOUS
  <2>3. T = [S1 EXCEPT !.app[c].dnprot = p]  BY <1>s, <1>2 DEF dnprot_reject, Structures
  <2> HIDE DEF s, p
  <2>4. SameShape(S, S1)  BY <1>s, <2>1, <2>2, SameShapeDhcp
  <2>5. S1.app[c] = S.app[c]  BY <1>s DEF Structures
  <2>6. Good(S1)  BY <1>s, <2>4, SameShapeGood
  <2> HIDE DEF S1, d
  <2>7. SameShape(S1, T)  BY <1>s, <2>1, <2>2, <2>3, <2>5, <2>6, DnprotSet
  <2> QED BY <2>4, <2>7, SameShapeTrans
<1> QED BY <1>1, <1>2 DEF dnprot_reject

---------------------------------------------------------------------------
(* Addresses *)

WithAddr(S, c, a) == [S EXCEPT !.app[c].uplink = a, !.holder[a] = c]

\* A session without an address gets one that is free.
LEMMA TakeAddr ==
  ASSUME ConstAssumption, NEW S, Good(S), NEW c \in Conns, S.app[c].inuse,
         S.app[c].uplink = 0, NEW a \in Addrs, S.holder[a] = 0, NEW T,
         T = WithAddr(S, c, a)
  PROVE  /\ Good(T) /\ T.app[c].inuse
         /\ Agree(S.app, S.dhcp) => Agree(T.app, T.dhcp)
<1> DEFINE x == [S.app[c] EXCEPT !.uplink = a]
<1>1. S \in Structures /\ NConn \in Nat /\ 0 \notin Addrs /\ 0 \notin Conns /\ a # 0
  BY DEF Good, ConstAssumption, Conns
<1>2. S.app[c] \in AppConn  BY <1>1, Fields
<1>3. /\ x \in AppConn /\ x.inuse /\ x.mac = S.app[c].mac /\ x.dnlink = S.app[c].dnlink
      /\ x.uplink = a /\ x.dnprot = S.app[c].dnprot /\ x.auth = S.app[c].auth
  BY <1>2 DEF AppConn
<1>4. T = [S EXCEPT !.app = [S.app EXCEPT ![c] = x], !.holder = [S.holder EXCEPT ![a] = c]]
  BY <1>1 DEF Structures, WithAddr
<1> HIDE DEF x
<1>5. /\ T.app = [S.app EXCEPT ![c] = x] /\ T.holder = [S.holder EXCEPT ![a] = c]
      /\ T.dhcp = S.dhcp /\ T.appfree = S.appfree /\ T.appcount = S.appcount
      /\ T.dhcpfree = S.dhcpfree /\ T.dhcpcount = S.dhcpcount
  BY <1>1, <1>4 DEF Structures
<1>6. /\ \A e \in Conns : T.app[e] = IF e = c THEN x ELSE S.app[e]
      /\ \A b \in Addrs : T.holder[b] = IF b = a THEN c ELSE S.holder[b]
  BY <1>1, <1>5 DEF Structures
<1>7. T \in Structures
  <2>1. [S.app EXCEPT ![c] = x] \in [Conns -> AppConn]  BY <1>1, <1>3 DEF Structures
  <2>2. [S.holder EXCEPT ![a] = c] \in [Addrs -> 0 .. NConn]  BY <1>1 DEF Structures, Conns
  <2> QED BY <1>1, <1>4, <2>1, <2>2 DEF Structures
<1>8. AppLinked(T.app, T.dhcp)
  BY <1>3, <1>5, <1>6 DEF Good, Linked, AppLinked
<1>9. DhcpPeers(T.app, T.dhcp)
  <2>1. ASSUME NEW d \in Conns, S.dhcp[d].inuse, S.dhcp[d].peer # 0
        PROVE  T.app[S.dhcp[d].peer].inuse /\ T.app[S.dhcp[d].peer].dnlink = d
    <3>1. S.app[S.dhcp[d].peer].inuse /\ S.app[S.dhcp[d].peer].dnlink = d
      BY <2>1 DEF Good, Linked, DhcpPeers
    <3>2. S.dhcp[d].peer \in 0 .. NConn  BY <1>1, Fields
    <3>3. S.dhcp[d].peer \in Conns  BY <1>1, <2>1, <3>2 DEF Conns
    <3> QED BY <1>3, <1>6, <3>1, <3>3
  <2> QED BY <1>5, <2>1 DEF DhcpPeers
<1>10. OneEach(T.dhcp)  BY <1>5 DEF Good, Linked, OneEach
<1>11. Held(T.app, T.holder)
  <2>1. ASSUME NEW b \in Addrs, NEW e \in Conns
        PROVE  T.holder[b] = e <=> T.app[e].inuse /\ T.app[e].uplink = b
    <3>1. S.holder[b] = e <=> S.app[e].inuse /\ S.app[e].uplink = b
      BY DEF Good, Linked, Held
    <3> QED BY <1>1, <1>3, <1>6, <3>1
  <2> QED BY <2>1 DEF Held
<1>12. FreeList(T.appfree, T.appcount, T.app)
  <2>1. \A i \in 1 .. Len(S.appfree) : S.appfree[i] \in Conns  BY <1>1 DEF Structures
  <2>2. \A e \in Conns : T.app[e].inuse = S.app[e].inuse
    <3>1. x.inuse = S.app[c].inuse
      <4>1. S.app[c].inuse \in BOOLEAN  BY <1>1, Fields
      <4>2. x.inuse \in BOOLEAN  BY <1>3 DEF AppConn
      <4> QED BY <1>3, <4>1, <4>2
    <3> QED BY <1>6, <3>1
  <2> QED BY <1>5, <2>1, <2>2 DEF Good, FreeList
<1>13. AllListed(T.appfree, T.appcount, T.app)
  <2>1. S.appcount \in 0 .. NConn  BY <1>1 DEF Structures
  <2>2. \A e \in 1 .. S.appcount : e \in Conns  BY <1>1, <2>1 DEF Conns
  <2>3. \A e \in Conns : S.app[e].inuse => T.app[e].inuse  BY <1>3, <1>6
  <2> QED BY <1>5, <2>2, <2>3 DEF Good, AllListed
<1>14. FreeList(T.dhcpfree, T.dhcpcount, T.dhcp)  BY <1>5 DEF Good
<1>15. ASSUME Agree(S.app, S.dhcp) PROVE Agree(T.app, T.dhcp)
  <2>1. ASSUME NEW d \in Conns, S.dhcp[d].inuse, S.dhcp[d].peer # 0
        PROVE  T.app[S.dhcp[d].peer].auth = S.app[S.dhcp[d].peer].auth
    <3>1. S.dhcp[d].peer \in 0 .. NConn  BY <1>1, Fields
    <3>2. S.dhcp[d].peer \in Conns  BY <2>1, <3>1 DEF Conns
    <3> QED BY <1>3, <1>6, <3>2
  <2> QED BY <1>5, <1>15, <2>1 DEF Agree
<1>16. Good(T)
  BY <1>7, <1>8, <1>9, <1>10, <1>11, <1>12, <1>13, <1>14 DEF Good, Linked
<1> QED BY <1>3, <1>6, <1>15, <1>16

\* What newip gives is free.
LEMMA NewAddr ==
  ASSUME ConstAssumption, NEW S, NEW a \in NewAddrs(S), a # 0
  PROVE  a \in Addrs /\ S.holder[a] = 0
BY DEF NewAddrs, FreeAddrs

\* An address is only given to a connection that is in use.
LEMMA GetIpGood ==
  ASSUME ConstAssumption, NEW S, Good(S), NEW c \in Conns, NEW a \in NewAddrs(S) \cup {0},
         S.app[c].inuse \/ a = 0, NEW T, T = upprot_getip(S, c, a)
  PROVE  Good(T)
<1>n. NConn \in Nat  BY DEF ConstAssumption
<1>1. CASE S.app[c].uplink # 0
  <2>1. T = dnprot_accept(S, c)  BY <1>1 DEF upprot_getip
  <2> QED BY <1>n, <2>1, AcceptShape, SameShapeGood
<1>2. CASE S.app[c].uplink = 0 /\ a = 0
  <2>1. T = dnprot_reject(S, c)  BY <1>2 DEF upprot_getip
  <2> QED BY <1>n, <2>1, RejectShape, SameShapeGood
<1>3. CASE S.app[c].uplink = 0 /\ a # 0
  <2> DEFINE S1 == WithAddr(S, c, a)
  <2>1. T = dnprot_accept(S1, c)  BY <1>3 DEF upprot_getip, WithAddr
  <2>2. a \in Addrs /\ S.holder[a] = 0  BY <1>3, NewAddr
  <2>3. Good(S1)  BY <1>3, <2>2, TakeAddr
  <2> HIDE DEF S1
  <2> QED BY <1>n, <2>1, <2>3, AcceptShape, SameShapeGood
<1> QED BY <1>1, <1>2, <1>3

---------------------------------------------------------------------------
(* The end of a DHCP request, and what a portal message does *)

\* The end of cb_dhcp_request.
LEMMA RequestedShape ==
  ASSUME NConn \in Nat, NEW S, Good(S), NEW c \in Conns, S.app[c].inuse,
         NEW T, T = Requested(S, c)
  PROVE  SameShape(S, T)
<1> DEFINE d == S.app[c].dnlink
           S1 == IF S.app[c].auth THEN S ELSE [S EXCEPT !.dhcp[d].authstate = "dnat"]
<1>1. S \in Structures  BY DEF Good
<1>2. d \in Conns
  <2>1. d # 0  BY DEF Good, Linked, AppLinked
  <2> QED BY <2>1, IsUsed
<1>3. SameShape(S, S1)
  <2>1. CASE S.app[c].auth  BY <1>1, <2>1, SameShapeRefl
  <2>2. CASE ~S.app[c].auth
    <3>1. S1 = [S EXCEPT !.dhcp[d].authstate = "dnat"]  BY <2>2
    <3> HIDE DEF S1, d
    <3> QED BY <1>1, <1>2, <3>1, SameShapeDhcp
  <2> QED BY <2>1, <2>2
<1>4. T = IF S.app[c].dnprot = "none" THEN [S1 EXCEPT !.app[c].dnprot = "uam"] ELSE S1
  BY DEF Requested
<1> HIDE DEF S1, d
<1>5. Good(S1) /\ S1.app[c].inuse  BY <1>3, SameShapeGood DEF SameShape, SameApp
<1>6. CASE T = S1  BY <1>3, <1>6
<1>7. CASE T = [S1 EXCEPT !.app[c].dnprot = "uam"]
  <2>1. SameShape(S1, T)  BY <1>5, <1>7, DnprotSet
  <2> QED BY <1>3, <2>1, SameShapeTrans
<1> QED BY <1>4, <1>6, <1>7

\* The message finds the connection by its address, so that it has one.
LEMMA UamDoneShape ==
  ASSUME NConn \in Nat, NEW S, Good(S), NEW c \in Conns, S.app[c].inuse,
         S.app[c].uplink # 0, NEW type \in MsgTypes, NEW T, T = UamDone(S, c, type)
  PROVE  SameShape(S, T)
<1> DEFINE d == S.app[c].dnlink
<1>1. S \in Structures  BY DEF Good
<1>2. d \in Conns
  <2>1. d # 0  BY DEF Good, Linked, AppLinked
  <2> QED BY <2>1, IsUsed
<1>3. CASE type \in {"login", "challenge"} /\ T = [S EXCEPT !.app[c].uamabort = FALSE]
  BY <1>3, UamAbortSet
<1>4. CASE type = "login" /\ T = upprot_getip(S, c, 0)
  <2>1. T = dnprot_accept(S, c)  BY <1>4 DEF upprot_getip
  <2> QED BY <2>1, AcceptShape
<1>5. CASE type = "logout"
  <2> DEFINE S1 == terminate_appconn(S, c)
             S2 == [S1 EXCEPT !.app[c].uamabort = FALSE]
  <2>1. SameShape(S, S1)  BY TerminateShape
  <2>2. T = [S2 EXCEPT !.dhcp[d].authstate = "dnat"]  BY <1>5 DEF UamDone
  <2> HIDE DEF S1, d
  <2>3. Good(S1) /\ S1.app[c].inuse  BY <2>1, SameShapeGood DEF SameShape, SameApp
  <2>4. SameShape(S1, S2)  BY <2>3, UamAbortSet
  <2> HIDE DEF S2
  <2>5. S2 \in Structures  BY <2>4 DEF SameShape
  <2>6. SameShape(S2, T)  BY <1>2, <2>2, <2>5, SameShapeDhcp
  <2>7. SameShape(S, S2)  BY <2>1, <2>4, SameShapeTrans
  <2> QED BY <2>6, <2>7, SameShapeTrans
<1>6. CASE type = "abort"
  <2> DEFINE S1 == [S EXCEPT !.app[c].uamabort = TRUE]
             S2 == [S1 EXCEPT !.dhcp[d].authstate = "dnat"]
  <2>1. SameShape(S, S1)  BY UamAbortSet
  <2>2. T = terminate_appconn(S2, c)  BY <1>6 DEF UamDone
  <2> HIDE DEF S1, d
  <2>3. S1 \in Structures  BY <2>1 DEF SameShape
  <2>4. SameShape(S1, S2)  BY <1>2, <2>3, SameShapeDhcp
  <2> HIDE DEF S2
  <2>5. SameShape(S, S2)  BY <2>1, <2>4, SameShapeTrans
  <2>6. Good(S2)  BY <2>5, SameShapeGood
  <2>7. SameShape(S2, T)  BY <2>2, <2>6, TerminateShape
  <2> QED BY <2>5, <2>7, SameShapeTrans
<1>7. CASE type = "macreauth"
  <2>1. T = S  BY <1>7 DEF UamDone
  <2> QED BY <1>1, <2>1, SameShapeRefl
<1>8. CASE type = "login"
  <2>1. T = [S EXCEPT !.app[c].uamabort = FALSE] \/ T = upprot_getip(S, c, 0)
    BY <1>8 DEF UamDone
  <2> QED BY <1>3, <1>4, <1>8, <2>1
<1>9. CASE type = "challenge"
  <2>1. T = [S EXCEPT !.app[c].uamabort = FALSE]  BY <1>9 DEF UamDone
  <2> QED BY <1>3, <1>9, <2>1
<1> QED BY <1>5, <1>6, <1>7, <1>8, <1>9 DEF MsgTypes

---------------------------------------------------------------------------
(* The lists of free connections *)

OnlyAt(conn, new, c) == \A e \in Conns : e # c => new[e].inuse = conn[e].inuse

IsList(free, count, conn) ==
  free \in Seq(Conns) /\ count \in 0 .. NConn /\ FreeList(free, count, conn)
More(free, count) == count + Fresh(free)

\* The first free connection, or the next of those that were never made.
LEMMA Taken ==
  ASSUME NConn \in Nat, NEW free, NEW count, NEW conn,
         IsList(free, count, conn), NEW c, c = TakeConn(free, count), c # 0
  PROVE  /\ c \in Conns /\ ~conn[c].inuse
         /\ Rest(free) \in Seq(Conns) /\ More(free, count) \in 0 .. NConn
<1>0. free \in Seq(Conns) /\ count \in 0 .. NConn /\ FreeList(free, count, conn)
  BY DEF IsList
<1> USE <1>0
<1>1. CASE free = <<>>
  <2>1. c = count + 1 /\ count < NConn  BY <1>1 DEF TakeConn
  <2>2. c \in Conns  BY <2>1 DEF Conns
  <2>3. ~conn[c].inuse
    <3>1. conn[c].inuse => c <= count  BY <2>2 DEF FreeList
    <3> QED BY <2>1, <3>1
  <2> QED BY <1>1, <2>1, <2>2, <2>3 DEF Rest, Fresh, More
<1>2. CASE free # <<>>
  <2>1. c = free[1] /\ 1 \in 1 .. Len(free)  BY <1>2 DEF TakeConn
  <2>2. Rest(free) = Tail(free) /\ Fresh(free) = 0  BY <1>2 DEF Rest, Fresh
  <2>3. Tail(free) \in Seq(Conns)  BY <1>2
  <2>4. c \in Conns  BY <2>1
  <2> QED BY <2>1, <2>2, <2>3, <2>4 DEF FreeList, More
<1> QED BY <1>1, <1>2

\* The list without the connection that was taken.
LEMMA TakenList ==
  ASSUME NConn \in Nat, NEW free, NEW count, NEW conn,
         IsList(free, count, conn), NEW c, c = TakeConn(free, count), c # 0,
         NEW new, OnlyAt(conn, new, c), new[c].inuse
  PROVE  /\ FreeList(Rest(free), More(free, count), new)
         /\ AllListed(free, count, conn) => AllListed(Rest(free), More(free, count), new)
<1>0. free \in Seq(Conns) /\ count \in 0 .. NConn /\ FreeList(free, count, conn)
  BY DEF IsList
<1> USE <1>0
<1>c. c \in Conns /\ ~conn[c].inuse  BY Taken
<1>d. \A e \in 1 .. count : e \in Conns  BY DEF Conns
<1>1. CASE free = <<>>
  <2>1. c = count + 1 /\ Rest(free) = <<>> /\ Fresh(free) = 1
    BY <1>1 DEF TakeConn, Rest, Fresh
  <2>2. \A e \in Conns : new[e].inuse => e <= count + 1
    <3>1. ASSUME NEW e \in Conns, new[e].inuse PROVE e <= count + 1
      <4>1. CASE e = c  BY <2>1, <4>1
      <4>2. CASE e # c
        <5>1. conn[e].inuse  BY <3>1, <4>2 DEF OnlyAt
        <5>2. e <= count  BY <5>1 DEF FreeList
        <5> QED BY <5>2 DEF Conns
      <4> QED BY <4>1, <4>2
    <3> QED BY <3>1
  <2>3. FreeList(<<>>, count + 1, new)  BY <2>2 DEF FreeList
  <2>4. ASSUME AllListed(free, count, conn), NEW e \in 1 .. count + 1 PROVE new[e].inuse
    <3>1. CASE e = c  BY <3>1
    <3>2. CASE e # c
      <4>1. e \in 1 .. count  BY <2>1, <3>2
      <4>2. conn[e].inuse  BY <1>1, <2>4, <4>1 DEF AllListed
      <4> QED BY <1>d, <3>2, <4>1, <4>2 DEF OnlyAt
    <3> QED BY <3>1, <3>2
  <2> QED BY <2>1, <2>3, <2>4 DEF AllListed, More
<1>2. CASE free # <<>>
  <2> DEFINE rest == Tail(free)
  <2>1. c = free[1] /\ Rest(free) = rest /\ Fresh(free) = 0 /\ count + 0 = count
    BY <1>2 DEF TakeConn, Rest, Fresh
  <2>2. /\ Len(rest) = Len(free) - 1 /\ Len(free) \in Nat
        /\ \A i \in 1 .. Len(rest) : rest[i] = free[i + 1] /\ i + 1 \in 1 .. Len(free)
    BY <1>2
  <2> HIDE DEF rest
  <2>3. \A i, j \in 1 .. Len(free) : free[i] = free[j] => i = j  BY DEF FreeList
  <2>4. \A i \in 1 .. Len(free) : free[i] <= count /\ ~conn[free[i]].inuse /\ free[i] \in Conns
    BY DEF FreeList
  <2>5. \A i, j \in 1 .. Len(rest) : rest[i] = rest[j] => i = j
    <3>1. ASSUME NEW i \in 1 .. Len(rest), NEW j \in 1 .. Len(rest), rest[i] = rest[j]
          PROVE  i = j
      <4>1. i + 1 = j + 1  BY <2>2, <2>3, <3>1
      <4> QED BY <4>1
    <3> QED BY <3>1
  <2>6. ASSUME NEW i \in 1 .. Len(rest) PROVE rest[i] <= count /\ ~new[rest[i]].inuse
    <3>1. rest[i] = free[i + 1] /\ i + 1 \in 1 .. Len(free) /\ i + 1 # 1  BY <2>2
    <3>2. 1 \in 1 .. Len(free)  BY <1>2, <2>2
    <3>3. rest[i] # c  BY <2>1, <2>3, <3>1, <3>2
    <3>4. rest[i] \in Conns /\ rest[i] <= count /\ ~conn[rest[i]].inuse  BY <2>4, <3>1
    <3> QED BY <3>3, <3>4 DEF OnlyAt
  <2>7. ASSUME NEW e \in Conns, new[e].inuse PROVE e <= count
    <3>1. CASE e = c
      <4>1. 1 \in 1 .. Len(free)  BY <1>2, <2>2
      <4> QED BY <2>1, <2>4, <3>1, <4>1
    <3>2. CASE e # c
      <4>1. conn[e].inuse  BY <2>7, <3>2 DEF OnlyAt
      <4> QED BY <4>1 DEF FreeList
    <3> QED BY <3>1, <3>2
  <2>8. ASSUME AllListed(free, count, conn), NEW e \in 1 .. count
        PROVE  new[e].inuse \/ \E i \in 1 .. Len(rest) : rest[i] = e
    <3>1. CASE e = c  BY <3>1
    <3>2. CASE e # c /\ conn[e].inuse  BY <1>d, <3>2 DEF OnlyAt
    <3>3. CASE e # c /\ ~conn[e].inuse
      <4>1. PICK i \in 1 .. Len(free) : free[i] = e  BY <2>8, <3>3 DEF AllListed
      <4>2. i # 1  BY <2>1, <3>3, <4>1
      <4>3. i - 1 \in 1 .. Len(rest) /\ (i - 1) + 1 = i  BY <2>2, <4>2
      <4>4. rest[i - 1] = e  BY <2>2, <4>1, <4>3
      <4> QED BY <4>3, <4>4
    <3> QED BY <3>1, <3>2, <3>3
  <2>9. FreeList(rest, count, new)  BY <2>5, <2>6, <2>7 DEF FreeList
  <2>10. AllListed(free, count, conn) => AllListed(rest, count, new)  BY <2>8 DEF AllListed
  <2> QED BY <2>1, <2>9, <2>10 DEF More
<1> QED BY <1>1, <1>2

\* A connection that is freed comes first.
LEMMA Given ==
  ASSUME NConn \in Nat, NEW free, NEW count, NEW conn,
         IsList(free, count, conn), NEW c \in Conns, conn[c].inuse,
         NEW new, OnlyAt(conn, new, c), ~new[c].inuse
  PROVE  /\ <<c>> \o free \in Seq(Conns)
         /\ <<c>> \o free # <<>> /\ Head(<<c>> \o free) = c
         /\ FreeList(<<c>> \o free, count, new)
         /\ AllListed(free, count, conn) => AllListed(<<c>> \o free, count, new)
<1>0. free \in Seq(Conns) /\ count \in 0 .. NConn /\ FreeList(free, count, conn)
  BY DEF IsList
<1> USE <1>0
<1> DEFINE more == <<c>> \o free
<1>1. /\ more \in Seq(Conns) /\ Len(more) = Len(free) + 1 /\ more[1] = c
      /\ \A i \in 1 .. Len(free) : more[i + 1] = free[i]
      /\ Len(free) \in Nat
  OBVIOUS
<1>2. more # <<>> /\ Head(more) = c  BY <1>1
<1> HIDE DEF more
<1>3. \A i, j \in 1 .. Len(free) : free[i] = free[j] => i = j  BY DEF FreeList
<1>4. \A i \in 1 .. Len(free) : free[i] <= count /\ ~conn[free[i]].inuse /\ free[i] \in Conns
  BY DEF FreeList
<1>5. ASSUME NEW i \in 1 .. Len(more), i # 1
      PROVE  i - 1 \in 1 .. Len(free) /\ more[i] = free[i - 1] /\ more[i] # c
  <2>1. i - 1 \in 1 .. Len(free) /\ (i - 1) + 1 = i  BY <1>1, <1>5
  <2>2. more[i] = free[i - 1]  BY <1>1, <2>1
  <2> QED BY <1>4, <2>1, <2>2
<1>6. \A i, j \in 1 .. Len(more) : more[i] = more[j] => i = j
  <2>1. ASSUME NEW i \in 1 .. Len(more), NEW j \in 1 .. Len(more), more[i] = more[j]
        PROVE  i = j
    <3>1. CASE i = 1 \/ j = 1  BY <1>1, <1>5, <2>1, <3>1
    <3>2. CASE i # 1 /\ j # 1
      <4>1. i - 1 = j - 1  BY <1>3, <1>5, <2>1, <3>2
      <4> QED BY <4>1
    <3> QED BY <3>1, <3>2
  <2> QED BY <2>1
<1>7. ASSUME NEW i \in 1 .. Len(more) PROVE more[i] <= count /\ ~new[more[i]].inuse
  <2>1. CASE i = 1
    <3>1. c <= count  BY DEF FreeList
    <3> QED BY <1>1, <2>1, <3>1
  <2>2. CASE i # 1
    <3>1. i - 1 \in 1 .. Len(free) /\ more[i] = free[i - 1] /\ more[i] # c  BY <1>5, <2>2
    <3>2. more[i] \in Conns /\ more[i] <= count /\ ~conn[more[i]].inuse  BY <1>4, <3>1
    <3> QED BY <3>1, <3>2 DEF OnlyAt
  <2> QED BY <2>1, <2>2
<1>8. ASSUME NEW e \in Conns, new[e].inuse PROVE e <= count
  <2>1. e # c  BY <1>8
  <2>2. conn[e].inuse  BY <1>8, <2>1 DEF OnlyAt
  <2> QED BY <2>2 DEF FreeList
<1>9. ASSUME AllListed(free, count, conn), NEW e \in 1 .. count
      PROVE  new[e].inuse \/ \E i \in 1 .. Len(more) : more[i] = e
  <2>1. CASE e = c
    <3>1. 1 \in 1 .. Len(more)  BY <1>1
    <3> QED BY <1>1, <2>1, <3>1
  <2>2. CASE e # c /\ conn[e].inuse
    <3>1. e \in Conns  BY DEF Conns
    <3> QED BY <2>2, <3>1 DEF OnlyAt
  <2>3. CASE e # c /\ ~conn[e].inuse
    <3>1. PICK i \in 1 .. Len(free) : free[i] = e  BY <1>9, <2>3 DEF AllListed
    <3>2. i + 1 \in 1 .. Len(more) /\ more[i + 1] = e  BY <1>1, <3>1
    <3> QED BY <3>2
  <2> QED BY <2>1, <2>2, <2>3
<1>10. FreeList(more, count, new)  BY <1>6, <1>7, <1>8 DEF FreeList
<1>11. AllListed(free, count, conn) => AllListed(more, count, new)  BY <1>9 DEF AllListed
<1> QED BY <1>1, <1>2, <1>10, <1>11 DEF more

---------------------------------------------------------------------------
(* Connections are made *)

\* A DHCP connection is made for a client that has none; it has no peer yet.
LEMMA LinkedGood ==
  ASSUME ConstAssumption, NEW S, Good(S), NEW m \in Macs,
         \A e \in Conns : S.dhcp[e].inuse => S.dhcp[e].mac # m,
         NEW d, d = TakeConn(S.dhcpfree, S.dhcpcount), d # 0, NEW T, T = DhcpLinked(S, d, m)
  PROVE  /\ Good(T) /\ d \in Conns
         /\ T.dhcp[d].inuse /\ T.dhcp[d].peer = 0
         /\ T.appfree = S.appfree /\ T.appcount = S.appcount
         /\ Agree(S.app, S.dhcp) => Agree(T.app, T.dhcp)
<1> DEFINE y == [NoDhcp EXCEPT !.inuse = TRUE, !.mac = m]
<1>1. /\ S \in Structures /\ NConn \in Nat /\ 0 \notin Macs
      /\ FreeList(S.dhcpfree, S.dhcpcount, S.dhcp)
  BY DEF Good, ConstAssumption
<1>2. IsList(S.dhcpfree, S.dhcpcount, S.dhcp)  BY <1>1 DEF Structures, IsList
<1>3. /\ d \in Conns /\ ~S.dhcp[d].inuse
      /\ Rest(S.dhcpfree) \in Seq(Conns)
      /\ More(S.dhcpfree, S.dhcpcount) \in 0 .. NConn
  BY <1>1, <1>2, Taken
<1>4. /\ y \in DhcpConn /\ y.inuse /\ y.mac = m /\ y.peer = 0 /\ y.authstate = "none" /\ m # 0
  <2>1. NoDhcp \in DhcpConn /\ NoDhcp.peer = 0 /\ NoDhcp.authstate = "none"
    BY <1>1 DEF NoDhcp, DhcpConn, ConstAssumption
  <2> QED BY <1>1, <2>1 DEF DhcpConn
<1>5. T = [S EXCEPT !.dhcpfree = Rest(S.dhcpfree),
                    !.dhcpcount = More(S.dhcpfree, S.dhcpcount),
                    !.dhcp = [S.dhcp EXCEPT ![d] = y]]
  BY <1>1 DEF DhcpLinked, Structures, More
<1> HIDE DEF y
<1>6. [S.dhcp EXCEPT ![d] = y] \in [Conns -> DhcpConn]  BY <1>1, <1>4 DEF Structures
<1>7. T \in Structures  BY <1>1, <1>3, <1>5, <1>6 DEF Structures
<1>8. /\ T.dhcpfree = Rest(S.dhcpfree) /\ T.dhcpcount = More(S.dhcpfree, S.dhcpcount)
      /\ T.dhcp = [S.dhcp EXCEPT ![d] = y]
      /\ T.app = S.app /\ T.appfree = S.appfree /\ T.appcount = S.appcount
      /\ T.holder = S.holder
  BY <1>1, <1>5 DEF Structures
<1>9. \A e \in Conns : T.dhcp[e] = IF e = d THEN y ELSE S.dhcp[e]  BY <1>1, <1>8 DEF Structures
<1>10. FreeList(T.dhcpfree, T.dhcpcount, T.dhcp)
  <2>1. OnlyAt(S.dhcp, T.dhcp, d) /\ T.dhcp[d].inuse  BY <1>3, <1>4, <1>9 DEF OnlyAt
  <2>2. FreeList(Rest(S.dhcpfree), More(S.dhcpfree, S.dhcpcount), T.dhcp)
    BY <1>1, <1>2, <2>1, TakenList
  <2> QED BY <1>8, <2>2
<1>11. AppLinked(T.app, T.dhcp)
  <2>1. ASSUME NEW c \in Conns, S.app[c].inuse
        PROVE  /\ S.app[c].dnprot # "zero" /\ S.app[c].dnlink # 0
               /\ T.dhcp[S.app[c].dnlink].inuse
               /\ T.dhcp[S.app[c].dnlink].peer = c
               /\ T.dhcp[S.app[c].dnlink].mac = S.app[c].mac
    <3>1. S.app[c].dnprot # "zero" /\ S.app[c].dnlink # 0
      BY <2>1 DEF Good, Linked, AppLinked
    <3>2. /\ S.app[c].dnlink \in Conns /\ S.dhcp[S.app[c].dnlink].inuse
          /\ S.dhcp[S.app[c].dnlink].peer = c
          /\ S.dhcp[S.app[c].dnlink].mac = S.app[c].mac
      BY <1>1, <3>1, IsUsed
    <3> QED BY <1>3, <1>9, <3>1, <3>2
  <2>2. \A c \in Conns : ~S.app[c].inuse => S.app[c] = NoApp  BY DEF Good, Linked, AppLinked
  <2> QED BY <1>8, <2>1, <2>2 DEF AppLinked
<1>12. DhcpPeers(T.app, T.dhcp)  BY <1>4, <1>8, <1>9 DEF Good, Linked, DhcpPeers
<1>13. OneEach(T.dhcp)  BY <1>4, <1>9 DEF Good, Linked, OneEach
<1>14. Held(T.app, T.holder)  BY <1>8 DEF Good, Linked
<1>15. FreeList(T.appfree, T.appcount, T.app) /\ AllListed(T.appfree, T.appcount, T.app)
  BY <1>8 DEF Good
<1>16. T.dhcp[d] = y  BY <1>3, <1>9
<1>17. Agree(S.app, S.dhcp) => Agree(T.app, T.dhcp)  BY <1>4, <1>8, <1>9 DEF Agree
<1>18. Good(T)  BY <1>7, <1>8, <1>10, <1>11, <1>12, <1>13, <1>14, <1>15 DEF Good, Linked
<1> QED BY <1>3, <1>4, <1>8, <1>16, <1>17, <1>18

\* It gets a session, if there is a record for one.
LEMMA ConnectGood ==
  ASSUME ConstAssumption, NEW S, Good(S), NEW d \in Conns, S.dhcp[d].inuse,
         S.dhcp[d].peer = 0, NEW T, T = chilli_connect(S, d),
         NEW c, c = TakeConn(S.appfree, S.appcount)
  PROVE  /\ Good(T) /\ (c # 0 => c \in Conns /\ T.app[c].inuse)
         /\ Agree(S.app, S.dhcp) => Agree(T.app, T.dhcp)
<1>1. /\ S \in Structures /\ NConn \in Nat /\ 0 \notin Conns /\ 0 \notin Addrs
      /\ FreeList(S.appfree, S.appcount, S.app)
  BY DEF Good, ConstAssumption, Conns
<1>2. CASE c = 0
  <2>1. T = S  BY <1>2 DEF chilli_connect
  <2> QED BY <1>2, <2>1
<1>3. CASE c # 0
  <2> DEFINE x == [NoApp EXCEPT !.inuse = TRUE, !.mac = S.dhcp[d].mac,
                                !.dnlink = d, !.dnprot = "none"]
             y == [S.dhcp[d] EXCEPT !.peer = c]
  <2>1. IsList(S.appfree, S.appcount, S.app)  BY <1>1 DEF Structures, IsList
  <2>2. /\ c \in Conns /\ ~S.app[c].inuse
        /\ Rest(S.appfree) \in Seq(Conns)
        /\ More(S.appfree, S.appcount) \in 0 .. NConn
    BY <1>1, <1>3, <2>1, Taken
  <2>3. S.dhcp[d] \in DhcpConn /\ S.dhcp[d].mac \in Macs \cup {0}  BY <1>1, Fields
  <2>4. /\ x \in AppConn /\ x.inuse /\ x.mac = S.dhcp[d].mac /\ x.dnlink = d /\ d # 0
        /\ x.dnprot # "zero" /\ x.uplink = 0 /\ ~x.auth
    <3>1. NoApp \in AppConn /\ NoApp.uplink = 0 /\ ~NoApp.auth  BY <1>1 DEF NoApp, AppConn
    <3>2. d \in 0 .. NConn /\ d # 0  BY <1>1 DEF Conns
    <3> QED BY <2>3, <3>1, <3>2 DEF AppConn
  <2>5. /\ y \in DhcpConn /\ y.inuse = S.dhcp[d].inuse /\ y.mac = S.dhcp[d].mac /\ y.peer = c
        /\ y.authstate = S.dhcp[d].authstate
    <3>1. c \in 0 .. NConn  BY <2>2 DEF Conns
    <3> QED BY <2>3, <3>1 DEF DhcpConn
  <2>6. T = [S EXCEPT !.appfree = Rest(S.appfree), !.appcount = More(S.appfree, S.appcount),
                      !.app = [S.app EXCEPT ![c] = x], !.dhcp = [S.dhcp EXCEPT ![d] = y]]
    BY <1>1, <1>3 DEF chilli_connect, Structures, More
  <2> HIDE DEF x, y
  <2>7. /\ [S.app EXCEPT ![c] = x] \in [Conns -> AppConn]
        /\ [S.dhcp EXCEPT ![d] = y] \in [Conns -> DhcpConn]
    BY <1>1, <2>4, <2>5 DEF Structures
  <2>8. T \in Structures  BY <1>1, <2>2, <2>6, <2>7 DEF Structures
  <2>9. /\ T.appfree = Rest(S.appfree) /\ T.appcount = More(S.appfree, S.appcount)
        /\ T.app = [S.app EXCEPT ![c] = x] /\ T.dhcp = [S.dhcp EXCEPT ![d] = y]
        /\ T.dhcpfree = S.dhcpfree /\ T.dhcpcount = S.dhcpcount /\ T.holder = S.holder
    BY <1>1, <2>6 DEF Structures
  <2>10. /\ \A e \in Conns : T.app[e] = IF e = c THEN x ELSE S.app[e]
         /\ \A e \in Conns : T.dhcp[e] = IF e = d THEN y ELSE S.dhcp[e]
    BY <1>1, <2>9 DEF Structures
  <2>11. T.app[c] = x /\ T.dhcp[d] = y  BY <2>2, <2>10
  <2>12. /\ FreeList(T.appfree, T.appcount, T.app)
         /\ AllListed(T.appfree, T.appcount, T.app)
    <3>1. OnlyAt(S.app, T.app, c) /\ T.app[c].inuse  BY <2>4, <2>10, <2>11 DEF OnlyAt
    <3>2. AllListed(S.appfree, S.appcount, S.app)  BY DEF Good
    <3>3. /\ FreeList(Rest(S.appfree), More(S.appfree, S.appcount), T.app)
          /\ AllListed(Rest(S.appfree), More(S.appfree, S.appcount), T.app)
      BY <1>1, <1>3, <2>1, <3>1, <3>2, TakenList
    <3> QED BY <2>9, <3>3
  <2>13. FreeList(T.dhcpfree, T.dhcpcount, T.dhcp)
    <3>1. \A e \in Conns : T.dhcp[e].inuse = S.dhcp[e].inuse  BY <2>5, <2>10
    <3>2. \A i \in 1 .. Len(S.dhcpfree) : S.dhcpfree[i] \in Conns  BY <1>1 DEF Structures
    <3> QED BY <2>9, <3>1, <3>2 DEF Good, FreeList
  <2>14. AppLinked(T.app, T.dhcp)
    <3>1. ASSUME NEW e \in Conns, e # c, S.app[e].inuse
          PROVE  /\ S.app[e].dnprot # "zero" /\ S.app[e].dnlink # 0
                 /\ T.dhcp[S.app[e].dnlink].inuse
                 /\ T.dhcp[S.app[e].dnlink].peer = e
                 /\ T.dhcp[S.app[e].dnlink].mac = S.app[e].mac
      <4>1. S.app[e].dnprot # "zero" /\ S.app[e].dnlink # 0
        BY <3>1 DEF Good, Linked, AppLinked
      <4>2. /\ S.app[e].dnlink \in Conns /\ S.dhcp[S.app[e].dnlink].inuse
            /\ S.dhcp[S.app[e].dnlink].peer = e
            /\ S.dhcp[S.app[e].dnlink].mac = S.app[e].mac
        BY <1>1, <4>1, IsUsed
      <4>3. S.app[e].dnlink # d  BY <1>1, <4>2
      <4> QED BY <2>10, <4>1, <4>2, <4>3
    <3>2. \A e \in Conns : ~S.app[e].inuse => S.app[e] = NoApp  BY DEF Good, Linked, AppLinked
    <3>3. /\ x.dnprot # "zero" /\ x.dnlink # 0 /\ T.dhcp[x.dnlink].inuse
          /\ T.dhcp[x.dnlink].peer = c /\ T.dhcp[x.dnlink].mac = x.mac
      BY <2>4, <2>5, <2>11
    <3>4. ASSUME NEW e \in Conns, e # c PROVE T.app[e] = S.app[e]  BY <2>10, <3>4
    <3> QED BY <2>4, <2>11, <3>1, <3>2, <3>3, <3>4 DEF AppLinked
  <2>15. DhcpPeers(T.app, T.dhcp)
    <3>1. ASSUME NEW e \in Conns, T.dhcp[e].inuse, T.dhcp[e].peer # 0
          PROVE  T.app[T.dhcp[e].peer].inuse /\ T.app[T.dhcp[e].peer].dnlink = e
      <4>1. CASE e = d  BY <2>4, <2>5, <2>11, <4>1
      <4>2. CASE e # d
        <5>1. T.dhcp[e] = S.dhcp[e]  BY <2>10, <4>2
        <5>2. S.app[S.dhcp[e].peer].inuse /\ S.app[S.dhcp[e].peer].dnlink = e
          BY <3>1, <5>1 DEF Good, Linked, DhcpPeers
        <5>3. S.dhcp[e].peer \in 0 .. NConn  BY <1>1, Fields
        <5>4. S.dhcp[e].peer \in Conns /\ S.dhcp[e].peer # c
          BY <1>1, <2>2, <3>1, <5>1, <5>2, <5>3 DEF Conns
        <5> QED BY <2>10, <5>1, <5>2, <5>4
      <4> QED BY <4>1, <4>2
    <3> QED BY <3>1 DEF DhcpPeers
  <2>16. OneEach(T.dhcp)
    <3>1. \A e \in Conns : T.dhcp[e].inuse = S.dhcp[e].inuse /\ T.dhcp[e].mac = S.dhcp[e].mac
      BY <2>5, <2>10
    <3> QED BY <3>1 DEF Good, Linked, OneEach
  <2>17. Held(T.app, T.holder)
    <3>1. ASSUME NEW b \in Addrs, NEW e \in Conns
          PROVE  T.holder[b] = e <=> T.app[e].inuse /\ T.app[e].uplink = b
      <4>1. S.holder[b] = e <=> S.app[e].inuse /\ S.app[e].uplink = b  BY DEF Good, Linked, Held
      <4>2. CASE e = c
        <5>1. T.app[e].uplink # b /\ S.holder[b] # e  BY <1>1, <2>2, <2>4, <2>11, <4>1, <4>2
        <5> QED BY <2>9, <5>1
      <4>3. CASE e # c  BY <2>9, <2>10, <4>1, <4>3
      <4> QED BY <4>2, <4>3
    <3> QED BY <3>1 DEF Held
  <2>18. ASSUME Agree(S.app, S.dhcp) PROVE Agree(T.app, T.dhcp)
    <3>1. ASSUME NEW e \in Conns, T.dhcp[e].inuse
          PROVE  T.dhcp[e].authstate = "pass" <=>
                   T.dhcp[e].peer # 0 /\ T.app[T.dhcp[e].peer].auth
      <4>1. CASE e = d
        <5>1. S.dhcp[d].authstate # "pass"  BY <2>18 DEF Agree
        <5> QED BY <2>4, <2>5, <2>11, <4>1, <5>1
      <4>2. CASE e # d
        <5>1. T.dhcp[e] = S.dhcp[e]  BY <2>10, <4>2
        <5>2. S.dhcp[e].authstate = "pass" <=> S.dhcp[e].peer # 0 /\ S.app[S.dhcp[e].peer].auth
          BY <2>18, <3>1, <5>1 DEF Agree
        <5>3. CASE S.dhcp[e].peer = 0  BY <5>1, <5>2, <5>3
        <5>4. CASE S.dhcp[e].peer # 0
          <6>1. S.app[S.dhcp[e].peer].inuse  BY <3>1, <5>1, <5>4 DEF Good, Linked, DhcpPeers
          <6>2. S.dhcp[e].peer \in 0 .. NConn  BY <1>1, Fields
          <6>3. S.dhcp[e].peer \in Conns /\ S.dhcp[e].peer # c
            BY <2>2, <5>4, <6>1, <6>2 DEF Conns
          <6>4. T.app[S.dhcp[e].peer] = S.app[S.dhcp[e].peer]  BY <2>10, <6>3
          <6> QED BY <5>1, <5>2, <6>4
        <5> QED BY <5>3, <5>4
      <4> QED BY <4>1, <4>2
    <3> QED BY <3>1 DEF Agree
  <2>19. Good(T)  BY <2>8, <2>12, <2>13, <2>14, <2>15, <2>16, <2>17 DEF Good, Linked
  <2> QED BY <2>2, <2>4, <2>11, <2>18, <2>19
<1> QED BY <1>2, <1>3

\* dhcp_newconn as a whole.
LEMMA NewConnGood ==
  ASSUME ConstAssumption, NEW S, Good(S), NEW m \in Macs,
         \A e \in Conns : S.dhcp[e].inuse => S.dhcp[e].mac # m,
         NEW d, d = TakeConn(S.dhcpfree, S.dhcpcount), d # 0,
         NEW c, c = TakeConn(S.appfree, S.appcount), NEW T, T = dhcp_newconn(S, m)
  PROVE  /\ Good(T) /\ d \in Conns
         /\ c # 0 => c \in Conns /\ T.app[c].inuse
         /\ Agree(S.app, S.dhcp) => Agree(T.app, T.dhcp)
<1> DEFINE S1 == DhcpLinked(S, d, m)
<1>1. /\ Good(S1) /\ d \in Conns /\ S1.dhcp[d].inuse /\ S1.dhcp[d].peer = 0
      /\ S1.appfree = S.appfree /\ S1.appcount = S.appcount
      /\ Agree(S.app, S.dhcp) => Agree(S1.app, S1.dhcp)
  BY LinkedGood
<1>2. T = chilli_connect(S1, d)  BY DEF dhcp_newconn
<1> HIDE DEF S1
<1>3. c = TakeConn(S1.appfree, S1.appcount)  BY <1>1
<1> QED BY <1>1, <1>2, <1>3, ConnectGood

---------------------------------------------------------------------------
(* Connections are freed *)

\* What dhcp_freeconn leaves of the other connections, and where the freed ones are.
Freed(S, d, T) ==
  /\ Good(T) /\ ~T.dhcp[d].inuse
  /\ T.dhcpfree # <<>> /\ Head(T.dhcpfree) = d
  /\ \A e \in Conns : e # d => T.dhcp[e].inuse = S.dhcp[e].inuse /\ T.dhcp[e].mac = S.dhcp[e].mac
  /\ S.dhcp[d].peer # 0 => T.appfree # <<>> /\ Head(T.appfree) = S.dhcp[d].peer
  /\ Agree(S.app, S.dhcp) => Agree(T.app, T.dhcp)

\* The DHCP connection has no session.
LEMMA FreeAlone ==
  ASSUME ConstAssumption, NEW S, Good(S), NEW d \in Conns, S.dhcp[d].inuse,
         S.dhcp[d].peer = 0, NEW T, T = dhcp_freeconn(S, d)
  PROVE  Freed(S, d, T)
<1>1. S \in Structures /\ NConn \in Nat /\ 0 \notin Conns
  BY DEF Good, ConstAssumption, Conns
<1>2. T = [S EXCEPT !.dhcp = [S.dhcp EXCEPT ![d] = NoDhcp], !.dhcpfree = <<d>> \o S.dhcpfree]
  BY DEF dhcp_freeconn
<1>3. NoDhcp \in DhcpConn /\ ~NoDhcp.inuse  BY <1>1 DEF NoDhcp, DhcpConn
<1>4. IsList(S.dhcpfree, S.dhcpcount, S.dhcp)  BY <1>1 DEF Structures, IsList, Good
<1>5. <<d>> \o S.dhcpfree \in Seq(Conns)  BY <1>1 DEF Structures
<1>6. T \in Structures
  <2>1. [S.dhcp EXCEPT ![d] = NoDhcp] \in [Conns -> DhcpConn]  BY <1>1, <1>3 DEF Structures
  <2> QED BY <1>1, <1>2, <1>5, <2>1 DEF Structures
<1>7. /\ T.dhcp = [S.dhcp EXCEPT ![d] = NoDhcp] /\ T.dhcpfree = <<d>> \o S.dhcpfree
      /\ T.app = S.app /\ T.appfree = S.appfree /\ T.appcount = S.appcount
      /\ T.dhcpcount = S.dhcpcount /\ T.holder = S.holder
  BY <1>1, <1>2 DEF Structures
<1>8. \A e \in Conns : T.dhcp[e] = IF e = d THEN NoDhcp ELSE S.dhcp[e]
  BY <1>1, <1>7 DEF Structures
<1>9. /\ <<d>> \o S.dhcpfree # <<>> /\ Head(<<d>> \o S.dhcpfree) = d
      /\ FreeList(<<d>> \o S.dhcpfree, S.dhcpcount, T.dhcp)
  <2>1. OnlyAt(S.dhcp, T.dhcp, d) /\ ~T.dhcp[d].inuse  BY <1>3, <1>8 DEF OnlyAt
  <2> QED BY <1>1, <1>4, <2>1, Given
<1>10. AppLinked(T.app, T.dhcp)
  <2>1. ASSUME NEW c \in Conns, S.app[c].inuse
        PROVE  /\ S.app[c].dnprot # "zero" /\ S.app[c].dnlink # 0
               /\ T.dhcp[S.app[c].dnlink].inuse
               /\ T.dhcp[S.app[c].dnlink].peer = c
               /\ T.dhcp[S.app[c].dnlink].mac = S.app[c].mac
    <3>1. S.app[c].dnprot # "zero" /\ S.app[c].dnlink # 0
      BY <2>1 DEF Good, Linked, AppLinked
    <3>2. /\ S.app[c].dnlink \in Conns /\ S.dhcp[S.app[c].dnlink].inuse
          /\ S.dhcp[S.app[c].dnlink].peer = c
          /\ S.dhcp[S.app[c].dnlink].mac = S.app[c].mac
      BY <1>1, <3>1, IsUsed
    <3>3. S.app[c].dnlink # d  BY <1>1, <3>2
    <3> QED BY <1>8, <3>1, <3>2, <3>3
  <2>2. \A c \in Conns : ~S.app[c].inuse => S.app[c] = NoApp  BY DEF Good, Linked, AppLinked
  <2> QED BY <1>7, <2>1, <2>2 DEF AppLinked
<1>11. DhcpPeers(T.app, T.dhcp)  BY <1>3, <1>7, <1>8 DEF Good, Linked, DhcpPeers
<1>12. OneEach(T.dhcp)  BY <1>3, <1>8 DEF Good, Linked, OneEach
<1>13. Good(T)
  BY <1>6, <1>7, <1>9, <1>10, <1>11, <1>12 DEF Good, Linked
<1>14. Agree(S.app, S.dhcp) => Agree(T.app, T.dhcp)  BY <1>3, <1>7, <1>8 DEF Agree
<1> QED BY <1>3, <1>7, <1>8, <1>9, <1>13, <1>14 DEF Freed

\* The two connections of a client are freed, and its address if it has one.  S is the
\* state after terminate_appconn.
LEMMA FreePair ==
  ASSUME ConstAssumption, NEW S, Good(S), NEW d \in Conns, S.dhcp[d].inuse,
         NEW c, c = S.dhcp[d].peer, c # 0, NEW holder, NEW a, a = S.app[c].uplink,
         holder = IF a = 0 THEN S.holder ELSE [S.holder EXCEPT ![a] = 0],
         NEW T, T = [S EXCEPT !.holder = holder, !.app = [S.app EXCEPT ![c] = NoApp],
                              !.appfree = <<c>> \o S.appfree,
                              !.dhcp = [S.dhcp EXCEPT ![d] = NoDhcp],
                              !.dhcpfree = <<d>> \o S.dhcpfree]
  PROVE  Freed(S, d, T)
<1>1. S \in Structures /\ NConn \in Nat /\ 0 \notin Conns /\ 0 \notin Addrs
  BY DEF Good, ConstAssumption, Conns
<1>2. c \in Conns
  <2>1. c \in 0 .. NConn  BY <1>1, Fields
  <2> QED BY <2>1 DEF Conns
<1>3. S.app[c].inuse /\ S.app[c].dnlink = d  BY DEF Good, Linked, DhcpPeers
<1>4. NoDhcp \in DhcpConn /\ ~NoDhcp.inuse  BY <1>1 DEF NoDhcp, DhcpConn
<1>5. NoApp \in AppConn /\ ~NoApp.inuse  BY <1>1 DEF NoApp, AppConn
<1>6. IsList(S.dhcpfree, S.dhcpcount, S.dhcp) /\ IsList(S.appfree, S.appcount, S.app)
  BY <1>1 DEF Structures, IsList, Good
<1>7. a \in Addrs \cup {0}  BY <1>1, <1>2, Fields
<1>8. holder \in [Addrs -> 0 .. NConn]
  <2>1. S.holder \in [Addrs -> 0 .. NConn] /\ 0 \in 0 .. NConn  BY <1>1 DEF Structures
  <2> QED BY <2>1
<1>9. \A b \in Addrs : holder[b] = IF b = a THEN 0 ELSE S.holder[b]
  <2>1. S.holder \in [Addrs -> 0 .. NConn]  BY <1>1 DEF Structures
  <2> QED BY <1>1, <1>7, <2>1
<1>10. T \in Structures
  <2>1. [S.dhcp EXCEPT ![d] = NoDhcp] \in [Conns -> DhcpConn]  BY <1>1, <1>4 DEF Structures
  <2>2. [S.app EXCEPT ![c] = NoApp] \in [Conns -> AppConn]  BY <1>1, <1>5 DEF Structures
  <2>3. <<d>> \o S.dhcpfree \in Seq(Conns)  BY <1>1 DEF Structures
  <2>4. <<c>> \o S.appfree \in Seq(Conns)  BY <1>1, <1>2 DEF Structures
  <2> QED BY <1>1, <1>8, <2>1, <2>2, <2>3, <2>4, ZenonT(40) DEF Structures
<1>11. /\ T.dhcp = [S.dhcp EXCEPT ![d] = NoDhcp] /\ T.dhcpfree = <<d>> \o S.dhcpfree
       /\ T.app = [S.app EXCEPT ![c] = NoApp] /\ T.appfree = <<c>> \o S.appfree
       /\ T.appcount = S.appcount /\ T.dhcpcount = S.dhcpcount /\ T.holder = holder
  BY <1>1 DEF Structures
<1>12. /\ \A e \in Conns : T.dhcp[e] = IF e = d THEN NoDhcp ELSE S.dhcp[e]
       /\ \A e \in Conns : T.app[e] = IF e = c THEN NoApp ELSE S.app[e]
  BY <1>1, <1>11 DEF Structures
<1>13. T.dhcp[d] = NoDhcp /\ T.app[c] = NoApp  BY <1>2, <1>12
<1>14. /\ <<d>> \o S.dhcpfree # <<>> /\ Head(<<d>> \o S.dhcpfree) = d
       /\ FreeList(<<d>> \o S.dhcpfree, S.dhcpcount, T.dhcp)
  <2>1. OnlyAt(S.dhcp, T.dhcp, d) /\ ~T.dhcp[d].inuse  BY <1>4, <1>12, <1>13 DEF OnlyAt
  <2> QED BY <1>1, <1>6, <2>1, Given
<1>15. /\ <<c>> \o S.appfree # <<>> /\ Head(<<c>> \o S.appfree) = c
       /\ FreeList(<<c>> \o S.appfree, S.appcount, T.app)
       /\ AllListed(<<c>> \o S.appfree, S.appcount, T.app)
  <2>1. OnlyAt(S.app, T.app, c) /\ ~T.app[c].inuse  BY <1>5, <1>12, <1>13 DEF OnlyAt
  <2>2. AllListed(S.appfree, S.appcount, S.app)  BY DEF Good
  <2> QED BY <1>1, <1>2, <1>3, <1>6, <2>1, <2>2, Given
<1>16. AppLinked(T.app, T.dhcp)
  <2>1. ASSUME NEW e \in Conns, e # c, S.app[e].inuse
        PROVE  /\ S.app[e].dnprot # "zero" /\ S.app[e].dnlink # 0
               /\ T.dhcp[S.app[e].dnlink].inuse
               /\ T.dhcp[S.app[e].dnlink].peer = e
               /\ T.dhcp[S.app[e].dnlink].mac = S.app[e].mac
    <3>1. S.app[e].dnprot # "zero" /\ S.app[e].dnlink # 0
      BY <2>1 DEF Good, Linked, AppLinked
    <3>2. /\ S.app[e].dnlink \in Conns /\ S.dhcp[S.app[e].dnlink].inuse
          /\ S.dhcp[S.app[e].dnlink].peer = e
          /\ S.dhcp[S.app[e].dnlink].mac = S.app[e].mac
      BY <1>1, <3>1, IsUsed, ZenonT(40)
    <3>3. S.app[e].dnlink # d  BY <2>1, <3>2
    <3> QED BY <1>12, <3>1, <3>2, <3>3
  <2>2. \A e \in Conns : ~S.app[e].inuse => S.app[e] = NoApp  BY DEF Good, Linked, AppLinked
  <2>3. ASSUME NEW e \in Conns, e # c PROVE T.app[e] = S.app[e]  BY <1>12, <2>3
  <2>4. ASSUME NEW e \in Conns, T.app[e].inuse PROVE e # c /\ S.app[e].inuse
    BY <1>5, <1>13, <2>3, <2>4
  <2>5. ASSUME NEW e \in Conns, ~T.app[e].inuse PROVE T.app[e] = NoApp
    BY <1>13, <2>2, <2>3, <2>5
  <2>6. ASSUME NEW e \in Conns, T.app[e].inuse
        PROVE  /\ T.app[e].dnprot # "zero" /\ T.app[e].dnlink # 0
               /\ T.dhcp[T.app[e].dnlink].inuse
               /\ T.dhcp[T.app[e].dnlink].peer = e
               /\ T.dhcp[T.app[e].dnlink].mac = T.app[e].mac
    <3>1. e # c /\ S.app[e].inuse  BY <2>4, <2>6
    <3>2. T.app[e] = S.app[e]  BY <2>3, <3>1
    <3>3. /\ S.app[e].dnprot # "zero" /\ S.app[e].dnlink # 0
          /\ T.dhcp[S.app[e].dnlink].inuse
          /\ T.dhcp[S.app[e].dnlink].peer = e
          /\ T.dhcp[S.app[e].dnlink].mac = S.app[e].mac
      BY <2>1, <3>1, Zenon
    <3> QED BY <3>2, <3>3, Zenon
  <2> QED BY <2>5, <2>6 DEF AppLinked
<1>17. DhcpPeers(T.app, T.dhcp)
  <2>1. ASSUME NEW e \in Conns, T.dhcp[e].inuse, T.dhcp[e].peer # 0
        PROVE  T.app[T.dhcp[e].peer].inuse /\ T.app[T.dhcp[e].peer].dnlink = e
    <3>1. e # d /\ T.dhcp[e] = S.dhcp[e]  BY <1>4, <1>12, <1>13, <2>1
    <3>2. S.app[S.dhcp[e].peer].inuse /\ S.app[S.dhcp[e].peer].dnlink = e
      BY <2>1, <3>1 DEF Good, Linked, DhcpPeers
    <3>3. S.dhcp[e].peer \in 0 .. NConn  BY <1>1, Fields
    <3>4. S.dhcp[e].peer \in Conns /\ S.dhcp[e].peer # c
      BY <1>1, <1>3, <2>1, <3>1, <3>2, <3>3 DEF Conns
    <3> QED BY <1>12, <3>1, <3>2, <3>4
  <2> QED BY <2>1 DEF DhcpPeers
<1>18. OneEach(T.dhcp)  BY <1>4, <1>12 DEF Good, Linked, OneEach
<1>19. Held(T.app, T.holder)
  <2>1. ASSUME NEW b \in Addrs, NEW e \in Conns
        PROVE  T.holder[b] = e <=> T.app[e].inuse /\ T.app[e].uplink = b
    <3>1. S.holder[b] = e <=> S.app[e].inuse /\ S.app[e].uplink = b  BY DEF Good, Linked, Held
    <3>2. S.holder[b] = c <=> S.app[c].inuse /\ S.app[c].uplink = b
      BY <1>2 DEF Good, Linked, Held
    <3>3. CASE e = c
      <4>1. ~T.app[e].inuse  BY <1>5, <1>13, <3>3
      <4>2. holder[b] # e  BY <1>1, <1>3, <1>9, <3>2, <3>3
      <4> QED BY <1>11, <4>1, <4>2
    <3>4. CASE e # c
      <4>1. T.app[e] = S.app[e]  BY <1>12, <3>4
      <4>2. holder[b] = e <=> S.holder[b] = e
        <5>1. CASE b = a
          <6>1. holder[b] = 0 /\ S.holder[b] = c /\ e # 0  BY <1>1, <1>3, <1>9, <3>2, <5>1
          <6> QED BY <3>4, <6>1
        <5>2. CASE b # a  BY <1>9, <5>2
        <5> QED BY <5>1, <5>2
      <4> QED BY <1>11, <3>1, <4>1, <4>2
    <3> QED BY <3>3, <3>4
  <2> QED BY <2>1 DEF Held
<1>20. Good(T)
  BY <1>10, <1>11, <1>14, <1>15, <1>16, <1>17, <1>18, <1>19 DEF Good, Linked
<1>21. ~T.dhcp[d].inuse  BY <1>4, <1>13
<1>22. T.dhcpfree # <<>> /\ Head(T.dhcpfree) = d  BY <1>11, <1>14
<1>23. T.appfree # <<>> /\ Head(T.appfree) = c  BY <1>11, <1>15
<1>24. ASSUME NEW e \in Conns, e # d
       PROVE  T.dhcp[e].inuse = S.dhcp[e].inuse /\ T.dhcp[e].mac = S.dhcp[e].mac
  BY <1>12, <1>24
<1>25. ASSUME Agree(S.app, S.dhcp) PROVE Agree(T.app, T.dhcp)
  <2>1. ASSUME NEW e \in Conns, T.dhcp[e].inuse
        PROVE  T.dhcp[e].authstate = "pass" <=>
                 T.dhcp[e].peer # 0 /\ T.app[T.dhcp[e].peer].auth
    <3>1. e # d /\ T.dhcp[e] = S.dhcp[e]  BY <1>4, <1>12, <1>13, <2>1
    <3>2. S.dhcp[e].authstate = "pass" <=> S.dhcp[e].peer # 0 /\ S.app[S.dhcp[e].peer].auth
      BY <1>25, <2>1, <3>1 DEF Agree
    <3>3. CASE S.dhcp[e].peer = 0  BY <3>1, <3>2, <3>3
    <3>4. CASE S.dhcp[e].peer # 0
      <4>1. S.app[S.dhcp[e].peer].dnlink = e  BY <2>1, <3>1, <3>4 DEF Good, Linked, DhcpPeers
      <4>2. S.dhcp[e].peer \in 0 .. NConn  BY <1>1, Fields
      <4>3. S.dhcp[e].peer \in Conns /\ S.dhcp[e].peer # c
        BY <1>3, <3>1, <3>4, <4>1, <4>2 DEF Conns
      <4>4. T.app[S.dhcp[e].peer] = S.app[S.dhcp[e].peer]  BY <1>12, <4>3
      <4> QED BY <3>1, <3>2, <4>4
    <3> QED BY <3>3, <3>4
  <2> QED BY <2>1 DEF Agree
<1> QED BY <1>20, <1>21, <1>22, <1>23, <1>24, <1>25 DEF Freed

\* dhcp_freeconn as a whole.
LEMMA FreeConnGood ==
  ASSUME ConstAssumption, NEW S, Good(S), NEW d \in Conns, S.dhcp[d].inuse,
         NEW T, T = dhcp_freeconn(S, d)
  PROVE  Freed(S, d, T)
<1>1. S \in Structures /\ NConn \in Nat  BY DEF Good, ConstAssumption
<1>2. CASE S.dhcp[d].peer = 0  BY <1>2, FreeAlone
<1>3. CASE S.dhcp[d].peer # 0
  <2> DEFINE c == S.dhcp[d].peer
             S1 == terminate_appconn(S, c)
             a == S.app[c].uplink
             holder == IF a = 0 THEN S1.holder ELSE [S1.holder EXCEPT ![a] = 0]
             S2 == IF a = 0 THEN S1 ELSE [S1 EXCEPT !.holder[a] = 0]
  <2>1. c \in 0 .. NConn  BY <1>1, Fields
  <2>2. c \in Conns /\ c # 0  BY <1>3, <2>1 DEF Conns
  <2>3. SameShape(S, S1)  BY <1>1, <2>2, TerminateShape
  <2>4. S2 = [S1 EXCEPT !.holder = holder]
    <3> HIDE DEF S1
    <3>1. S1 \in Structures  BY <2>3 DEF SameShape
    <3> QED BY <3>1 DEF Structures
  <2>5. T = [freeconn(S2, c) EXCEPT !.dhcp[d] = NoDhcp, !.dhcpfree = <<d>> \o @]
    BY <1>3 DEF dhcp_freeconn, session_disconnect
  <2>6. Good(S1) /\ S1 \in Structures  BY <1>1, <2>3, SameShapeGood DEF Good
  <2>7. S1.app[c].uplink = a  BY <2>2, <2>3 DEF SameShape, SameApp
  <2>8. S1.dhcp[d].inuse /\ S1.dhcp[d].peer = c  BY <2>3 DEF SameShape, SameDhcp
  <2>9. holder = IF a = 0 THEN S1.holder ELSE [S1.holder EXCEPT ![a] = 0]  OBVIOUS
  <2> HIDE DEF S1, a, c, holder, S2
  <2>10. T = [S1 EXCEPT !.holder = holder, !.app = [S1.app EXCEPT ![c] = NoApp],
                        !.appfree = <<c>> \o S1.appfree,
                        !.dhcp = [S1.dhcp EXCEPT ![d] = NoDhcp],
                        !.dhcpfree = <<d>> \o S1.dhcpfree]
    BY <2>4, <2>5, <2>6 DEF freeconn, Structures
  <2>11. Freed(S1, d, T)  BY <2>2, <2>6, <2>7, <2>8, <2>9, <2>10, FreePair
  <2>12. \A e \in Conns : S1.dhcp[e].inuse = S.dhcp[e].inuse /\ S1.dhcp[e].mac = S.dhcp[e].mac
    BY <2>3 DEF SameShape, SameDhcp
  <2>13. Agree(S.app, S.dhcp) => Agree(S1.app, S1.dhcp)
    BY <1>1, <2>2, TerminateAgree DEF S1
  <2> QED BY <2>8, <2>11, <2>12, <2>13 DEF Freed, c
<1> QED BY <1>2, <1>3

\* The connections are made again, and the session has its record back.
LEMMA ForcedGood ==
  ASSUME ConstAssumption, NEW S, Good(S), NEW c \in Conns, S.app[c].uplink # 0,
         NEW T, T = ForcedIp(S, c)
  PROVE  Good(T) /\ T.app[c].inuse
<1> DEFINE d == S.app[c].dnlink
           m == S.dhcp[d].mac
           S1 == dhcp_freeconn(S, d)
           nd == TakeConn(S1.dhcpfree, S1.dhcpcount)
           S2 == dhcp_newconn(S1, m)
           S3 == [S2 EXCEPT !.app[c].dnprot = "mac"]
           S4 == [S3 EXCEPT !.app[c].pap = TRUE]
<1>1. S \in Structures /\ NConn \in Nat /\ 0 \notin Conns
  BY DEF Good, ConstAssumption, Conns
<1>2. /\ S.app[c].inuse /\ d \in Conns /\ S.dhcp[d].inuse /\ S.dhcp[d].peer = c
  BY <1>1, IsUsed
<1>3. Freed(S, d, S1)  BY <1>2, FreeConnGood
<1>4. m \in Macs
  <2>1. m \in Macs \cup {0}  BY <1>1, <1>2, Fields
  <2>2. m # 0  BY <1>2 DEF Good, Linked, OneEach
  <2> QED BY <2>1, <2>2
<1>5. T = [S4 EXCEPT !.dhcp[nd].authstate = "dnat"]  BY DEF ForcedIp
<1>6. \A e \in Conns : S.dhcp[e].inuse /\ S.dhcp[e].mac = m => e = d
  BY <1>2 DEF Good, Linked, OneEach
<1> HIDE DEF S1, m
<1>7. nd = d  BY <1>3 DEF Freed, TakeConn
<1>8. c = TakeConn(S1.appfree, S1.appcount)  BY <1>1, <1>2, <1>3 DEF Freed, TakeConn
<1>9. \A e \in Conns : S1.dhcp[e].inuse => S1.dhcp[e].mac # m  BY <1>3, <1>6 DEF Freed
<1>10. Good(S1) /\ c # 0 /\ nd # 0  BY <1>1, <1>2, <1>3, <1>7 DEF Freed
<1>11. Good(S2) /\ S2.app[c].inuse
  <2>1. nd = TakeConn(S1.dhcpfree, S1.dhcpcount)  OBVIOUS
  <2> HIDE DEF nd, d
  <2> QED BY <1>4, <1>8, <1>9, <1>10, <2>1, NewConnGood
<1> HIDE DEF S2, nd, d
<1>12. SameShape(S2, S3)  BY <1>1, <1>11, DnprotSet
<1>13. Good(S3) /\ S3.app[c].inuse
  BY <1>1, <1>11, <1>12, SameShapeGood DEF SameShape, SameApp
<1> HIDE DEF S3
<1>14. SameShape(S3, S4)  BY <1>1, <1>13, PapSet
<1>15. Good(S4) /\ S4.app[c].inuse
  BY <1>1, <1>13, <1>14, SameShapeGood DEF SameShape, SameApp
<1> HIDE DEF S4
<1>16. SameShape(S4, T)
  <2>1. S4 \in Structures  BY <1>15 DEF Good
  <2>2. nd \in Conns  BY <1>2, <1>7
  <2> QED BY <1>5, <2>1, <2>2, SameShapeDhcp
<1> QED BY <1>1, <1>15, <1>16, SameShapeGood DEF SameShape, SameApp

---------------------------------------------------------------------------
(* Each action keeps the invariant *)

\* Nothing is made, and all addresses are free.
LEMMA InitInv ==
  ASSUME ConstAssumption, Init
  PROVE  SInv
<1>1. NConn \in Nat  BY DEF ConstAssumption
<1>2. NoDhcp \in DhcpConn /\ ~NoDhcp.inuse  BY <1>1 DEF NoDhcp, DhcpConn
<1>3. NoApp \in AppConn /\ ~NoApp.inuse  BY <1>1 DEF NoApp, AppConn
<1>4. st = [app |-> [c \in Conns |-> NoApp], appfree |-> <<>>, appcount |-> 0,
            dhcp |-> [d \in Conns |-> NoDhcp], dhcpfree |-> <<>>, dhcpcount |-> 0,
            holder |-> [a \in Addrs |-> 0], sessions |-> 0]
  BY DEF Init
<1>5. /\ st.app = [c \in Conns |-> NoApp] /\ st.appfree = <<>> /\ st.appcount = 0
      /\ st.dhcp = [d \in Conns |-> NoDhcp] /\ st.dhcpfree = <<>> /\ st.dhcpcount = 0
      /\ st.holder = [a \in Addrs |-> 0]
  BY <1>4
<1>6. st \in Structures
  <2>1. <<>> \in Seq(Conns) /\ 0 \in 0 .. NConn /\ 0 \in 0 .. 3  BY <1>1
  <2>2. [c \in Conns |-> NoApp] \in [Conns -> AppConn]  BY <1>3
  <2>3. [d \in Conns |-> NoDhcp] \in [Conns -> DhcpConn]  BY <1>2
  <2>4. [a \in Addrs |-> 0] \in [Addrs -> 0 .. NConn]  BY <2>1
  <2> QED BY <1>4, <2>1, <2>2, <2>3, <2>4 DEF Structures
<1>7. /\ \A c \in Conns : st.app[c] = NoApp /\ st.dhcp[c] = NoDhcp
      /\ \A a \in Addrs : st.holder[a] = 0
  BY <1>5
<1>8. AppLinked(st.app, st.dhcp)  BY <1>3, <1>7 DEF AppLinked
<1>9. DhcpPeers(st.app, st.dhcp)  BY <1>2, <1>7 DEF DhcpPeers
<1>10. OneEach(st.dhcp)  BY <1>2, <1>7 DEF OneEach
<1>11. Held(st.app, st.holder)
  <2>1. 0 \notin Conns  BY DEF Conns
  <2> QED BY <1>3, <1>7, <2>1 DEF Held
<1>12. Len(<<>>) = 0 /\ 1 .. 0 = {}  OBVIOUS
<1>13. FreeList(st.appfree, st.appcount, st.app)  BY <1>3, <1>5, <1>7, <1>12 DEF FreeList
<1>14. AllListed(st.appfree, st.appcount, st.app)  BY <1>5, <1>12 DEF AllListed
<1>15. FreeList(st.dhcpfree, st.dhcpcount, st.dhcp)  BY <1>2, <1>5, <1>7, <1>12 DEF FreeList
<1>16. InFlight  BY DEF Init, InFlight
<1> QED BY <1>6, <1>8, <1>9, <1>10, <1>11, <1>13, <1>14, <1>15, <1>16 DEF SInv, Good, Linked

\* A new client.
LEMMA NewClientStep ==
  ASSUME ConstAssumption, SInv, NEW m \in Macs, NewClient(m)
  PROVE  SInv'
<1> DEFINE d == TakeConn(st.dhcpfree, st.dhcpcount)
           c == TakeConn(st.appfree, st.appcount)
<1>1. d # 0 /\ st' = dhcp_newconn(st, m) /\ Good(st)  BY DEF NewClient, SInv
<1>2. \A e \in Conns : st.dhcp[e].inuse => st.dhcp[e].mac # m  BY DEF NewClient, ConnOf
<1>3. d = TakeConn(st.dhcpfree, st.dhcpcount) /\ c = TakeConn(st.appfree, st.appcount)
  OBVIOUS
<1> HIDE DEF d, c
<1>4. Good(st')  BY <1>1, <1>2, <1>3, NewConnGood
<1>5. InFlight'  BY DEF NewClient, SInv, InFlight
<1> QED BY <1>4, <1>5 DEF SInv

\* Memory runs out: the count is one too high, or the DHCP connection has no peer.
LEMMA NewClientOomStep ==
  ASSUME ConstAssumption, SInv, NEW m \in Macs, NewClientOom(m)
  PROVE  SInv'
<1> DEFINE d == TakeConn(st.dhcpfree, st.dhcpcount)
<1>1. Good(st) /\ st \in Structures /\ NConn \in Nat  BY DEF SInv, Good, ConstAssumption
<1>2. InFlight'  BY DEF NewClientOom, SInv, InFlight
<1>3. CASE st.dhcpfree = <<>> /\ d # 0 /\ st' = [st EXCEPT !.dhcpcount = @ + 1]
  <2>1. st.dhcpcount \in 0 .. NConn  BY <1>1 DEF Structures
  <2>2. st.dhcpcount + 1 \in 0 .. NConn  BY <1>1, <1>3, <2>1 DEF TakeConn
  <2>3. st' \in Structures  BY <1>1, <1>3, <2>2 DEF Structures
  <2>4. /\ st'.app = st.app /\ st'.appfree = st.appfree /\ st'.appcount = st.appcount
        /\ st'.dhcp = st.dhcp /\ st'.dhcpfree = <<>> /\ st'.dhcpcount = st.dhcpcount + 1
        /\ st'.holder = st.holder
    BY <1>1, <1>3 DEF Structures
  <2>5. FreeList(<<>>, st.dhcpcount + 1, st.dhcp)
    <3>1. ASSUME NEW e \in Conns, st.dhcp[e].inuse PROVE e <= st.dhcpcount + 1
      <4>1. e <= st.dhcpcount  BY <1>1, <3>1 DEF Good, FreeList
      <4> QED BY <2>1, <4>1 DEF Conns
    <3>2. Len(<<>>) = 0 /\ 1 .. 0 = {}  OBVIOUS
    <3> QED BY <3>1, <3>2 DEF FreeList
  <2>6. Good(st')  BY <1>1, <2>3, <2>4, <2>5 DEF Good
  <2> QED BY <1>2, <2>6 DEF SInv
<1>4. CASE d # 0 /\ st' = DhcpLinked(st, d, m)
  <2>1. \A e \in Conns : st.dhcp[e].inuse => st.dhcp[e].mac # m  BY DEF NewClientOom, ConnOf
  <2>2. d = TakeConn(st.dhcpfree, st.dhcpcount)  OBVIOUS
  <2> HIDE DEF d
  <2>3. Good(st')  BY <1>1, <1>4, <2>1, <2>2, LinkedGood
  <2> QED BY <1>2, <2>3 DEF SInv
<1> QED BY <1>3, <1>4 DEF NewClientOom

\* The end of a lease.
LEMMA LeaseEndsStep ==
  ASSUME ConstAssumption, SInv, NEW d \in Conns, LeaseEnds(d)
  PROVE  SInv'
<1>1. Good(st) /\ st.dhcp[d].inuse /\ st' = dhcp_freeconn(st, d)  BY DEF SInv, LeaseEnds
<1>2. Good(st')  BY <1>1, FreeConnGood DEF Freed
<1>3. InFlight'  BY DEF LeaseEnds, SInv, InFlight
<1> QED BY <1>2, <1>3 DEF SInv

\* The answer of a request whose connection was freed finds it cleared: pap is not set
\* and dnprot is not mac, and the answer does nothing.
LEMMA AcceptStep ==
  ASSUME ConstAssumption, SInv, NEW r \in reqs, cb_radius_auth_accept(r)
  PROVE  SInv'
<1> DEFINE c == r.cbp
<1>1. Good(st) /\ c \in Conns /\ NConn \in Nat
  BY DEF SInv, InFlight, ConstAssumption
<1>2. PICK force \in {FALSE, ForceIp /\ st.app[c].uplink # 0} :
        \E a \in NewAddrs(IF force THEN ForcedIp(st, c) ELSE st) :
          st' = IF (IF force THEN ForcedIp(st, c) ELSE st).app[c].pap
                THEN upprot_getip(IF force THEN ForcedIp(st, c) ELSE st, c, a)
                ELSE dnprot_reject(IF force THEN ForcedIp(st, c) ELSE st, c)
  BY DEF cb_radius_auth_accept
<1> DEFINE S == IF force THEN ForcedIp(st, c) ELSE st
<1>3. Good(S)
  <2>1. CASE force /\ st.app[c].uplink # 0  BY <1>1, <2>1, ForcedGood
  <2>2. CASE ~force  BY <1>1, <2>2
  <2> QED BY <2>1, <2>2
<1>4. PICK a \in NewAddrs(S) : st' = IF S.app[c].pap THEN upprot_getip(S, c, a)
                                     ELSE dnprot_reject(S, c)
  BY <1>2
<1>5. InFlight'
  <2>1. reqs' = reqs \ {r} /\ msgs' = msgs  BY DEF cb_radius_auth_accept
  <2> QED BY <2>1 DEF SInv, InFlight
<1> HIDE DEF S, c
<1>6. S.app[c].pap => S.app[c].inuse
  <2>1. ~S.app[c].inuse => S.app[c] = NoApp  BY <1>1, <1>3 DEF Good, Linked, AppLinked
  <2>2. ~NoApp.pap  BY DEF NoApp
  <2> QED BY <2>1, <2>2
<1>7. CASE S.app[c].pap
  <2>1. st' = upprot_getip(S, c, a) /\ S.app[c].inuse  BY <1>4, <1>6, <1>7
  <2>2. Good(st')  BY <1>1, <1>3, <2>1, GetIpGood
  <2> QED BY <1>5, <2>2 DEF SInv
<1>8. CASE ~S.app[c].pap
  <2>1. st' = dnprot_reject(S, c)  BY <1>4, <1>8
  <2>2. Good(st')  BY <1>1, <1>3, <2>1, RejectShape, SameShapeGood
  <2> QED BY <1>5, <2>2 DEF SInv
<1> QED BY <1>7, <1>8

\* A rejection, or a time-out without noradallow.
LEMMA RejectStep ==
  ASSUME ConstAssumption, SInv, NEW r \in reqs, reqs' = reqs \ {r}, msgs' = msgs,
         st' = dnprot_reject(st, r.cbp)
  PROVE  SInv'
<1>1. Good(st) /\ r.cbp \in Conns /\ NConn \in Nat  BY DEF SInv, InFlight, ConstAssumption
<1>2. Good(st')  BY <1>1, RejectShape, SameShapeGood
<1>3. InFlight'  BY DEF SInv, InFlight
<1> QED BY <1>2, <1>3 DEF SInv

\* The end of a handler, with the request to RADIUS about a connection in use.
LEMMA LeavesStep ==
  ASSUME ConstAssumption, InFlight, NEW S, Good(S), NEW c \in Conns, S.app[c].inuse,
         NEW ask, Leaves(S, c, ask), \A g \in msgs' : g \in msgs
  PROVE  SInv'
<1>1. NConn \in Nat /\ S \in Structures  BY DEF ConstAssumption, Good
<1>2. CASE st' = S /\ UNCHANGED reqs  BY <1>2 DEF SInv, InFlight
<1>3. CASE auth_radius(S, c)
  <2>1. PICK b \in BOOLEAN : st' = [S EXCEPT !.app[c].pap = b]
    <3>1. S.app[c] \in AppConn  BY <1>1, Fields
    <3>2. S.app[c].pap \in BOOLEAN  BY <3>1 DEF AppConn
    <3> QED BY <1>3, <3>2 DEF auth_radius
  <2>2. Good(st')  BY <1>1, <2>1, PapSet, SameShapeGood
  <2>3. S.dhcp[S.app[c].dnlink].mac \in Macs
    <3>1. S.app[c].dnlink # 0  BY DEF Good, Linked, AppLinked
    <3>2. S.app[c].dnlink \in Conns /\ S.dhcp[S.app[c].dnlink].inuse  BY <1>1, <3>1, IsUsed
    <3>3. S.dhcp[S.app[c].dnlink].mac # 0  BY <3>2 DEF Good, Linked, OneEach
    <3>4. S.dhcp[S.app[c].dnlink].mac \in Macs \cup {0}  BY <1>1, <3>2, Fields
    <3> QED BY <3>3, <3>4
  <2>4. \A r \in reqs' : r.cbp \in Conns /\ r.mac \in Macs
    <3>1. CASE reqs' = reqs  BY <3>1 DEF InFlight
    <3>2. CASE reqs' = reqs \cup {[n |-> made + 1, cbp |-> c,
                                   mac |-> S.dhcp[S.app[c].dnlink].mac]}
      BY <2>3, <3>2 DEF InFlight
    <3> QED BY <1>3, <3>1, <3>2 DEF auth_radius
  <2>5. InFlight'  BY <2>4 DEF InFlight
  <2> QED BY <2>2, <2>5 DEF SInv
<1> QED BY <1>2, <1>3 DEF Leaves

\* A request of the client, which may get an address and ask RADIUS.
LEMMA DhcpRequestStep ==
  ASSUME ConstAssumption, SInv, NEW d \in Conns, cb_dhcp_request(d)
  PROVE  SInv'
<1> DEFINE c == st.dhcp[d].peer
           first == Macauth /\ st.app[c].uplink = 0 /\ st.app[c].dnprot = "none"
           again == Macauth /\ ~first /\ ~st.app[c].auth
           S == IF first THEN [st EXCEPT !.app[c].dnprot = "mac"] ELSE st
<1>1. Good(st) /\ st \in Structures /\ NConn \in Nat /\ InFlight
  BY DEF SInv, Good, ConstAssumption
<1>2. c \in Conns /\ c # 0 /\ st.app[c].inuse
  <2>1. c # 0 /\ st.dhcp[d].inuse  BY DEF cb_dhcp_request
  <2>2. c \in 0 .. NConn  BY <1>1, Fields
  <2>3. st.app[c].inuse  BY <1>1, <2>1 DEF Good, Linked, DhcpPeers
  <2> QED BY <2>1, <2>2, <2>3 DEF Conns
<1>3. msgs' = msgs  BY DEF cb_dhcp_request
<1>4. \/ st.app[c].uplink # 0 /\ Leaves(Requested(S, c), c, again)
      \/ /\ st.app[c].uplink = 0
         /\ \E a \in IF first /\ Strict THEN {0} ELSE NewAddrs(st) :
              IF a = 0 THEN Leaves(S, c, first)
              ELSE Leaves(Requested(WithAddr(S, c, a), c), c, first \/ again)
  BY DEF cb_dhcp_request, WithAddr
<1>5. SameShape(st, S)
  <2>1. CASE first
    <3>1. S = [st EXCEPT !.app[c].dnprot = "mac"]  BY <2>1
    <3> HIDE DEF S, c, first
    <3> QED BY <1>1, <1>2, <3>1, DnprotSet
  <2>2. CASE ~first
    <3>1. S = st  BY <2>2
    <3> QED BY <1>1, <3>1, SameShapeRefl
  <2> QED BY <2>1, <2>2
<1> HIDE DEF c, first, again, S
<1>6. Good(S) /\ S.app[c].inuse /\ S.app[c].uplink = st.app[c].uplink /\ S.holder = st.holder
  BY <1>1, <1>2, <1>5, SameShapeGood DEF SameShape, SameApp
<1>7. ASSUME NEW U, Good(U), U.app[c].inuse, NEW ask, Leaves(Requested(U, c), c, ask)
      PROVE  SInv'
  <2> DEFINE T == Requested(U, c)
  <2>1. SameShape(U, T)  BY <1>1, <1>2, <1>7, RequestedShape
  <2>2. Leaves(T, c, ask)  BY <1>7
  <2> HIDE DEF T
  <2>3. Good(T) /\ T.app[c].inuse
    BY <1>1, <1>2, <1>7, <2>1, SameShapeGood DEF SameShape, SameApp
  <2> QED BY <1>1, <1>2, <1>3, <2>2, <2>3, LeavesStep
<1>8. CASE Leaves(Requested(S, c), c, again)  BY <1>6, <1>7, <1>8
<1>9. ASSUME st.app[c].uplink = 0, NEW a \in IF first /\ Strict THEN {0} ELSE NewAddrs(st),
             IF a = 0 THEN Leaves(S, c, first)
             ELSE Leaves(Requested(WithAddr(S, c, a), c), c, first \/ again)
      PROVE  SInv'
  <2>1. CASE a = 0
    <3>1. Leaves(S, c, first)  BY <1>9, <2>1
    <3> QED BY <1>1, <1>2, <1>3, <1>6, <3>1, LeavesStep
  <2>2. CASE a # 0
    <3> DEFINE U == WithAddr(S, c, a)
    <3>1. Leaves(Requested(U, c), c, first \/ again)  BY <1>9, <2>2
    <3>2. a \in NewAddrs(st)  BY <1>9, <2>2
    <3>3. a \in Addrs /\ st.holder[a] = 0  BY <2>2, <3>2, NewAddr
    <3>4. Good(U) /\ U.app[c].inuse  BY <1>2, <1>6, <1>9, <3>3, TakeAddr
    <3> HIDE DEF U
    <3> QED BY <1>7, <3>1, <3>4
  <2> QED BY <2>1, <2>2
<1> QED BY <1>4, <1>8, <1>9

\* The portal sends an address that is in use then.
LEMMA PortalSendsStep ==
  ASSUME ConstAssumption, SInv, NEW c \in Conns, NEW type \in Portal, PortalSends(c, type)
  PROVE  SInv'
<1>1. st' = st /\ reqs' = reqs /\ st.app[c].uplink # 0
      /\ msgs' = msgs \cup {[n |-> sent + 1, type |-> type, addr |-> st.app[c].uplink]}
  BY DEF PortalSends
<1>2. st.app[c].uplink \in Addrs  BY <1>1, Fields DEF SInv, Good
<1>3. InFlight'  BY <1>1, <1>2 DEF SInv, InFlight
<1> QED BY <1>1, <1>3 DEF SInv

\* The message finds the session that has the address now, or none.
LEMMA UamMsgStep ==
  ASSUME ConstAssumption, SInv, NEW g \in msgs, uam_msg(g)
  PROVE  SInv'
<1> DEFINE c == st.holder[g.addr]
<1>1. Good(st) /\ st \in Structures /\ NConn \in Nat /\ InFlight
  BY DEF SInv, Good, ConstAssumption
<1>2. g.addr \in Addrs /\ g.type \in MsgTypes /\ 0 \notin Addrs
  BY <1>1 DEF InFlight, ConstAssumption
<1>3. msgs' = msgs \ {g}  BY DEF uam_msg
<1>4. CASE UNCHANGED <<st, reqs, made>>  BY <1>1, <1>3, <1>4 DEF SInv, InFlight
<1>5. CASE c # 0 /\ Leaves(UamDone(st, c, g.type), c, g.type = "macreauth")
  <2>1. c \in 0 .. NConn  BY <1>1, <1>2 DEF Structures
  <2>2. c \in Conns  BY <1>5, <2>1 DEF Conns
  <2>3. st.app[c].inuse /\ st.app[c].uplink # 0  BY <1>1, <1>2, <2>2 DEF Good, Linked, Held
  <2> DEFINE T == UamDone(st, c, g.type)
             ask == g.type = "macreauth"
  <2>4. Leaves(T, c, ask)  BY <1>5
  <2> HIDE DEF c, ask
  <2>5. SameShape(st, T)  BY <1>1, <1>2, <2>2, <2>3, UamDoneShape
  <2> HIDE DEF T
  <2>6. Good(T) /\ T.app[c].inuse
    BY <1>1, <2>2, <2>3, <2>5, SameShapeGood DEF SameShape, SameApp
  <2> QED BY <1>1, <1>3, <2>2, <2>4, <2>6, LeavesStep
<1> QED BY <1>4, <1>5 DEF uam_msg

\* A limit is reached.
LEMMA IntervalStep ==
  ASSUME ConstAssumption, SInv, NEW c \in Conns, session_interval(c)
  PROVE  SInv'
<1>1. Good(st) /\ NConn \in Nat /\ st' = terminate_appconn(st, c)
  BY DEF SInv, session_interval, ConstAssumption
<1>2. Good(st')  BY <1>1, TerminateShape, SameShapeGood
<1>3. InFlight'  BY DEF session_interval, SInv, InFlight
<1> QED BY <1>2, <1>3 DEF SInv

\* The invariant is inductive; the time-out with noradallow would break it.
LEMMA NextInv ==
  ASSUME ConstAssumption, ~NoRadAllow \/ reqs = {}, SInv, [Next]_vars
  PROVE  SInv'
<1>1. ASSUME NEW m \in Macs, NewClient(m) \/ NewClientOom(m) PROVE SInv'
  BY <1>1, NewClientStep, NewClientOomStep
<1>2. ASSUME NEW d \in Conns, LeaseEnds(d) \/ cb_dhcp_request(d) PROVE SInv'
  BY <1>2, LeaseEndsStep, DhcpRequestStep
<1>3. ASSUME NEW r \in reqs, cb_radius_auth_accept(r) PROVE SInv'  BY <1>3, AcceptStep
<1>4. ASSUME NEW r \in reqs, cb_radius_auth_reject(r) PROVE SInv'
  BY <1>4, RejectStep DEF cb_radius_auth_reject
<1>5. ASSUME NEW r \in reqs, cb_radius_auth_timeout(r) PROVE SInv'
  BY <1>5, RejectStep DEF cb_radius_auth_timeout
<1>6. ASSUME NEW c \in Conns, NEW t \in Portal, PortalSends(c, t) PROVE SInv'
  BY <1>6, PortalSendsStep
<1>7. ASSUME NEW g \in msgs, uam_msg(g) PROVE SInv'  BY <1>7, UamMsgStep
<1>8. ASSUME NEW c \in Conns, session_interval(c) PROVE SInv'  BY <1>8, IntervalStep
<1>9. CASE UNCHANGED vars  BY <1>9 DEF vars, SInv, InFlight
<1> QED BY <1>1, <1>2, <1>3, <1>4, <1>5, <1>6, <1>7, <1>8, <1>9 DEF Next

---------------------------------------------------------------------------
(* What the invariant says *)

\* It implies the properties that are checked.
LEMMA InvSays ==
  ASSUME ConstAssumption, SInv
  PROVE  SessionsOK
<1>1. /\ Good(st) /\ st \in Structures /\ NConn \in Nat /\ InFlight /\ 0 \notin Addrs
      /\ 0 \notin Conns
  BY DEF SInv, Good, ConstAssumption, Conns
<1>2. TypeOK
  <2>1. st.app \in [Conns -> AppConn] /\ st.dhcp \in [Conns -> DhcpConn]
    BY <1>1 DEF Structures
  <2>2. st.appcount \in 0 .. NConn /\ st.dhcpcount \in 0 .. NConn  BY <1>1 DEF Structures
  <2>3. \A c \in Conns : ~st.app[c].inuse => st.app[c] = NoApp
    BY <1>1 DEF Good, Linked, AppLinked
  <2> QED BY <1>1, <2>1, <2>2, <2>3 DEF TypeOK, AppConn, DhcpConn, InFlight
<1>3. ConnectionsPaired
  <2>1. ASSUME NEW c \in UsedApp
        PROVE  LET d == st.app[c].dnlink
               IN  d \in UsedDhcp /\ st.dhcp[d].peer = c /\ st.dhcp[d].mac = st.app[c].mac
    <3>1. c \in Conns /\ st.app[c].inuse  BY DEF UsedApp
    <3>2. st.app[c].dnlink # 0  BY <1>1, <3>1 DEF Good, Linked, AppLinked
    <3>3. /\ st.app[c].dnlink \in Conns /\ st.dhcp[st.app[c].dnlink].inuse
          /\ st.dhcp[st.app[c].dnlink].peer = c
          /\ st.dhcp[st.app[c].dnlink].mac = st.app[c].mac
      BY <1>1, <3>1, <3>2, IsUsed
    <3> QED BY <3>3 DEF UsedDhcp
  <2>2. ASSUME NEW d \in UsedDhcp, st.dhcp[d].peer # 0 PROVE st.dhcp[d].peer \in UsedApp
    <3>1. d \in Conns /\ st.dhcp[d].inuse  BY DEF UsedDhcp
    <3>2. st.app[st.dhcp[d].peer].inuse  BY <1>1, <2>2, <3>1 DEF Good, Linked, DhcpPeers
    <3>3. st.dhcp[d].peer \in 0 .. NConn  BY <1>1, <3>1, Fields
    <3> QED BY <2>2, <3>2, <3>3 DEF UsedApp, Conns
  <2>3. \A d, e \in UsedDhcp : st.dhcp[d].mac = st.dhcp[e].mac => d = e
    BY <1>1 DEF UsedDhcp, Good, Linked, OneEach
  <2>4. ASSUME NEW c \in Conns
        PROVE  Cardinality({i \in 1 .. Len(st.appfree) : st.appfree[i] = c}) =
               IF c <= st.appcount /\ c \notin UsedApp THEN 1 ELSE 0
    <3> DEFINE I == {i \in 1 .. Len(st.appfree) : st.appfree[i] = c}
    <3>1. FreeList(st.appfree, st.appcount, st.app) /\ AllListed(st.appfree, st.appcount, st.app)
      BY <1>1 DEF Good
    <3>2. st.appcount \in 0 .. NConn  BY <1>1 DEF Structures
    <3>3. CASE c <= st.appcount /\ ~st.app[c].inuse
      <4>1. c \in 1 .. st.appcount  BY <3>2, <3>3 DEF Conns
      <4>2. PICK i \in 1 .. Len(st.appfree) : st.appfree[i] = c
        BY <3>1, <3>3, <4>1 DEF AllListed
      <4>3. I = {i}  BY <3>1, <4>2 DEF FreeList
      <4>4. Cardinality(I) = 1  BY <4>3, FS_Singleton
      <4> QED BY <3>3, <4>4 DEF UsedApp
    <3>4. CASE ~(c <= st.appcount /\ ~st.app[c].inuse)
      <4>1. I = {}  BY <3>1, <3>4 DEF FreeList
      <4>2. Cardinality(I) = 0  BY <4>1, FS_EmptySet
      <4> QED BY <3>4, <4>2 DEF UsedApp
    <3> QED BY <3>3, <3>4
  <2> QED BY <2>1, <2>2, <2>3, <2>4 DEF ConnectionsPaired
<1>4. AddressOwned
  <2>1. ASSUME NEW a \in Addrs
        PROVE  {c \in Conns : st.app[c].inuse /\ st.app[c].uplink = a} =
               IF st.holder[a] = 0 THEN {} ELSE {st.holder[a]}
    <3>1. st.holder[a] \in 0 .. NConn  BY <1>1 DEF Structures
    <3>2. \A c \in Conns : st.holder[a] = c <=> st.app[c].inuse /\ st.app[c].uplink = a
      BY <1>1 DEF Good, Linked, Held
    <3>3. CASE st.holder[a] = 0  BY <1>1, <3>2, <3>3
    <3>4. CASE st.holder[a] # 0
      <4>1. st.holder[a] \in Conns  BY <1>1, <3>1, <3>4 DEF Conns
      <4> QED BY <3>2, <3>4, <4>1
    <3> QED BY <3>3, <3>4
  <2> QED BY <2>1 DEF AddressOwned
<1> QED BY <1>2, <1>3, <1>4 DEF SessionsOK

---------------------------------------------------------------------------
(* The theorem *)

\* The records of chilli.c and dhcp.c: the two connections of a client point at each
\* other, also when they are freed and used again while requests and messages about
\* them are in flight, no connection is lost or twice in the free list, and an address
\* in use is that of the session that its peer names.  With noradallow the time-out of
\* a request gives an address to a connection that was freed.
THEOREM RecordsAgree ==
  ASSUME ConstAssumption, ~NoRadAllow
  PROVE  Spec => []SessionsOK
<1>1. Init => SInv  BY InitInv
<1>2. SInv /\ [Next]_vars => SInv'  BY NextInv
<1>3. SInv => SessionsOK  BY InvSays
<1> QED BY <1>1, <1>2, <1>3, PTL DEF Spec

---------------------------------------------------------------------------
(* The portal decides, and dhcp.c and the session agree *)

\* dnprot_accept opens both sides.
LEMMA AcceptAgree ==
  ASSUME NConn \in Nat, NEW S, Good(S), Agree(S.app, S.dhcp), NEW c \in Conns,
         NEW T, T = dnprot_accept(S, c)
  PROVE  Agree(T.app, T.dhcp)
<1> DEFINE d == S.app[c].dnlink
           n == (S.sessions + 1) % 4
           S1 == [S EXCEPT !.dhcp[d].authstate = "pass"]
           x == [S1.app[c] EXCEPT !.auth = TRUE]
           S2 == [S1 EXCEPT !.app[c] = x]
           y == [S2.app[c] EXCEPT !.start = n]
           S3 == [S2 EXCEPT !.app[c] = y]
<1>s. S \in Structures  BY DEF Good
<1>1. CASE T = S  BY <1>1
<1>2. CASE S.app[c].uplink # 0 /\ S.app[c].dnlink # 0 /\ T # S
  <2>1. S.app[c].inuse /\ d \in Conns  BY <1>2, IsUsed
  <2>2. T = [S EXCEPT !.dhcp[d].authstate = "pass",
                      !.app[c].auth = TRUE, !.app[c].start = n, !.sessions = n]
    BY <1>2 DEF dnprot_accept
  <2>3. T = [S3 EXCEPT !.sessions = n]  BY <2>2
  <2>4. SameShape(S, T)  BY AcceptShape
  <2>5. n \in 0 .. 3
    <3>1. S.sessions \in 0 .. 3  BY <1>s DEF Structures
    <3> QED BY <3>1
  <2>6. S1 = WithState(S, d, "pass") /\ S2 = WithApp(S1, c, x) /\ S3 = WithApp(S2, c, y)
    BY DEF WithState, WithApp
  <2>7. S2 = [S1 EXCEPT !.app[c].auth = TRUE] /\ S3 = [S2 EXCEPT !.app[c].start = n]
    OBVIOUS
  <2>8. x = [S1.app[c] EXCEPT !.auth = TRUE] /\ y = [S2.app[c] EXCEPT !.start = n]
    OBVIOUS
  <2>9. SameShape(S, S1)  BY <1>s, <2>1, SameShapeDhcp
  <2> HIDE DEF S1, S2, S3, x, y, n, d
  <2>10. Good(S1) /\ S1.app[c].inuse  BY <2>1, <2>9, SameShapeGood DEF SameShape, SameApp
  <2>11. Good(S2) /\ S2.app[c].inuse
    <3>1. SameShape(S1, [S1 EXCEPT !.app[c].auth = TRUE])  BY <2>10, AuthSet
    <3>2. SameShape(S1, S2)  BY <2>7, <3>1
    <3> QED BY <2>10, <3>2, SameShapeGood DEF SameShape, SameApp
  <2>12. Good(S3)
    <3>1. SameShape(S2, [S2 EXCEPT !.app[c].start = n])  BY <2>5, <2>11, StartSet
    <3>2. SameShape(S2, S3)  BY <2>7, <3>1
    <3> QED BY <2>11, <3>2, SameShapeGood
  <2>13. S1 \in Structures /\ S2 \in Structures /\ S3 \in Structures
    BY <2>10, <2>11, <2>12 DEF Good
  <2>14. /\ S1.app = S.app /\ S1.dhcp[d].authstate = "pass"
         /\ \A f \in Conns : f # d => S1.dhcp[f] = S.dhcp[f]
    BY <1>s, <2>1, <2>6, DhcpFields
  <2>15. /\ S2.dhcp = S1.dhcp /\ S2.app[c] = x
         /\ \A e \in Conns : e # c => S2.app[e] = S1.app[e]
    BY <2>6, <2>13, AppFields
  <2>16. /\ S3.dhcp = S2.dhcp /\ S3.app[c] = y
         /\ \A e \in Conns : e # c => S3.app[e] = S2.app[e]
    BY <2>6, <2>13, AppFields
  <2>17. T.app = S3.app /\ T.dhcp = S3.dhcp  BY <2>3, <2>13 DEF Structures
  <2>18. x.auth
    <3>1. S1.app[c] \in AppConn  BY <2>13, Fields
    <3> QED BY <2>8, <3>1 DEF AppConn
  <2>19. y.auth = S2.app[c].auth
    <3>1. S2.app[c] \in AppConn  BY <2>13, Fields
    <3> QED BY <2>8, <3>1 DEF AppConn
  <2>20. T.app[c].auth  BY <2>15, <2>16, <2>17, <2>18, <2>19
  <2>21. T.dhcp[d].authstate = "pass"  BY <2>14, <2>15, <2>16, <2>17
  <2>22. ASSUME NEW e \in Conns, e # c PROVE T.app[e].auth = S.app[e].auth
    BY <2>14, <2>15, <2>16, <2>17, <2>22
  <2>23. ASSUME NEW f \in Conns, f # d PROVE T.dhcp[f].authstate = S.dhcp[f].authstate
    BY <2>14, <2>15, <2>16, <2>17, <2>23
  <2>24. Decides(S, T, c)  BY <2>20, <2>21, <2>22, <2>23 DEF Decides, d
  <2> QED BY <2>1, <2>4, <2>24, DecidesAgree
<1> QED BY <1>1, <1>2 DEF dnprot_accept

\* A change of a session that does not say whether it is authenticated.
LEMMA QuietAgree ==
  ASSUME NEW S, S \in Structures, Agree(S.app, S.dhcp), NEW c \in Conns, NEW x,
         x.auth = S.app[c].auth, NEW T, T = WithApp(S, c, x)
  PROVE  Agree(T.app, T.dhcp) /\ \A e \in Conns : T.app[e].auth = S.app[e].auth
<1>1. /\ T.dhcp = S.dhcp /\ T.app[c] = x
      /\ \A e \in Conns : e # c => T.app[e] = S.app[e]
  BY AppFields
<1>2. \A e \in Conns : T.app[e].auth = S.app[e].auth  BY <1>1
<1>3. ASSUME NEW d \in Conns, S.dhcp[d].inuse, S.dhcp[d].peer # 0
      PROVE  T.app[S.dhcp[d].peer].auth = S.app[S.dhcp[d].peer].auth
  <2>1. S.dhcp[d].peer \in 0 .. NConn  BY Fields
  <2>2. S.dhcp[d].peer \in Conns  BY <1>3, <2>1 DEF Conns
  <2> QED BY <1>2, <2>2
<1> QED BY <1>1, <1>2, <1>3 DEF Agree

\* Packets of a client that is not authenticated go to the portal.
LEMMA DnatAgree ==
  ASSUME NConn \in Nat, NEW S, Good(S), Agree(S.app, S.dhcp), NEW c \in Conns,
         S.app[c].inuse, ~S.app[c].auth, NEW d, d = S.app[c].dnlink,
         NEW T, T = WithState(S, d, "dnat")
  PROVE  Agree(T.app, T.dhcp)
<1>1. S \in Structures  BY DEF Good
<1>2. d \in Conns
  <2>1. d # 0  BY DEF Good, Linked, AppLinked
  <2> QED BY <2>1, IsUsed
<1>3. /\ T.app = S.app /\ T.dhcp[d].authstate = "dnat"
      /\ \A f \in Conns : f # d => T.dhcp[f] = S.dhcp[f]
  BY <1>1, <1>2, DhcpFields
<1>4. T = [S EXCEPT !.dhcp[d].authstate = "dnat"]  BY DEF WithState
<1>5. SameShape(S, T)  BY <1>1, <1>2, <1>4, SameShapeDhcp
<1>6. Decides(S, T, c)  BY <1>3 DEF Decides
<1> QED BY <1>5, <1>6, DecidesAgree

\* The end of cb_dhcp_request sends a client to the portal if it is not authenticated.
LEMMA RequestedAgree ==
  ASSUME NConn \in Nat, NEW S, Good(S), Agree(S.app, S.dhcp), NEW c \in Conns,
         S.app[c].inuse, NEW T, T = Requested(S, c)
  PROVE  Agree(T.app, T.dhcp)
<1> DEFINE d == S.app[c].dnlink
           S1 == IF S.app[c].auth THEN S ELSE WithState(S, d, "dnat")
           x == [S1.app[c] EXCEPT !.dnprot = "uam"]
<1>1. Agree(S1.app, S1.dhcp)
  <2>1. CASE S.app[c].auth  BY <2>1
  <2>2. CASE ~S.app[c].auth
    <3>1. S1 = WithState(S, d, "dnat")  BY <2>2
    <3> HIDE DEF S1
    <3> QED BY <2>2, <3>1, DnatAgree
  <2> QED BY <2>1, <2>2
<1>2. S1 \in Structures
  <2>1. S \in Structures  BY DEF Good
  <2>2. CASE S.app[c].auth  BY <2>1, <2>2
  <2>3. CASE ~S.app[c].auth
    <3>1. S1 = [S EXCEPT !.dhcp[d].authstate = "dnat"]  BY <2>3 DEF WithState
    <3>2. d # 0  BY DEF Good, Linked, AppLinked
    <3>3. d \in Conns  BY <3>2, IsUsed
    <3> HIDE DEF S1, d
    <3> QED BY <2>1, <3>1, <3>3, SameShapeDhcp DEF SameShape
  <2> QED BY <2>2, <2>3
<1>3. T = S1 \/ T = WithApp(S1, c, x)  BY DEF Requested, WithApp, WithState
<1> HIDE DEF S1
<1>4. x.auth = S1.app[c].auth
  <2>1. S1.app[c] \in AppConn  BY <1>2, Fields
  <2> QED BY <2>1 DEF AppConn
<1> HIDE DEF x
<1> QED BY <1>1, <1>2, <1>3, <1>4, QuietAgree

\* A log-in opens both sides; a log-out and an abort close them.
LEMMA UamDoneAgree ==
  ASSUME NConn \in Nat, NEW S, Good(S), Agree(S.app, S.dhcp), NEW c \in Conns,
         S.app[c].inuse, S.app[c].uplink # 0, NEW type \in MsgTypes,
         NEW T, T = UamDone(S, c, type)
  PROVE  Agree(T.app, T.dhcp)
<1> DEFINE d == S.app[c].dnlink
<1>1. S \in Structures /\ S.app[c] \in AppConn  BY Fields DEF Good
<1>2. d \in Conns
  <2>1. d # 0  BY DEF Good, Linked, AppLinked
  <2> QED BY <2>1, IsUsed
<1>3. CASE T = [S EXCEPT !.app[c].uamabort = FALSE]
  <2> DEFINE x == [S.app[c] EXCEPT !.uamabort = FALSE]
  <2>1. T = WithApp(S, c, x)  BY <1>3 DEF WithApp
  <2>2. x.auth = S.app[c].auth  BY <1>1 DEF AppConn
  <2> HIDE DEF x
  <2> QED BY <1>1, <2>1, <2>2, QuietAgree
<1>4. CASE T = upprot_getip(S, c, 0)
  <2>1. T = dnprot_accept(S, c)  BY <1>4 DEF upprot_getip
  <2> QED BY <2>1, AcceptAgree
<1>5. CASE type = "logout"
  <2> DEFINE S1 == terminate_appconn(S, c)
             x == [S1.app[c] EXCEPT !.uamabort = FALSE]
             S2 == WithApp(S1, c, x)
  <2>1. SameShape(S, S1) /\ ~S1.app[c].auth  BY TerminateShape
  <2>2. Agree(S1.app, S1.dhcp)  BY TerminateAgree
  <2>3. T = WithState(S2, d, "dnat")  BY <1>5 DEF UamDone, WithApp, WithState
  <2> HIDE DEF S1
  <2>4. Good(S1) /\ S1.app[c].inuse  BY <2>1, SameShapeGood DEF SameShape, SameApp
  <2>5. S1 \in Structures /\ S1.app[c] \in AppConn  BY <2>4, Fields DEF Good
  <2>6. x.auth = S1.app[c].auth  BY <2>5 DEF AppConn
  <2>7. SameShape(S1, S2)  BY <2>4, UamAbortSet DEF WithApp
  <2>8. S2 = WithApp(S1, c, x)  OBVIOUS
  <2> HIDE DEF S2, x
  <2>9. Agree(S2.app, S2.dhcp) /\ ~S2.app[c].auth
    BY <2>1, <2>2, <2>5, <2>6, <2>8, QuietAgree
  <2>10. Good(S2) /\ S2.app[c].inuse  BY <2>4, <2>7, SameShapeGood DEF SameShape, SameApp
  <2>11. S2.app[c].dnlink = d  BY <2>1, <2>7 DEF SameShape, SameApp
  <2> HIDE DEF d
  <2> QED BY <2>3, <2>9, <2>10, <2>11, DnatAgree
<1>6. CASE type = "abort"
  <2> DEFINE x == [S.app[c] EXCEPT !.uamabort = TRUE]
             S1 == WithApp(S, c, x)
             S2 == WithState(S1, d, "dnat")
  <2>1. SameShape(S, S1)  BY UamAbortSet DEF WithApp
  <2>2. x.auth = S.app[c].auth  BY <1>1 DEF AppConn
  <2>3. T = terminate_appconn(S2, c)  BY <1>6 DEF UamDone, WithApp, WithState
  <2>4. SameShape(S, T)  BY UamDoneShape
  <2>5. S1 = WithApp(S, c, x)  OBVIOUS
  <2>6. S1 \in Structures  BY <2>1 DEF SameShape
  <2>7. S2 = WithState(S1, d, "dnat")  OBVIOUS
  <2>8. S2 = [S1 EXCEPT !.dhcp[d].authstate = "dnat"]  BY DEF WithState
  <2> HIDE DEF x, S1, S2, d
  <2>9. SameShape(S1, S2)  BY <1>2, <2>6, <2>8, SameShapeDhcp
  <2>10. SameShape(S, S2)  BY <2>1, <2>9, SameShapeTrans
  <2>11. Good(S2) /\ S2.app[c].inuse  BY <2>10, SameShapeGood DEF SameShape, SameApp
  <2>12. /\ S1.dhcp = S.dhcp /\ S1.app[c] = x
         /\ \A e \in Conns : e # c => S1.app[e] = S.app[e]
    BY <1>1, <2>5, AppFields
  <2>13. /\ S2.app = S1.app /\ S2.dhcp[d].authstate = "dnat"
         /\ \A f \in Conns : f # d => S2.dhcp[f] = S1.dhcp[f]
    BY <1>2, <2>6, <2>7, DhcpFields
  <2>14. d = S2.app[c].dnlink  BY <2>10 DEF SameShape, SameApp, d
  <2>15. /\ \A e \in Conns : e # c => T.app[e].auth = S2.app[e].auth
         /\ \A f \in Conns : f # d => T.dhcp[f].authstate = S2.dhcp[f].authstate
         /\ ~T.app[c].auth
         /\ T.dhcp[d].authstate = IF S2.app[c].auth THEN "dnat" ELSE S2.dhcp[d].authstate
    BY <2>3, <2>11, <2>14, TerminateFields
  <2>16. T.dhcp[d].authstate = "dnat"  BY <2>13, <2>15
  <2>17. \A e \in Conns : e # c => T.app[e].auth = S.app[e].auth  BY <2>12, <2>13, <2>15
  <2>18. \A f \in Conns : f # d => T.dhcp[f].authstate = S.dhcp[f].authstate
    BY <2>12, <2>13, <2>15
  <2>19. Decides(S, T, c)  BY <2>15, <2>16, <2>17, <2>18 DEF Decides, d
  <2> QED BY <2>4, <2>19, DecidesAgree
<1>7. CASE type = "macreauth"
  <2>1. T = S  BY <1>7 DEF UamDone
  <2> QED BY <2>1
<1>8. CASE type = "login"
  <2>1. T = [S EXCEPT !.app[c].uamabort = FALSE] \/ T = upprot_getip(S, c, 0)
    BY <1>8 DEF UamDone
  <2> QED BY <1>3, <1>4, <2>1
<1>9. CASE type = "challenge"
  <2>1. T = [S EXCEPT !.app[c].uamabort = FALSE]  BY <1>9 DEF UamDone
  <2> QED BY <1>3, <2>1
<1> QED BY <1>5, <1>6, <1>7, <1>8, <1>9 DEF MsgTypes

---------------------------------------------------------------------------
(* The hotspot does not ask RADIUS itself *)

\* The portal processes do, before they send a log-in; nothing is in flight but their
\* messages.
PortalOnly == ~Macauth /\ "macreauth" \notin Portal
AInv == SInv /\ reqs = {} /\ Agree(st.app, st.dhcp)

\* No session yet.
LEMMA InitAgree ==
  ASSUME ConstAssumption, Init
  PROVE  AInv
<1>1. SInv /\ reqs = {}  BY InitInv DEF Init
<1>2. st.dhcp = [d \in Conns |-> NoDhcp]  BY DEF Init
<1>3. Agree(st.app, st.dhcp)  BY <1>2 DEF Agree, NoDhcp
<1> QED BY <1>1, <1>3 DEF AInv

\* A new client is not authenticated, and its record was cleared.
LEMMA NewAgree ==
  ASSUME ConstAssumption, AInv, NEW m \in Macs, NewClient(m) \/ NewClientOom(m)
  PROVE  Agree(st.app, st.dhcp)'
<1> DEFINE d == TakeConn(st.dhcpfree, st.dhcpcount)
           c == TakeConn(st.appfree, st.appcount)
<1>1. Good(st) /\ st \in Structures /\ Agree(st.app, st.dhcp)  BY DEF AInv, SInv, Good
<1>2. \A e \in Conns : st.dhcp[e].inuse => st.dhcp[e].mac # m
  BY DEF NewClient, NewClientOom, ConnOf
<1>3. d = TakeConn(st.dhcpfree, st.dhcpcount) /\ c = TakeConn(st.appfree, st.appcount)
  OBVIOUS
<1>4. d # 0 /\ \/ st' = dhcp_newconn(st, m)
               \/ st' = [st EXCEPT !.dhcpcount = @ + 1]
               \/ st' = DhcpLinked(st, d, m)
  BY DEF NewClient, NewClientOom
<1> HIDE DEF d, c
<1>5. CASE st' = dhcp_newconn(st, m)  BY <1>1, <1>2, <1>3, <1>4, <1>5, NewConnGood
<1>6. CASE st' = [st EXCEPT !.dhcpcount = @ + 1]
  <2>1. st'.app = st.app /\ st'.dhcp = st.dhcp  BY <1>1, <1>6 DEF Structures
  <2> QED BY <1>1, <2>1
<1>7. CASE st' = DhcpLinked(st, d, m)  BY <1>1, <1>2, <1>3, <1>4, <1>7, LinkedGood
<1> QED BY <1>4, <1>5, <1>6, <1>7

\* A request asks nobody.
LEMMA DhcpRequestAgree ==
  ASSUME ConstAssumption, PortalOnly, AInv, NEW d \in Conns, cb_dhcp_request(d)
  PROVE  Agree(st.app, st.dhcp)' /\ reqs' = {}
<1> DEFINE c == st.dhcp[d].peer
<1>1. /\ Good(st) /\ st \in Structures /\ NConn \in Nat /\ Agree(st.app, st.dhcp) /\ reqs = {}
  BY DEF AInv, SInv, Good, ConstAssumption
<1>2. c \in Conns /\ st.app[c].inuse
  <2>1. c # 0 /\ st.dhcp[d].inuse  BY DEF cb_dhcp_request
  <2>2. c \in 0 .. NConn  BY <1>1, Fields
  <2>3. st.app[c].inuse  BY <1>1, <2>1 DEF Good, Linked, DhcpPeers
  <2> QED BY <2>1, <2>2, <2>3 DEF Conns
<1>3. /\ reqs' = reqs
      /\ \/ st' = Requested(st, c)
         \/ st' = st
         \/ /\ st.app[c].uplink = 0
            /\ \E a \in NewAddrs(st) : a # 0 /\ st' = Requested(WithAddr(st, c, a), c)
  BY DEF cb_dhcp_request, Leaves, PortalOnly, WithAddr
<1> HIDE DEF c
<1>4. CASE st' = Requested(st, c)  BY <1>1, <1>2, <1>3, <1>4, RequestedAgree
<1>5. CASE st' = st  BY <1>1, <1>3, <1>5
<1>6. ASSUME st.app[c].uplink = 0, NEW a \in NewAddrs(st), a # 0,
             st' = Requested(WithAddr(st, c, a), c)
      PROVE  Agree(st.app, st.dhcp)'
  <2> DEFINE T == WithAddr(st, c, a)
  <2>1. st' = Requested(T, c)  BY <1>6
  <2>2. a \in Addrs /\ st.holder[a] = 0  BY <1>6, NewAddr
  <2>3. Good(T) /\ T.app[c].inuse /\ Agree(T.app, T.dhcp)
    <3>1. T = WithAddr(st, c, a)  OBVIOUS
    <3> HIDE DEF T
    <3>2. /\ Good(T) /\ T.app[c].inuse
          /\ Agree(st.app, st.dhcp) => Agree(T.app, T.dhcp)
      BY <1>1, <1>2, <1>6, <2>2, <3>1, TakeAddr
    <3> QED BY <1>1, <3>2
  <2> HIDE DEF T
  <2> QED BY <1>1, <1>2, <2>1, <2>3, RequestedAgree
<1> QED BY <1>1, <1>3, <1>4, <1>5, <1>6

\* A message asks nobody.
LEMMA UamMsgAgree ==
  ASSUME ConstAssumption, PortalOnly, AInv, NEW g \in msgs, uam_msg(g)
  PROVE  Agree(st.app, st.dhcp)' /\ reqs' = {}
<1> DEFINE c == st.holder[g.addr]
<1>1. /\ Good(st) /\ st \in Structures /\ NConn \in Nat /\ InFlight
      /\ Agree(st.app, st.dhcp) /\ reqs = {}
  BY DEF AInv, SInv, Good, ConstAssumption
<1>2. g.addr \in Addrs /\ g.type \in MsgTypes /\ g.type # "macreauth" /\ 0 \notin Addrs
  BY <1>1 DEF InFlight, ConstAssumption, PortalOnly
<1>3. CASE UNCHANGED <<st, reqs, made>>  BY <1>1, <1>3
<1>4. CASE c # 0 /\ Leaves(UamDone(st, c, g.type), c, g.type = "macreauth")
  <2>1. c \in 0 .. NConn  BY <1>1, <1>2 DEF Structures
  <2>2. c \in Conns  BY <1>4, <2>1 DEF Conns
  <2>3. st.app[c].inuse /\ st.app[c].uplink # 0  BY <1>1, <1>2, <2>2 DEF Good, Linked, Held
  <2>4. st' = UamDone(st, c, g.type) /\ reqs' = reqs  BY <1>2, <1>4 DEF Leaves
  <2> HIDE DEF c
  <2> QED BY <1>1, <1>2, <2>2, <2>3, <2>4, UamDoneAgree
<1> QED BY <1>3, <1>4 DEF uam_msg

\* Both sides agree after each step.
LEMMA NextAgree ==
  ASSUME ConstAssumption, PortalOnly, AInv, [Next]_vars
  PROVE  AInv'
<1>1. SInv'  BY NextInv DEF AInv
<1>2. Good(st) /\ NConn \in Nat /\ Agree(st.app, st.dhcp) /\ reqs = {}
  BY DEF AInv, SInv, ConstAssumption
<1>3. ASSUME NEW m \in Macs, NewClient(m) \/ NewClientOom(m) PROVE AInv'
  <2>1. reqs' = {}  BY <1>2, <1>3 DEF NewClient, NewClientOom
  <2> QED BY <1>1, <1>3, <2>1, NewAgree DEF AInv
<1>4. ASSUME NEW d \in Conns, LeaseEnds(d) PROVE AInv'
  <2>1. st.dhcp[d].inuse /\ st' = dhcp_freeconn(st, d) /\ reqs' = {}
    BY <1>2, <1>4 DEF LeaseEnds
  <2>2. Agree(st.app, st.dhcp)'  BY <1>2, <2>1, FreeConnGood DEF Freed
  <2> QED BY <1>1, <2>1, <2>2 DEF AInv
<1>5. ASSUME NEW d \in Conns, cb_dhcp_request(d) PROVE AInv'
  BY <1>1, <1>5, DhcpRequestAgree DEF AInv
<1>6. ASSUME NEW c \in Conns, NEW t \in Portal, PortalSends(c, t) PROVE AInv'
  BY <1>1, <1>2, <1>6 DEF AInv, PortalSends
<1>7. ASSUME NEW g \in msgs, uam_msg(g) PROVE AInv'
  BY <1>1, <1>7, UamMsgAgree DEF AInv
<1>8. ASSUME NEW c \in Conns, session_interval(c) PROVE AInv'
  <2>1. st' = terminate_appconn(st, c) /\ reqs' = {}  BY <1>2, <1>8 DEF session_interval
  <2>2. Agree(st.app, st.dhcp)'  BY <1>2, <2>1, TerminateAgree
  <2> QED BY <1>1, <2>1, <2>2 DEF AInv
<1>9. CASE UNCHANGED vars  BY <1>1, <1>2, <1>9 DEF vars, AInv
<1> QED BY <1>2, <1>3, <1>4, <1>5, <1>6, <1>7, <1>8, <1>9 DEF Next

\* A client whose session is authenticated, and no other, has its packets passed by
\* dhcp.c, whatever the order of log-ins, log-outs, aborts, limits, releases and new
\* clients on freed records, when the portal decides.  With macauth a rejection by RADIUS
\* closes dhcp.c's side of a session that the portal has authenticated.
THEOREM PassedAgree ==
  ASSUME ConstAssumption, PortalOnly
  PROVE  Spec => []TwoStates
<1>1. Init => AInv  BY InitAgree
<1>2. AInv /\ [Next]_vars => AInv'  BY NextAgree
<1>3. AInv => TwoStates  BY DEF AInv, Agree, TwoStates, UsedDhcp
<1> QED BY <1>1, <1>2, <1>3, PTL DEF Spec
=============================================================================
