---------------------------- MODULE ChilliSession ----------------------------
(***************************************************************************)
(* Sessions of the hotspot (coova-chilli, chilli.c and dhcp.c): the DHCP   *)
(* connection and the application connection of each client, its address,  *)
(* authentication by MAC address over RADIUS and by the captive portal,    *)
(* log-out, time-outs and the end of the lease.                            *)
(*                                                                         *)
(* The process has one thread and a handler runs to its end: a handler is  *)
(* a function from the state st of the data structures to the next one.    *)
(* What comes between is what is in flight: RADIUS requests, each with the *)
(* connection as its callback argument (RadiusCalls says what becomes of   *)
(* them), and messages of the portal processes, which name an address.     *)
(* ChilliPool says how addresses are chosen; here any free one may be.     *)
(***************************************************************************)
EXTENDS Integers, Sequences, FiniteSets

CONSTANTS
  Macs,         \* client devices
  Addrs,        \* addresses of the pool
  NConn,        \* max_clients
  Macauth,      \* option macauth: ask RADIUS for each new client
  Strict,       \* option strictmacauth: no address before the answer
  NoRadAllow,   \* option noradallow: no answer counts as accept
  MacDeny,      \* option macauthdeny: a rejected client is cut off
  ForceIp,      \* the RADIUS server assigns addresses (Framed-IP-Address)
  Portal,       \* messages that portal processes send
  MaxReq,       \* bound: access requests made
  MaxMsg,       \* bound: portal messages sent
  MaxOom        \* bound: connections that cannot be allocated

MsgTypes == {"login", "logout", "abort", "challenge", "macreauth"}

ConstAssumption ==
  /\ NConn \in Nat \ {0} /\ 0 \notin Macs /\ 0 \notin Addrs
  /\ Macauth \in BOOLEAN /\ Strict \in BOOLEAN /\ NoRadAllow \in BOOLEAN
  /\ MacDeny \in BOOLEAN /\ ForceIp \in BOOLEAN
  /\ Portal \subseteq MsgTypes
  /\ MaxReq \in Nat /\ MaxMsg \in Nat /\ MaxOom \in Nat

Conns == 1 .. NConn

VARIABLES
  st,           \* the data structures, see Init
  reqs,         \* access requests without an answer yet: their number, cbp, who asked
  msgs,         \* portal messages on their way
  accepted,     \* clients that RADIUS or the portal accepted
  made, sent, ooms      \* counters of the bounds

vars == <<st, reqs, msgs, accepted, made, sent, ooms>>

NoApp  == [inuse |-> FALSE, mac |-> 0, dnlink |-> 0, dnprot |-> "zero", uplink |-> 0,
           auth |-> FALSE, uamabort |-> FALSE, pap |-> FALSE, start |-> 0]
NoDhcp == [inuse |-> FALSE, mac |-> 0, peer |-> 0, authstate |-> "none"]

Init ==
  /\ st = [app |-> [c \in Conns |-> NoApp], appfree |-> <<>>, appcount |-> 0,
           dhcp |-> [d \in Conns |-> NoDhcp], dhcpfree |-> <<>>, dhcpcount |-> 0,
           holder |-> [a \in Addrs |-> 0],       \* peer of the member, 0: not in use
           sessions |-> 0]                       \* accounting starts, modulo 4
  /\ reqs = {} /\ msgs = {} /\ accepted = {}
  /\ made = 0 /\ sent = 0 /\ ooms = 0

FreeAddrs(S) == {a \in Addrs : S.holder[a] = 0}
\* The address that newip gives, 0 when there is none.
NewAddrs(S) == IF FreeAddrs(S) = {} THEN {0} ELSE FreeAddrs(S)

---------------------------------------------------------------------------
(* What RADIUS and the portal decide *)

\* dnprot_terminate, terminate_appconn; accounting stop is sent.
terminate_appconn(S, c) ==
  LET d == S.app[c].dnlink
      S1 == [S EXCEPT !.app[c].auth = FALSE]
  IN  IF ~S.app[c].auth THEN S
      ELSE IF d = 0 \/ S.app[c].dnprot = "zero" THEN S1
      ELSE [S1 EXCEPT !.dhcp[d].authstate = "dnat"]

\* "the one and only place state is switched to authenticated"; accounting
\* start resets the session's clock and counters.
dnprot_accept(S, c) ==
  IF S.app[c].uplink = 0 \/ S.app[c].dnlink = 0 \/ S.app[c].dnprot \notin {"uam", "mac"} THEN S
  ELSE LET n == (S.sessions + 1) % 4
       IN  [S EXCEPT !.dhcp[S.app[c].dnlink].authstate = "pass",
                     !.app[c].auth = TRUE, !.app[c].start = n, !.sessions = n]

dnprot_reject(S, c) ==
  IF S.app[c].dnprot # "mac" \/ S.app[c].dnlink = 0 THEN S
  ELSE [S EXCEPT !.dhcp[S.app[c].dnlink].authstate = IF MacDeny THEN "drop" ELSE "none",
                 !.app[c].dnprot = IF MacDeny THEN "null" ELSE "uam"]

\* a: the address that newip gives if the connection has none.
upprot_getip(S, c, a) ==
  IF S.app[c].uplink # 0 THEN dnprot_accept(S, c)
  ELSE IF a = 0 THEN dnprot_reject(S, c)
  ELSE dnprot_accept([S EXCEPT !.app[c].uplink = a, !.holder[a] = c], c)

---------------------------------------------------------------------------
(* Connections *)

\* The connection that dhcp_lnkconn or chilli_new_conn takes, 0 for none.
TakeConn(free, count) ==
  IF free # <<>> THEN Head(free) ELSE IF count < NConn THEN count + 1 ELSE 0
Fresh(free) == IF free = <<>> THEN 1 ELSE 0
Rest(free) == IF free = <<>> THEN free ELSE Tail(free)

\* chilli_new_conn, chilli_connect and cb_dhcp_connect.
chilli_connect(S, d) ==
  LET c == TakeConn(S.appfree, S.appcount)
  IN  IF c = 0 THEN S
      ELSE [S EXCEPT !.appfree = Rest(@), !.appcount = @ + Fresh(S.appfree),
                     !.app[c] = [NoApp EXCEPT !.inuse = TRUE, !.mac = S.dhcp[d].mac,
                                              !.dnlink = d, !.dnprot = "none"],
                     !.dhcp[d].peer = c]

\* dhcp_lnkconn and the beginning of dhcp_newconn.
DhcpLinked(S, d, m) ==
  [S EXCEPT !.dhcpfree = Rest(@), !.dhcpcount = @ + Fresh(S.dhcpfree),
            !.dhcp[d] = [NoDhcp EXCEPT !.inuse = TRUE, !.mac = m]]

dhcp_newconn(S, m) ==
  LET d == TakeConn(S.dhcpfree, S.dhcpcount)
  IN  IF d = 0 THEN S ELSE chilli_connect(DhcpLinked(S, d, m), d)

\* freeconn: cleared and first to be used again.
freeconn(S, c) == [S EXCEPT !.app[c] = NoApp, !.appfree = <<c>> \o @]

\* Mutant: the address is kept when the session was terminated before.
DisconnectKeepsAddr(S, c) ==
  IF ~S.app[c].auth THEN freeconn(S, c)
  ELSE freeconn([terminate_appconn(S, c) EXCEPT !.holder[S.app[c].uplink] = 0], c)

session_disconnect(S, c) ==
  LET S1 == terminate_appconn(S, c)
      a == S.app[c].uplink
  IN  freeconn(IF a = 0 THEN S1 ELSE [S1 EXCEPT !.holder[a] = 0], c)

\* dhcp_freeconn and cb_dhcp_disconnect.
dhcp_freeconn(S, d) ==
  LET c == S.dhcp[d].peer
      S1 == IF c = 0 THEN S ELSE session_disconnect(S, c)
  IN  [S1 EXCEPT !.dhcp[d] = NoDhcp, !.dhcpfree = <<d>> \o @]

ConnOf(m) == {d \in Conns : st.dhcp[d].inuse /\ st.dhcp[d].mac = m}

\* A packet of a client that has no connection yet.
NewClient(m) ==
  /\ ConnOf(m) = {}
  /\ TakeConn(st.dhcpfree, st.dhcpcount) # 0
  /\ st' = dhcp_newconn(st, m)
  /\ UNCHANGED <<reqs, msgs, accepted, made, sent, ooms>>

\* calloc fails: dhcp_lnkconn has counted the connection already, or
\* chilli_new_conn leaves the DHCP connection without a peer.
NewClientOom(m) ==
  LET d == TakeConn(st.dhcpfree, st.dhcpcount)
  IN  /\ ConnOf(m) = {} /\ d # 0
      /\ ooms < MaxOom /\ ooms' = ooms + 1
      /\ \/ st.dhcpfree = <<>> /\ st' = [st EXCEPT !.dhcpcount = @ + 1]
         \/ st.appfree = <<>> /\ st' = DhcpLinked(st, d, m)
      /\ UNCHANGED <<reqs, msgs, accepted, made, sent>>

\* dhcp_checkconn finds that the lease has expired, or the client releases it.
LeaseEnds(d) ==
  /\ st.dhcp[d].inuse
  /\ st' = dhcp_freeconn(st, d)
  /\ UNCHANGED <<reqs, msgs, accepted, made, sent, ooms>>

---------------------------------------------------------------------------
(* RADIUS *)

\* auth_radius for connection c at the end of a handler that leaves S: the
\* request is queued, or radius_req or radius_default_pack refuses it.
auth_radius(S, c) ==
  \/ /\ made < MaxReq /\ made' = made + 1
     /\ st' = [S EXCEPT !.app[c].pap = TRUE]
     /\ reqs' = reqs \cup {[n |-> made + 1, cbp |-> c, mac |-> S.dhcp[S.app[c].dnlink].mac]}
  \/ \E pap \in {S.app[c].pap, TRUE} : st' = [S EXCEPT !.app[c].pap = pap]
     /\ UNCHANGED <<reqs, made>>

\* A handler leaves S; it asks RADIUS about connection c if ask.
Leaves(S, c, ask) ==
  IF ask THEN auth_radius(S, c) ELSE st' = S /\ UNCHANGED <<reqs, made>>

\* The Framed-IP-Address of the answer is another address than the client's:
\* its connections are freed and made again.  appconn is used after that,
\* which is right if it is the one that was made.
ForcedIp(S, c) ==
  LET d == S.app[c].dnlink
      S1 == dhcp_freeconn(S, d)
      nd == TakeConn(S1.dhcpfree, S1.dhcpcount)
  IN  [dhcp_newconn(S1, S.dhcp[d].mac) EXCEPT
         !.app[c].dnprot = "mac", !.app[c].pap = TRUE, !.dhcp[nd].authstate = "dnat"]

\* cb_radius_auth_conf with an Access-Accept.
cb_radius_auth_accept(r) ==
  /\ reqs' = reqs \ {r}
  /\ \E force \in {FALSE, ForceIp /\ st.app[r.cbp].uplink # 0} :
       LET S == IF force THEN ForcedIp(st, r.cbp) ELSE st
       IN  \E a \in NewAddrs(S) :
             st' = IF S.app[r.cbp].pap THEN upprot_getip(S, r.cbp, a)
                   ELSE dnprot_reject(S, r.cbp)
  /\ accepted' = accepted \cup {r.mac}
  /\ UNCHANGED <<msgs, made, sent, ooms>>

cb_radius_auth_reject(r) ==
  /\ reqs' = reqs \ {r}
  /\ st' = dnprot_reject(st, r.cbp)
  /\ UNCHANGED <<msgs, accepted, made, sent, ooms>>

\* Finished retransmissions: no answer.
cb_radius_auth_timeout(r) ==
  /\ reqs' = reqs \ {r}
  /\ IF NoRadAllow THEN \E a \in NewAddrs(st) : st' = upprot_getip(st, r.cbp, a)
     ELSE st' = dnprot_reject(st, r.cbp)
  /\ accepted' = IF NoRadAllow THEN accepted \cup {r.mac} ELSE accepted
  /\ UNCHANGED <<msgs, made, sent, ooms>>

---------------------------------------------------------------------------
(* DHCP *)

\* The end of cb_dhcp_request for a client that has an address.
Requested(S, c) ==
  LET d == S.app[c].dnlink
      S1 == IF S.app[c].auth THEN S ELSE [S EXCEPT !.dhcp[d].authstate = "dnat"]
  IN  IF S.app[c].dnprot = "none" THEN [S1 EXCEPT !.app[c].dnprot = "uam"] ELSE S1

\* A DHCPDISCOVER or DHCPREQUEST, or ARP or IP from a static address.  With
\* macauth the first request of a new client asks RADIUS, and so does every
\* later one until the client is authenticated.
cb_dhcp_request(d) ==
  LET c == st.dhcp[d].peer
      first == Macauth /\ st.app[c].uplink = 0 /\ st.app[c].dnprot = "none"
      again == Macauth /\ ~first /\ ~st.app[c].auth
      S == IF first THEN [st EXCEPT !.app[c].dnprot = "mac"] ELSE st
  IN  /\ st.dhcp[d].inuse /\ c # 0 /\ st.dhcp[d].authstate # "drop"
      /\ \/ st.app[c].uplink # 0 /\ Leaves(Requested(S, c), c, again)
         \/ /\ st.app[c].uplink = 0
            /\ \E a \in IF first /\ Strict THEN {0} ELSE NewAddrs(st) :
                 IF a = 0 THEN Leaves(S, c, first)
                 ELSE Leaves(Requested([S EXCEPT !.app[c].uplink = a, !.holder[a] = c], c),
                             c, first \/ again)
      /\ UNCHANGED <<msgs, accepted, sent, ooms>>

---------------------------------------------------------------------------
(* The captive portal and the session's limits *)

\* A portal process (redir.c, a child for each request) is done with the
\* client of this address; a log-in was checked with RADIUS by the process.
PortalSends(c, type) ==
  /\ st.app[c].inuse /\ st.app[c].uplink # 0
  /\ type = "login" => ~st.app[c].auth
  /\ sent < MaxMsg /\ sent' = sent + 1
  /\ msgs' = msgs \cup {[n |-> sent + 1, type |-> type, addr |-> st.app[c].uplink]}
  /\ accepted' = IF type = "login" THEN accepted \cup {st.app[c].mac} ELSE accepted
  /\ UNCHANGED <<st, reqs, made, ooms>>

\* Mutant: an abort leaves the session as it is.
UamKeepsSession(S, c, type) ==
  LET d == S.app[c].dnlink
  IN  CASE type = "login" -> upprot_getip(S, c, 0)
        [] type = "logout" -> [S EXCEPT !.app[c].uamabort = FALSE, !.dhcp[d].authstate = "dnat"]
        [] OTHER -> S

\* What a message does to the connection.
UamDone(S, c, type) ==
  LET d == S.app[c].dnlink
  IN  CASE type = "login" -> IF S.app[c].uamabort THEN [S EXCEPT !.app[c].uamabort = FALSE]
                             ELSE upprot_getip(S, c, 0)
        [] type = "logout" -> [terminate_appconn(S, c) EXCEPT !.app[c].uamabort = FALSE,
                                                             !.dhcp[d].authstate = "dnat"]
        [] type = "abort" -> terminate_appconn([S EXCEPT !.app[c].uamabort = TRUE,
                                                         !.dhcp[d].authstate = "dnat"], c)
        [] type = "challenge" -> [S EXCEPT !.app[c].uamabort = FALSE]
        [] type = "macreauth" -> S

\* The connection is found by the address in the message.
uam_msg(g) ==
  LET c == st.holder[g.addr]
  IN  /\ msgs' = msgs \ {g}
      /\ IF c = 0 \/ st.app[c].dnlink = 0 THEN UNCHANGED <<st, reqs, made>>
         ELSE Leaves(UamDone(st, c, g.type), c, g.type = "macreauth")
      /\ UNCHANGED <<accepted, sent, ooms>>

\* session_interval: a time or data limit is reached.
session_interval(c) ==
  /\ st.app[c].inuse /\ st.app[c].dnlink # 0 /\ st.app[c].auth
  /\ st' = terminate_appconn(st, c)
  /\ UNCHANGED <<reqs, msgs, accepted, made, sent, ooms>>

Next ==
  \/ \E m \in Macs : NewClient(m) \/ NewClientOom(m)
  \/ \E d \in Conns : LeaseEnds(d) \/ cb_dhcp_request(d)
  \/ \E r \in reqs : cb_radius_auth_accept(r) \/ cb_radius_auth_reject(r) \/ cb_radius_auth_timeout(r)
  \/ \E c \in Conns : \E t \in Portal : PortalSends(c, t)
  \/ \E g \in msgs : uam_msg(g)
  \/ \E c \in Conns : session_interval(c)

Spec == Init /\ [][Next]_vars

---------------------------------------------------------------------------
(* Properties *)

UsedApp == {c \in Conns : st.app[c].inuse}
UsedDhcp == {d \in Conns : st.dhcp[d].inuse}

\* Every field has a value that the code gives it, and a connection that is
\* not in use has been cleared.
TypeOK ==
  /\ st.app \in [Conns -> [inuse : BOOLEAN, mac : Macs \cup {0}, dnlink : 0 .. NConn,
                           dnprot : {"zero", "null", "none", "uam", "mac"},
                           uplink : Addrs \cup {0}, auth : BOOLEAN, uamabort : BOOLEAN,
                           pap : BOOLEAN, start : 0 .. 3]]
  /\ st.dhcp \in [Conns -> [inuse : BOOLEAN, mac : Macs \cup {0}, peer : 0 .. NConn,
                            authstate : {"none", "drop", "pass", "dnat"}]]
  /\ \A c \in Conns : ~st.app[c].inuse => st.app[c] = NoApp
  /\ st.appcount \in 0 .. NConn /\ st.dhcpcount \in 0 .. NConn
  /\ \A r \in reqs : r.cbp \in Conns /\ r.mac \in Macs
  /\ \A g \in msgs : g.addr \in Addrs /\ g.type \in Portal

\* The two connections of a client point at each other, one pair for a client,
\* and a connection is either in use or once in its free list.
ConnectionsPaired ==
  /\ \A c \in UsedApp : LET d == st.app[c].dnlink
                        IN  d \in UsedDhcp /\ st.dhcp[d].peer = c /\ st.dhcp[d].mac = st.app[c].mac
  /\ \A d \in UsedDhcp : st.dhcp[d].peer # 0 => st.dhcp[d].peer \in UsedApp
  /\ \A d, e \in UsedDhcp : st.dhcp[d].mac = st.dhcp[e].mac => d = e
  /\ \A c \in Conns : Cardinality({i \in 1 .. Len(st.appfree) : st.appfree[i] = c}) =
                      IF c <= st.appcount /\ c \notin UsedApp THEN 1 ELSE 0

\* "0=available; 1= used" (ippool.h): an address in use is the address of the
\* connection in use that its peer names, and of no other.
AddressOwned ==
  \A a \in Addrs : {c \in Conns : st.app[c].inuse /\ st.app[c].uplink = a} =
                   IF st.holder[a] = 0 THEN {} ELSE {st.holder[a]}

\* "The client can be in two states: Unauthenticated and authenticated"
\* (chilli.8): dhcp.c lets the packets of a client pass if and only if its
\* session is authenticated.
TwoStates ==
  \A d \in UsedDhcp : (st.dhcp[d].authstate = "pass") <=>
                      (st.dhcp[d].peer # 0 /\ st.app[st.dhcp[d].peer].auth)

\* "If authentication is successful the state of the client is changed to
\* authenticated" (chilli.8): of this client.
ClientAuthenticated == \A c \in Conns : st.app[c].auth => st.app[c].mac \in accepted

\* "Ensure that the session is not already authenticated before changing
\* session" (uam_msg): a session that goes on keeps its start.
SessionKept ==
  [][\A c \in Conns : st.app[c].auth /\ st'.app[c].auth /\ st.app[c].mac = st'.app[c].mac
                        => st'.app[c].start = st.app[c].start]_vars

\* The records of chilli.c and dhcp.c as a whole: each client has one pair of
\* connections, and each address in use one connection.
SessionsOK == TypeOK /\ ConnectionsPaired /\ AddressOwned
=============================================================================
