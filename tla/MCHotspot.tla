------------------------------ MODULE MCHotspot ------------------------------
(***************************************************************************)
(* The components of the hotspot, instantiated for TLC.  A behaviour is    *)
(* one of a single component: part says of which, no step changes it, and  *)
(* the variables of the other components stay as they are at the start.    *)
(* The state space is the sum of theirs.  ChilliRadius is extended, so     *)
(* that its QueueOK is checked as it is, with ids that are slots: four     *)
(* requests go round a table of three.                                     *)
(***************************************************************************)
EXTENDS ChilliRadius

VARIABLES
  part,
  queue2, first2, last2, qnext2, nextid2, lastreply2, second2, made2, call2, idOf2, sent2,
  fails2, backs2,
  pool, uplink, hisip, natip,
  start, end, uamlisten, dhcplisten,
  st, reqs, msgs, accepted, asked, told, ooms

countedVars == <<queue2, first2, last2, qnext2, nextid2, lastreply2, second2, made2, call2,
                 idOf2, sent2, fails2, backs2>>
poolVars    == <<pool, uplink, hisip, natip>>
rangeVars   == <<start, end, uamlisten, dhcplisten>>
sessionVars == <<st, reqs, msgs, accepted, asked, told, ooms>>
allVars == <<part, vars, countedVars, poolVars, rangeVars, sessionVars>>

---------------------------------------------------------------------------
(* Instances *)

\* Ids are counted; they wrap, one call fails, and the clock is set back.
Counted == INSTANCE ChilliRadius WITH
  QSize <- 2, Sized <- TRUE, IdSpace <- 3, NReq <- 3, Timeout <- 1, Retry <- 1,
  RetrySec <- 1, MaxFail <- 1, MaxBack <- 1,
  queue <- queue2, first <- first2, last <- last2, qnext <- qnext2, nextid <- nextid2,
  lastreply <- lastreply2, second <- second2, made <- made2, call <- call2, idOf <- idOf2,
  sent <- sent2, fails <- fails2, backs <- backs2

\* Dynamic and static addresses overlap, two share a hash bucket.
Pool == INSTANCE ChilliPool WITH
  Clients <- 1 .. 4, Dyn <- 3, Stat <- 2, StatAddrs <- 2 .. 5,
  MaxAddr <- 5, HashSize <- 2, Anyip <- FALSE, NatAnyip <- FALSE
\* Clients keep an address of their own and are translated.
Foreign == INSTANCE ChilliPool WITH
  Clients <- 1 .. 3, Dyn <- 3, Stat <- 2, StatAddrs <- {},
  MaxAddr <- 5, HashSize <- 2, Anyip <- TRUE, NatAnyip <- TRUE

Range == INSTANCE ChilliPoolRange WITH
  Hosts <- 8, UINT32 <- 2 ^ 16, OneListen <- TRUE, EndInside <- TRUE

\* Clients log in and out at the portal, two messages cross.
Login == INSTANCE ChilliSession WITH
  Macs <- {1, 2}, Addrs <- {1, 2}, NConn <- 2, Macauth <- FALSE,
  Strict <- FALSE, NoRadAllow <- FALSE, MacDeny <- FALSE, ForceIp <- FALSE,
  Portal <- {"login", "logout", "abort", "challenge"}, MaxReq <- 0, MaxMsg <- 2,
  MaxOom <- 1, made <- asked, sent <- told
\* RADIUS is asked for every new client, and assigns addresses.
Mac == INSTANCE ChilliSession WITH
  Macs <- {1, 2}, Addrs <- {1, 2}, NConn <- 2, Macauth <- TRUE,
  Strict <- FALSE, NoRadAllow <- FALSE, MacDeny <- TRUE, ForceIp <- TRUE,
  Portal <- {"login", "macreauth"}, MaxReq <- 2, MaxMsg <- 1,
  MaxOom <- 0, made <- asked, sent <- told

ASSUME ConstAssumption /\ Counted!ConstAssumption /\ Pool!ConstAssumption
ASSUME Foreign!ConstAssumption /\ Range!ConstAssumption
ASSUME Login!ConstAssumption /\ Mac!ConstAssumption

AllInit ==
  /\ part \in {"radius", "counted", "pool", "foreign", "range", "login", "mac"}
  /\ Init /\ Counted!Init
  /\ IF part = "foreign" THEN Foreign!Init ELSE Pool!Init
  /\ Range!Init /\ Login!Init

PoolNext    == \/ part = "pool" /\ Pool!Next
               \/ part = "foreign" /\ Foreign!Next
SessionNext == \/ part = "login" /\ Login!Next
               \/ part = "mac" /\ Mac!Next

AllNext ==
  /\ UNCHANGED part
  /\ \/ part = "radius" /\ Next
        /\ UNCHANGED <<countedVars, poolVars, rangeVars, sessionVars>>
     \/ part = "counted" /\ Counted!Next
        /\ UNCHANGED <<vars, poolVars, rangeVars, sessionVars>>
     \/ PoolNext /\ UNCHANGED <<vars, countedVars, rangeVars, sessionVars>>
     \/ part = "range" /\ Range!Next
        /\ UNCHANGED <<vars, countedVars, poolVars, sessionVars>>
     \/ SessionNext /\ UNCHANGED <<vars, countedVars, poolVars, rangeVars>>

\* The main loop looks at the RADIUS queue every second.
AllSpec ==
  /\ AllInit /\ [][AllNext]_allVars
  /\ WF_countedVars(part = "counted" /\ Counted!Tick)
  /\ WF_countedVars(part = "counted" /\ Counted!radius_timeout)

---------------------------------------------------------------------------
(* Properties: those of the components, beside QueueOK of ChilliRadius *)

\* With counted ids, which may be in use twice, and a clock that is set back the list
\* still holds every request that waits, and the queue implements RadiusCalls: no
\* request gets a second callback, or one for the answer to another request, and every
\* request that was accepted gets one.
CallbackOnce ==
  /\ [](Counted!TypeOK /\ Counted!ListOK)
  /\ [][Counted!Calls!Next \/ UNCHANGED call2]_allVars
  /\ part = "counted" => \A r \in 1 .. 3 : call2[r] = "pending" ~> call2[r] # "pending"

\* ippool_newip and ippool_freeip lose no member, ippool_getip finds the member of an
\* address and one only, session_disconnect gives back all that a session has taken;
\* and two clients never have one address.
PoolOK == /\ part = "pool" => Pool!PoolOK /\ Pool!OwnAddress
          /\ part = "foreign" => Foreign!PoolOK

\* For every setting each member that ippool_new makes has an address of its own, a host
\* of the subnet, and neither the broadcast address nor the one the hotspot listens at.
RangeOK == Range!UsableAddresses /\ Range!SkipsUamlisten

\* The DHCP connection and the session of a client point at each other, also when
\* connections are freed and used again, and an address in use is that of the session
\* that its peer names.
SessionsOK == /\ part = "login" => Login!SessionsOK
              /\ part = "mac" => Mac!SessionsOK

\* Packets of a client pass if and only if its session is authenticated.
TwoStates == part = "login" => Login!TwoStates
=============================================================================
