---------------------------- MODULE ChilliRadius ----------------------------
(***************************************************************************)
(* The RADIUS client of the hotspot (coova-chilli, radius.c): a table of   *)
(* outstanding requests whose slots are also a doubly linked list in the   *)
(* order of their time-outs, retransmission to two servers, and the match  *)
(* of answers by packet id and authenticator.                              *)
(*                                                                         *)
(* A request is its number: the random authenticator and the callback      *)
(* argument stand for it.  Time-outs are kept relative to the wall clock   *)
(* and the radius_timeout call of the main loop comes once a second.       *)
(***************************************************************************)
EXTENDS Integers, FiniteSets

CONSTANTS
  QSize,        \* slots of the table (256 when radiusqsize is 0)
  Sized,        \* radiusqsize was given: ids come from nextid
  IdSpace,      \* ids: 256 in the code
  NReq,         \* bound: requests made
  Timeout,      \* radiustimeout, in seconds
  Retry,        \* radiusretry
  RetrySec,     \* radiusretrysec
  MaxFail,      \* bound: sendto, calloc and fread calls that fail
  MaxBack       \* bound: seconds by which the wall clock is set back

ConstAssumption ==
  /\ QSize \in Nat \ {0} /\ IdSpace \in Nat \ {0, 1}
  /\ Sized \in BOOLEAN
  /\ Sized \/ QSize = IdSpace
  /\ NReq \in Nat /\ Timeout \in Nat \ {0} /\ Retry \in Nat /\ RetrySec \in Nat
  /\ MaxFail \in Nat /\ MaxBack \in Nat

Slots == 0 .. QSize - 1
Req == 1 .. NReq
Servers == {0, 1}
None == -1
NoPacket == [id |-> None, req |-> None]

VARIABLES
  queue,        \* the table: state, p, cbp, retrans, lastsent, timeout, next, prev
  first, last,  \* ends of the list
  qnext,        \* slot to try next
  nextid,
  lastreply,    \* server that answered last
  second,       \* a second passed since the last radius_timeout
  made,         \* requests made so far
  call,         \* outcome of each request
  idOf,         \* id that each request was sent with
  sent,         \* servers that each request was sent to
  fails, backs  \* counters of the bounds

listVars == <<queue, first, last>>
idVars   == <<qnext, nextid>>
envVars  == <<made, fails, backs>>
netVars  == <<idOf, sent>>
vars == <<listVars, idVars, lastreply, second, call, netVars, envVars>>

Calls == INSTANCE RadiusCalls

EmptySlot == [state |-> 0, p |-> NoPacket, cbp |-> None, retrans |-> 0,
              lastsent |-> 0, timeout |-> 0, next |-> 0, prev |-> 0]

Init ==
  /\ queue = [s \in Slots |-> EmptySlot]
  /\ first = None /\ last = None
  /\ qnext = 0 /\ nextid = 0 /\ lastreply = 0
  /\ second = FALSE
  /\ made = 0
  /\ Calls!Init
  /\ idOf = [r \in Req |-> None]
  /\ sent = [r \in Req |-> {}]
  /\ fails = 0 /\ backs = 0

---------------------------------------------------------------------------
(* The table and its list *)

\* The n-th slot that a scan of the whole table visits when it starts at i.
ScanSlot(i, n) == (i + n) % QSize
\* The first one of them that is wanted.
ScanFor(i, wanted) ==
  LET hits == {n \in Slots : ScanSlot(i, n) \in wanted}
  IN  IF hits = {} THEN None
      ELSE ScanSlot(i, CHOOSE n \in hits : \A m \in hits : n <= m)

\* The slot to use for a request, None when the queue is full.
radius_queue_next == ScanFor(qnext, {s \in Slots : queue[s].state # 1})

\* The slot of the request that has this id.
radius_queue_idx(id) ==
  ScanFor(id % QSize, {s \in Slots : queue[s].p # NoPacket /\ queue[s].p.id = id})

\* Both list operations give the table, first and last as a record.
ListNow == [q |-> queue, f |-> first, l |-> last]

\* Mutant: the next slot keeps its link back to the one taken out.
UnlinkForward(L, s) ==
  LET n == L.q[s].next
      p == L.q[s].prev
  IN  [q |-> IF p = None THEN L.q ELSE [L.q EXCEPT ![p].next = n],
       f |-> IF p = None THEN n ELSE L.f, l |-> IF n = None THEN p ELSE L.l]

Unlink(L, s) ==
  LET n == L.q[s].next
      p == L.q[s].prev
      q1 == IF n = None THEN L.q ELSE [L.q EXCEPT ![n].prev = p]
      q2 == IF p = None THEN q1 ELSE [q1 EXCEPT ![p].next = n]
  IN  [q |-> q2, f |-> IF p = None THEN n ELSE L.f, l |-> IF n = None THEN p ELSE L.l]

LinkLast(L, s) ==
  LET q1 == [L.q EXCEPT ![s].next = None, ![s].prev = L.l]
      q2 == IF L.l = None THEN q1 ELSE [q1 EXCEPT ![L.l].next = s]
  IN  [q |-> q2, f |-> IF L.f = None THEN s ELSE L.f, l |-> s]

SetList(L) == queue' = L.q /\ first' = L.f /\ last' = L.l

\* The slot's packet is freed only here; its other fields stay as they are.
radius_queue_out(s) ==
  LET L == Unlink(ListNow, s)
  IN  SetList([L EXCEPT !.q[s].state = 0, !.q[s].p = NoPacket])

Reschedule(s, srv) ==
  LET q1 == [queue EXCEPT ![s].retrans = @ + 1, ![s].timeout = Timeout, ![s].lastsent = srv]
  IN  LinkLast(Unlink([ListNow EXCEPT !.q = q1], s), s)

radius_queue_reschedule(s, srv) == SetList(Reschedule(s, srv))

---------------------------------------------------------------------------
(* Requests *)

MayFail == fails < MaxFail
Fail == MayFail /\ fails' = fails + 1

\* radius_default_pack: the id, and nextid after it.
PackId == IF ~Sized THEN radius_queue_next
          ELSE IF nextid = 0 THEN 1 % IdSpace ELSE nextid
NextId == IF ~Sized THEN nextid
          ELSE IF nextid = 0 THEN 2 % IdSpace ELSE (nextid + 1) % IdSpace

Insert(s, r, id) ==
  LinkLast([ListNow EXCEPT !.q[s] =
             [@ EXCEPT !.state = 1, !.p = [id |-> id, req |-> r], !.cbp = r, !.retrans = 0,
                       !.timeout = Timeout, !.lastsent = lastreply]], s)

\* radius_default_pack and radius_req: put in the queue, then sent to the
\* server that answered last.
radius_req(r) ==
  LET s == radius_queue_next
  IN  /\ r = made + 1 /\ made' = r
      /\ s # None
      /\ nextid' = NextId
      /\ qnext' = (s + 1) % QSize
      /\ SetList(Insert(s, r, PackId))
      /\ Calls!Accept(r)
      /\ idOf' = [idOf EXCEPT ![r] = PackId]
      /\ \/ sent' = [sent EXCEPT ![r] = {lastreply}] /\ UNCHANGED fails
         \/ Fail /\ UNCHANGED sent               \* sendto fails: still queued
      /\ UNCHANGED <<lastreply, second, backs>>

\* The queue is full, or there is no memory or no random number for the packet.
radius_req_refused(r) ==
  LET s == radius_queue_next
  IN  /\ r = made + 1 /\ made' = r
      /\ Calls!Refuse(r)
      /\ nextid' = NextId
      /\ \/ s = None /\ UNCHANGED <<qnext, fails>>
         \/ s # None /\ Fail /\ qnext' \in (IF Sized THEN {qnext, s} ELSE {s})
      /\ UNCHANGED <<listVars, lastreply, second, netVars, backs>>

---------------------------------------------------------------------------
(* Time-outs *)

Expired(s) == queue[s].timeout <= 0
RetransExceeded(s) == queue[s].retrans >= Retry

\* The server of the next retransmission.
OtherServer(s) == IF queue[s].retrans = RetrySec - 1
                  THEN 1 - queue[s].lastsent ELSE queue[s].lastsent

Retransmit(s) ==
  /\ ~RetransExceeded(s)
  /\ radius_queue_reschedule(s, OtherServer(s))
  /\ \/ /\ sent' = [sent EXCEPT ![queue[s].cbp] = @ \cup {OtherServer(s)}]
        /\ UNCHANGED fails
     \/ Fail /\ UNCHANGED sent
  /\ UNCHANGED call

FinishedRetrans(s) ==
  /\ RetransExceeded(s)
  /\ radius_queue_out(s)
  /\ Calls!GiveUp(queue[s].cbp)
  /\ UNCHANGED <<sent, fails>>

\* Called by the main loop once in every second; it looks at one request.
radius_timeout ==
  /\ second /\ second' = FALSE
  /\ IF first # None /\ Expired(first)
     THEN Retransmit(first) \/ FinishedRetrans(first)
     ELSE UNCHANGED <<listVars, sent, fails, call>>
  /\ UNCHANGED <<idVars, lastreply, idOf, made, backs>>

---------------------------------------------------------------------------
(* Answers *)

\* Mutant: any answer with the id is taken.
AuthNotChecked(s, r) == TRUE

\* The answer is signed with the authenticator of the request it answers.
radius_authcheck(s, r) == queue[s].p.req = r

\* An answer of server srv to request r.  It is dropped when no request has
\* its id, or when the first one that has it is not the one it answers.
radius_decaps(r, srv) ==
  LET s == radius_queue_idx(idOf[r])
  IN  /\ srv \in sent[r]
      /\ s # None /\ queue[s].state = 1
      /\ radius_authcheck(s, r)
      /\ radius_queue_out(s)
      /\ lastreply' = srv
      /\ call' = [call EXCEPT ![queue[s].cbp] = IF @ = "pending" /\ queue[s].cbp = r
                                               THEN "answered" ELSE "mixed up"]
      /\ UNCHANGED <<idVars, second, netVars, envVars>>

---------------------------------------------------------------------------
(* Time and configuration *)

Floor(n) == IF n < backs - MaxBack THEN backs - MaxBack ELSE n

\* The wall clock moves on by a second.  Below what the clock can still be
\* set back, an expired time-out stays expired: the difference is dropped.
Tick ==
  /\ queue' = [s \in Slots |-> [queue[s] EXCEPT !.timeout = Floor(@ - 1)]]
  /\ second' = TRUE
  /\ UNCHANGED <<first, last, idVars, lastreply, call, netVars, envVars>>

\* gettimeofday goes back: the time is set by hand or by NTP.
ClockSetBack ==
  /\ \E d \in 1 .. MaxBack - backs :
       /\ backs' = backs + d
       /\ queue' = [s \in Slots |-> [queue[s] EXCEPT !.timeout = @ + d]]
  /\ UNCHANGED <<first, last, idVars, lastreply, second, call, netVars, made, fails>>

\* radius_set after a reload of the configuration.
radius_set ==
  /\ lastreply # 0 /\ lastreply' = 0
  /\ UNCHANGED <<listVars, idVars, second, call, netVars, envVars>>

Next ==
  \/ \E r \in Req : radius_req(r) \/ radius_req_refused(r)
  \/ radius_timeout
  \/ \E r \in Req, srv \in Servers : radius_decaps(r, srv)
  \/ Tick
  \/ ClockSetBack
  \/ radius_set

Spec == Init /\ [][Next]_vars
\* Time passes and the main loop runs.
FairSpec == Spec /\ WF_vars(Tick) /\ WF_vars(radius_timeout)

---------------------------------------------------------------------------
(* Properties *)

\* Every variable holds a value that its C type and the code allow.
TypeOK ==
  /\ queue \in [Slots -> [state : {0, 1}, p : [id : 0 .. IdSpace - 1, req : Req] \cup {NoPacket},
                          cbp : Req \cup {None}, retrans : 0 .. Retry, lastsent : Servers,
                          timeout : -MaxBack .. Timeout + MaxBack,
                          next : Slots \cup {None}, prev : Slots \cup {None}]]
  /\ first \in Slots \cup {None} /\ last \in Slots \cup {None}
  /\ qnext \in Slots /\ nextid \in 0 .. IdSpace - 1 /\ lastreply \in Servers
  /\ second \in BOOLEAN
  /\ call \in [Req -> Calls!Outcomes]
  /\ idOf \in [Req -> 0 .. IdSpace - 1 \cup {None}] /\ sent \in [Req -> SUBSET Servers]
  /\ made \in 0 .. NReq /\ fails \in 0 .. MaxFail /\ backs \in 0 .. MaxBack

Live == {s \in Slots : queue[s].state = 1}

\* The slot that n links lead to from first.
Nth[n \in 0 .. QSize] ==
  IF n = 0 THEN first ELSE IF Nth[n - 1] = None THEN None ELSE queue[Nth[n - 1]].next

\* The list that radius_queue_in, radius_queue_out and radius_queue_reschedule
\* splice in place holds each slot in use once, backwards as well as forwards,
\* and a slot in use holds the packet of a request that still waits.
ListOK ==
  /\ {Nth[n] : n \in 0 .. QSize} = Live \cup {None}
  /\ \A s \in Live :
       /\ queue[s].next = None <=> s = last
       /\ queue[s].prev = None <=> s = first
       /\ queue[s].next # None => queue[queue[s].next].prev = s
  /\ last = None <=> first = None
  /\ last # None => last \in Live
  /\ \A s \in Slots : (queue[s].p # NoPacket) <=> (s \in Live)
  /\ \A s \in Live : queue[s].p.req = queue[s].cbp
  /\ {queue[s].cbp : s \in Live} = {r \in Req : call[r] = "pending"}

\* "First packet in queue (oldest timeout)" (radius.h): radius_timeout looks at
\* no other one.
OldestFirst ==
  first # None => \A s \in Live : queue[first].timeout <= queue[s].timeout

\* The answer to a request that still waits finds this request and not
\* another one that was given the same id.
AnswerFindsRequest ==
  \A r \in Req : call[r] = "pending" =>
    LET s == radius_queue_idx(idOf[r]) IN s # None /\ queue[s].p.req = r

\* The hotspot gives up on a request only after both servers were tried.
BothServersTried ==
  (RetrySec \in 1 .. Retry /\ fails = 0) =>
    \A r \in Req : call[r] = "gaveup" => sent[r] = Servers

\* Each accepted request gets one callback, for its own answer or for none,
\* and gets it eventually.
OneCallback == Calls!Spec

\* "Retransmit any outstanding packets" (radius.c): when radius_timeout is
\* done no request is left whose time-out has passed.
RetransmitsAll == [][radius_timeout => \A s \in Slots : queue'[s].state = 1 => queue'[s].timeout > 0]_vars

\* The queue of radius.c as a whole: it holds every request that waits, oldest
\* first, finds the one that an answer is for, and asks both servers.
QueueOK == TypeOK /\ ListOK /\ OldestFirst /\ AnswerFindsRequest /\ BothServersTried
=============================================================================
