--------------------------- MODULE QConnManProofs ---------------------------
(***************************************************************************)
(* Theorems about QConnMan, for IPv4 and dual stack, every number of       *)
(* addresses and every number of lost requests, dropped calls, unplugs,    *)
(* signals and radio resets.                                               *)
(***************************************************************************)
EXTENDS QConnMan, FiniteSetTheorems, SequenceTheorems, TLAPS

---------------------------------------------------------------------------
(* The inductive invariant *)

Event == {"CALL", "NET", "DISCONNECTED"}

\* A queue of events without, and with at most one, DISCONNECTED.
NoneGone(s) == \A i \in 1 .. Len(s) : s[i] # "DISCONNECTED"
OneGone(s) ==
  \A i, j \in 1 .. Len(s) : s[i] = "DISCONNECTED" /\ s[j] = "DISCONNECTED" => i = j

\* The types that TypeOK leaves open, and what the poll loop reads is there.
LoopInv ==
  /\ opened \in BOOLEAN /\ plugged \in BOOLEAN /\ network \in BOOLEAN /\ radio \in BOOLEAN
  /\ lastAddr \in 0 .. MaxAddr
  /\ sigs \in 0 .. MaxSig /\ cancels <= sigs
  /\ pc = "signal" => signal_fd # <<>>
  /\ pc = "event" => "event" \in ready
  /\ "event" \in ready => event_fd # <<>>

Typed == TypeOK /\ LoopInv

\* usbnet_link_change keeps link, address and DHCP in step.
LinkInv ==
  /\ dhcp # 0 => s_link = 1 /\ dhcp = Address
  /\ pc = "linkAddress" => s_link = 1
  /\ pc \in {"detect", "init", "done"} => s_link = 0

\* An unplugged modem is announced once, and is not opened again before main
\* has read that.
GoneInv ==
  /\ ~ NoneGone(event_fd) => ~ opened
  /\ OneGone(event_fd)
  /\ pc \in {"gone", "detect"} => ~ opened /\ NoneGone(event_fd)

NoCalls == \A f \in Families : call[f] = Down

\* Where no call can be left: as long as no request was lost, main has all
\* client ids, and with that of IPv4 the modem ends its call.
CallInv ==
  /\ ~ opened => NoCalls
  /\ call[6] # Down => Dual
  /\ losses = 0 /\ pc \in {"quit", "done"} => call[4] = Down
  /\ losses = 0 /\ opened /\ pc \notin {"detect", "init", "quit", "done"} => clients = Services

IInv == Typed /\ LinkInv /\ GoneInv /\ CallInv

---------------------------------------------------------------------------
(* The queue of events *)

\* Queue t is queue s after the QMI thread has added something other than
\* DISCONNECTED to it.
Grown(s, t) ==
  /\ t \in Seq(Event)
  /\ s # <<>> => t # <<>>
  /\ NoneGone(s) => NoneGone(t)
  /\ OneGone(s) => OneGone(t)

\* Nothing added.
LEMMA GrownSame == ASSUME NEW s \in Seq(Event) PROVE Grown(s, s)
BY DEF Grown

\* One event added.
LEMMA GrownAppend ==
  ASSUME NEW s \in Seq(Event), NEW e \in {"CALL", "NET"}
  PROVE  Grown(s, Append(s, e))
<1> DEFINE t == Append(s, e)
<1>1. t \in Seq(Event) /\ Len(t) = Len(s) + 1 /\ t # <<>>  BY DEF Event
<1>2. \A i \in 1 .. Len(t) : t[i] = IF i = Len(t) THEN e ELSE s[i]  OBVIOUS
<1>3. \A i \in 1 .. Len(t) : t[i] = "DISCONNECTED" => i \in 1 .. Len(s) /\ s[i] = "DISCONNECTED"
  BY <1>1, <1>2
<1>4. Grown(s, t)
  <2> HIDE DEF t
  <2> QED BY <1>1, <1>3 DEF Grown, NoneGone, OneGone
<1> QED BY <1>4

\* Added twice.
LEMMA GrownTwice ==
  ASSUME NEW s, NEW t, NEW u, Grown(s, t), Grown(t, u)
  PROVE  Grown(s, u)
BY DEF Grown

\* As the model writes it.
LEMMA GrownConcat ==
  ASSUME NEW s \in Seq(Event), NEW t \in {<<>>, <<"CALL">>, <<"NET">>}
  PROVE  Grown(s, s \o t)
<1>1. CASE t = <<>>
  <2>1. s \o t = s  BY <1>1
  <2> QED BY <2>1, GrownSame
<1>2. CASE t # <<>>
  <2>1. PICK e \in {"CALL", "NET"} : t = <<e>>  BY <1>2
  <2>2. s \o t = Append(s, e)  BY <2>1 DEF Event
  <2> QED BY <2>2, GrownAppend
<1> QED BY <1>1, <1>2

\* DISCONNECTED is added to a queue that has none.
LEMMA GoneAppend ==
  ASSUME NEW s \in Seq(Event), NoneGone(s)
  PROVE  Append(s, "DISCONNECTED") \in Seq(Event) \ {<<>>} /\ OneGone(Append(s, "DISCONNECTED"))
<1> DEFINE t == Append(s, "DISCONNECTED")
<1>1. t \in Seq(Event) /\ Len(t) = Len(s) + 1 /\ t # <<>>  BY DEF Event
<1>2. \A i \in 1 .. Len(t) : i # Len(t) => t[i] = s[i] /\ i \in 1 .. Len(s)  OBVIOUS
<1>3. \A i \in 1 .. Len(t) : t[i] = "DISCONNECTED" => i = Len(t)
  BY <1>1, <1>2 DEF NoneGone
<1>4. OneGone(t)
  <2> HIDE DEF t
  <2> QED BY <1>1, <1>3 DEF OneGone
<1> QED BY <1>1, <1>4

\* main reads an event.
LEMMA GoneTail ==
  ASSUME NEW s \in Seq(Event), s # <<>>
  PROVE  /\ Tail(s) \in Seq(Event) /\ Head(s) \in Event
         /\ OneGone(s) => OneGone(Tail(s))
         /\ NoneGone(s) => NoneGone(Tail(s)) /\ Head(s) # "DISCONNECTED"
         /\ OneGone(s) /\ Head(s) = "DISCONNECTED" => NoneGone(Tail(s))
<1>1. Tail(s) \in Seq(Event) /\ Head(s) \in Event /\ Len(s) > 0 /\ Len(Tail(s)) = Len(s) - 1
      /\ Head(s) = s[1]
  OBVIOUS
<1>2. \A i \in 1 .. Len(Tail(s)) : Tail(s)[i] = s[i + 1] /\ i + 1 \in 1 .. Len(s) /\ i + 1 # 1
  BY <1>1
<1>3. 1 \in 1 .. Len(s)  BY <1>1
<1> QED
  <2>1. OneGone(s) => OneGone(Tail(s))
    <3> SUFFICES ASSUME OneGone(s), NEW i \in 1 .. Len(Tail(s)), NEW j \in 1 .. Len(Tail(s)),
                        Tail(s)[i] = "DISCONNECTED", Tail(s)[j] = "DISCONNECTED"
                 PROVE  i = j
      BY DEF OneGone
    <3>1. i + 1 = j + 1  BY <1>2 DEF OneGone
    <3> QED BY <3>1
  <2>2. NoneGone(s) => NoneGone(Tail(s)) /\ Head(s) # "DISCONNECTED"
    BY <1>1, <1>2, <1>3 DEF NoneGone
  <2>3. OneGone(s) /\ Head(s) = "DISCONNECTED" => NoneGone(Tail(s))
    BY <1>1, <1>2, <1>3 DEF OneGone, NoneGone
  <2> QED BY <1>1, <2>1, <2>2, <2>3

\* A prefix of a queue.
LEMMA Prefix ==
  ASSUME NEW s \in Seq(Event), NEW n \in 0 .. Len(s)
  PROVE  /\ SubSeq(s, 1, n) \in Seq(Event) /\ Len(SubSeq(s, 1, n)) = n
         /\ \A i \in 1 .. n : SubSeq(s, 1, n)[i] = s[i]
OBVIOUS

\* The last event is lost.
LEMMA GoneFront ==
  ASSUME NEW s \in Seq(Event), Len(s) > 0
  PROVE  /\ SubSeq(s, 1, Len(s) - 1) \in Seq(Event)
         /\ Len(s) > 1 => SubSeq(s, 1, Len(s) - 1) # <<>>
         /\ OneGone(s) => OneGone(SubSeq(s, 1, Len(s) - 1))
         /\ NoneGone(s) => NoneGone(SubSeq(s, 1, Len(s) - 1))
         /\ s[Len(s)] # "DISCONNECTED" /\ ~ NoneGone(s) => ~ NoneGone(SubSeq(s, 1, Len(s) - 1))
<1> DEFINE t == SubSeq(s, 1, Len(s) - 1)
<1>1. /\ t \in Seq(Event) /\ Len(t) = Len(s) - 1
      /\ \A i \in 1 .. Len(s) - 1 : t[i] = s[i]
  <2>1. Len(s) - 1 \in 0 .. Len(s)  OBVIOUS
  <2> QED BY <2>1, Prefix
<1>2. OneGone(s) => OneGone(t)
  <2> HIDE DEF t
  <2> QED BY <1>1 DEF OneGone
<1>3. NoneGone(s) => NoneGone(t)
  <2> HIDE DEF t
  <2> QED BY <1>1 DEF NoneGone
<1>4. s[Len(s)] # "DISCONNECTED" /\ ~ NoneGone(s) => ~ NoneGone(t)
  <2> SUFFICES ASSUME s[Len(s)] # "DISCONNECTED", NEW i \in 1 .. Len(s), s[i] = "DISCONNECTED"
               PROVE  ~ NoneGone(t)
    BY DEF NoneGone
  <2>1. i \in 1 .. Len(s) - 1  OBVIOUS
  <2> HIDE DEF t
  <2> QED BY <1>1, <2>1 DEF NoneGone
<1>5. Len(s) > 1 => t # <<>>
  <2> HIDE DEF t
  <2> QED BY <1>1
<1> QED BY <1>1, <1>2, <1>3, <1>4, <1>5

---------------------------------------------------------------------------
(* Requests *)

\* A request that fails counts against the bounds; one that is answered has
\* reached the modem.
LEMMA RequestEffect ==
  ASSUME Typed, NEW k, NEW s, NEW e \in Results, Request(k, s, e)
  PROVE  /\ losses' \in losses .. MaxLoss /\ cancels' \in 0 .. cancels
         /\ e = "answered" => Reaches(s)
BY ConstAssumption DEF Typed, TypeOK, LoopInv, Results, Request, Ends, Reaches

\* The network hands out one of its addresses.
LEMMA NextAddrType == ASSUME Typed PROVE NextAddr \in 1 .. MaxAddr
<1>1. lastAddr % MaxAddr \in 0 .. MaxAddr - 1
  BY ConstAssumption DEF Typed, LoopInv
<1> QED BY <1>1, ConstAssumption DEF NextAddr

\* A handle or a call of one family changes.
LEMMA ExceptType ==
  ASSUME NEW lo \in Int, NEW hi \in Int, NEW h \in [Families -> lo .. hi],
         NEW f \in Families, NEW x \in lo .. hi
  PROVE  /\ [h EXCEPT ![f] = x] \in [Families -> lo .. hi]
         /\ [h EXCEPT ![f] = x][f] = x
         /\ \A g \in Families : g # f => [h EXCEPT ![f] = x][g] = h[g]
OBVIOUS

\* The two families have each its own service.
LEMMA FamilyType == 4 \in Families /\ 6 \in Families /\ \A f \in Families : f = 4 \/ f = 6
BY DEF Families

\* An indication of a change becomes an event.
LEMMA CallsBecomeEffect ==
  ASSUME Typed, NEW c \in [Families -> -1 .. MaxAddr], CallsBecome(c)
  PROVE  call' = c /\ lastAddr' \in 0 .. MaxAddr /\ Grown(event_fd, event_fd')
<1>1. event_fd \in Seq(Event)  BY DEF Typed, TypeOK, Event
<1>2. Grown(event_fd, event_fd')
  BY <1>1, GrownSame, GrownAppend DEF CallsBecome
<1>3. c[4] \in -1 .. MaxAddr  BY FamilyType
<1> QED BY <1>2, <1>3, ConstAssumption DEF CallsBecome, Typed, LoopInv

\* requestQueryDataCall
LEMMA QueryEffect ==
  ASSUME Typed, NEW e \in Results, QueryDataCall(e)
  PROVE  /\ losses' \in losses .. MaxLoss /\ cancels' \in 0 .. cancels
         /\ IPv4ConnectionStatus' \in {"UNKNOWN", "DISCONNECTED", "OTHER", "CONNECTED"}
         /\ handle' \in [Families -> 0 .. MaxAddr]
<1>1. losses' \in losses .. MaxLoss /\ cancels' \in 0 .. cancels
  BY RequestEffect DEF QueryDataCall
<1>2. call[4] \in -1 .. MaxAddr  BY FamilyType DEF Typed, TypeOK
<1>3. StatusOf(call[4]) \in {"DISCONNECTED", "OTHER", "CONNECTED"}
  BY <1>2, ConstAssumption DEF StatusOf, Down, Dialing
<1>4. handle' \in [Families -> 0 .. MaxAddr]
  <2>1. handle' = handle \/ handle' = [handle EXCEPT ![4] = 0]  BY DEF QueryDataCall
  <2>2. handle \in [Families -> 0 .. MaxAddr] /\ 0 \in 0 .. MaxAddr /\ MaxAddr \in Int
    BY ConstAssumption DEF Typed, TypeOK
  <2> QED BY <2>1, <2>2, ExceptType, FamilyType
<1> QED BY <1>1, <1>3, <1>4 DEF QueryDataCall, Typed, TypeOK

\* requestRegistrationState
LEMMA RegistrationEffect ==
  ASSUME Typed, NEW e \in Results, RegistrationState(e)
  PROVE  /\ losses' \in losses .. MaxLoss /\ cancels' \in 0 .. cancels
         /\ PSAttachedState' \in BOOLEAN
<1>1. losses' \in losses .. MaxLoss /\ cancels' \in 0 .. cancels
  BY RequestEffect DEF RegistrationState
<1>2. Attached \in BOOLEAN  BY DEF Attached
<1>3. PSAttachedState' = Attached \/ PSAttachedState' = PSAttachedState
  BY DEF RegistrationState
<1> QED BY <1>1, <1>2, <1>3 DEF Typed, TypeOK

\* requestGetIPAddress
LEMMA GetIPAddressEffect ==
  ASSUME Typed, NEW e \in Results, NEW a, NEW ok, GetIPAddress(e, a, ok)
  PROVE  losses' \in losses .. MaxLoss /\ cancels' \in 0 .. cancels
BY RequestEffect, ConstAssumption DEF GetIPAddress, lossVars, Typed, TypeOK

\* requestSetupDataCall: only a modem that is there gets a call, and only of a
\* family that has a client id.
LEMMA SetupEffect ==
  ASSUME Typed, NEW f \in Families, NEW e \in Results, SetupDataCall(f, e)
  PROVE  /\ losses' \in losses .. MaxLoss /\ cancels' \in 0 .. cancels
         /\ handle' \in [Families -> 0 .. MaxAddr]
         /\ call' \in [Families -> -1 .. MaxAddr]
         /\ call' # call => opened /\ Wds(f) \in clients
         /\ \A g \in Families : g # f => call'[g] = call[g]
         /\ lastAddr' \in 0 .. MaxAddr /\ Grown(event_fd, event_fd')
<1> USE FamilyType
<1>0. Typed  OBVIOUS
<1>1. CASE /\ e = "answered" /\ CanDial(f)
           /\ Request("start", Wds(f), e)
           /\ CallsBecome([call EXCEPT ![f] = IF f = 4 THEN NextAddr ELSE 1])
           /\ handle' = [handle EXCEPT ![f] = call'[f]]
  <2> DEFINE c == [call EXCEPT ![f] = IF f = 4 THEN NextAddr ELSE 1]
  <2>1. (IF f = 4 THEN NextAddr ELSE 1) \in 1 .. MaxAddr  BY NextAddrType, ConstAssumption
  <2>2. /\ c \in [Families -> -1 .. MaxAddr] /\ c[f] \in 0 .. MaxAddr
        /\ \A g \in Families : g # f => c[g] = call[g]
    BY <2>1, ConstAssumption DEF Typed, TypeOK
  <2>3. call' = c /\ lastAddr' \in 0 .. MaxAddr /\ Grown(event_fd, event_fd')
    BY <1>1, <2>2, CallsBecomeEffect
  <2>4. handle' \in [Families -> 0 .. MaxAddr]
    BY <1>1, <2>2, <2>3 DEF Typed, TypeOK
  <2>5. losses' \in losses .. MaxLoss /\ cancels' \in 0 .. cancels /\ Reaches(Wds(f))
    BY <1>1, RequestEffect
  <2> QED BY <2>2, <2>3, <2>4, <2>5 DEF Reaches
<1>2. CASE /\ e = "refused"
           /\ IF Reaches(Wds(f)) /\ ~ CanDial(f)
                THEN UNCHANGED lossVars
                ELSE Request("start", Wds(f), e)
           /\ UNCHANGED <<callVars, event_fd, handle>>
  <2>1. losses' \in losses .. MaxLoss /\ cancels' \in 0 .. cancels
    BY <1>2, RequestEffect, ConstAssumption, SMTT(30) DEF lossVars, Typed, TypeOK
  <2>2. Grown(event_fd, event_fd')  BY <1>2, GrownSame DEF Typed, TypeOK, Event
  <2> QED BY <1>2, <2>1, <2>2 DEF callVars, Typed, TypeOK, LoopInv
<1>3. CASE /\ e \in {"lost", "cancelled"}
           /\ Request("start", Wds(f), e)
           /\ call' \in {call} \cup {c \in {[call EXCEPT ![f] = Dialing]} :
                                        Reaches(Wds(f)) /\ CanDial(f)}
           /\ UNCHANGED <<lastAddr, event_fd, handle>>
  <2>1. losses' \in losses .. MaxLoss /\ cancels' \in 0 .. cancels
    BY <1>3, RequestEffect
  <2>2. Grown(event_fd, event_fd')  BY <1>3, GrownSame DEF Typed, TypeOK, Event
  <2>3. call' = call \/ (call' = [call EXCEPT ![f] = -1] /\ Reaches(Wds(f)))
    BY <1>3 DEF Dialing
  <2>4. call' \in [Families -> -1 .. MaxAddr] /\ \A g \in Families : g # f => call'[g] = call[g]
    <3>1. call \in [Families -> -1 .. MaxAddr] /\ -1 \in -1 .. MaxAddr /\ MaxAddr \in Int
      BY ConstAssumption DEF Typed, TypeOK
    <3>2. CASE call' = call  BY <3>1, <3>2
    <3>3. CASE call' = [call EXCEPT ![f] = -1]
      <4>1. \A g \in Families : call'[g] = IF g = f THEN -1 ELSE call[g]  BY <3>1, <3>3
      <4>2. call' = [g \in Families |-> IF g = f THEN -1 ELSE call[g]]  BY <3>1, <3>3
      <4> QED BY <3>1, <4>1, <4>2
    <3> QED BY <2>3, <3>2, <3>3
  <2> QED BY <1>3, <2>1, <2>2, <2>3, <2>4 DEF Reaches, Typed, TypeOK, LoopInv
<1> QED BY <1>1, <1>2, <1>3 DEF SetupDataCall

\* requestDeactivateDefaultPDP ends a call or leaves it.
LEMMA DeactivateEffect ==
  ASSUME Typed, NEW f \in Families, NEW e \in Results, DeactivateDefaultPDP(f, e)
  PROVE  /\ losses' \in losses .. MaxLoss /\ cancels' \in 0 .. cancels
         /\ handle' \in [Families -> 0 .. MaxAddr]
         /\ call' \in [Families -> -1 .. MaxAddr]
         /\ \A g \in Families : call'[g] \in {call[g], Down}
         /\ lastAddr' \in 0 .. MaxAddr /\ Grown(event_fd, event_fd')
<1>1. CASE handle[f] = 0
  <2>1. Grown(event_fd, event_fd')
    BY <1>1, GrownSame DEF DeactivateDefaultPDP, Typed, TypeOK, Event
  <2> QED BY <1>1, <2>1, ConstAssumption
          DEF DeactivateDefaultPDP, lossVars, callVars, Typed, TypeOK, LoopInv
<1>2. CASE handle[f] # 0
  <2>1. losses' \in losses .. MaxLoss /\ cancels' \in 0 .. cancels
    BY <1>2, RequestEffect DEF DeactivateDefaultPDP
  <2>2. handle' \in [Families -> 0 .. MaxAddr]
    <3>1. handle' = handle \/ handle' = [handle EXCEPT ![f] = 0]
      BY <1>2 DEF DeactivateDefaultPDP
    <3>2. handle \in [Families -> 0 .. MaxAddr] /\ 0 \in 0 .. MaxAddr /\ MaxAddr \in Int
      BY ConstAssumption DEF Typed, TypeOK
    <3> QED BY <3>1, <3>2, ExceptType
  <2>3. PICK acts \in BOOLEAN : CallsBecome(IF acts THEN [call EXCEPT ![f] = Down] ELSE call)
    BY <1>2 DEF DeactivateDefaultPDP
  <2> DEFINE c == IF acts THEN [call EXCEPT ![f] = Down] ELSE call
  <2>4. c \in [Families -> -1 .. MaxAddr] /\ \A g \in Families : c[g] \in {call[g], Down}
    BY ConstAssumption DEF Down, Typed, TypeOK
  <2>5. call' = c /\ lastAddr' \in 0 .. MaxAddr /\ Grown(event_fd, event_fd')
    BY <2>3, <2>4, CallsBecomeEffect
  <2> QED BY <2>1, <2>2, <2>4, <2>5
<1> QED BY <1>1, <1>2

\* requestSetOperatingMode ends all calls or leaves them.
LEMMA ModeEffect ==
  ASSUME Typed, NEW on \in BOOLEAN, NEW e \in Results, SetOperatingMode(e, on)
  PROVE  /\ losses' \in losses .. MaxLoss /\ cancels' \in 0 .. cancels
         /\ radio' \in BOOLEAN
         /\ call' \in [Families -> -1 .. MaxAddr]
         /\ \A g \in Families : call'[g] \in {call[g], Down}
         /\ Grown(event_fd, event_fd')
<1>1. losses' \in losses .. MaxLoss /\ cancels' \in 0 .. cancels
  BY RequestEffect DEF SetOperatingMode
<1>2. (radio' = radio \/ radio' = on) /\ (call' = call \/ call' = [f \in Families |-> Down])
  BY DEF SetOperatingMode
<1>3. radio' \in BOOLEAN  BY <1>2 DEF Typed, LoopInv
<1>4. /\ call' \in [Families -> -1 .. MaxAddr]
      /\ \A g \in Families : call'[g] \in {call[g], Down}
  BY <1>2, ConstAssumption DEF Down, Typed, TypeOK
<1>5. Grown(event_fd, event_fd')
  <2>1. PICK c, n \in {<<>>, <<"CALL">>, <<"NET">>} : event_fd' = event_fd \o c \o n
    BY DEF SetOperatingMode
  <2>2. event_fd \in Seq(Event)  BY DEF Typed, TypeOK, Event
  <2>3. Grown(event_fd, event_fd \o c)  BY <2>2, GrownConcat
  <2>4. event_fd \o c \in Seq(Event)  BY <2>3 DEF Grown
  <2>5. Grown(event_fd \o c, event_fd')  BY <2>1, <2>4, GrownConcat
  <2> QED BY <2>3, <2>5, GrownTwice
<1> QED BY <1>1, <1>3, <1>4, <1>5

\* Client ids are asked for or released: with no request lost, all of them.
LEMMA ClientsFailEffect ==
  ASSUME Typed, NEW failed \in SUBSET Services, ClientsFail(failed)
  PROVE  losses' \in losses .. MaxLoss /\ (losses' = 0 /\ opened => failed = {})
<1>1. IsFiniteSet(Services)
  <2>1. IsFiniteSet({"WDS", "DMS", "NAS", "WDS_IPV6"})
    <3>1. IsFiniteSet({"WDS"}) /\ IsFiniteSet({"DMS"}) /\ IsFiniteSet({"NAS"})
          /\ IsFiniteSet({"WDS_IPV6"})
      BY FS_Singleton
    <3>2. IsFiniteSet({"WDS"} \cup {"DMS"}) /\ IsFiniteSet({"NAS"} \cup {"WDS_IPV6"})
      BY <3>1, FS_Union
    <3>3. IsFiniteSet(({"WDS"} \cup {"DMS"}) \cup ({"NAS"} \cup {"WDS_IPV6"}))
      BY <3>2, FS_Union
    <3>4. ({"WDS"} \cup {"DMS"}) \cup ({"NAS"} \cup {"WDS_IPV6"})
          = {"WDS", "DMS", "NAS", "WDS_IPV6"}
      OBVIOUS
    <3> QED BY <3>3, <3>4
  <2> QED BY <2>1, FS_Subset DEF Services
<1>2. Cardinality(failed) \in Nat /\ (Cardinality(failed) = 0 => failed = {})
  BY <1>1, FS_Subset, FS_CardinalityType, FS_EmptySet
<1> QED BY <1>2, ConstAssumption DEF ClientsFail, Typed, TypeOK
---------------------------------------------------------------------------
(* Types *)

\* A queue gets longer.
LEMMA Queued ==
  ASSUME NEW S, NEW s \in Seq(S), NEW g \in S
  PROVE  Append(s, g) \in Seq(S) /\ Append(s, g) # <<>>
<1>1. Append(s, g) \in Seq(S) /\ Len(Append(s, g)) = Len(s) + 1 /\ Len(s) \in Nat  OBVIOUS
<1>2. Len(Append(s, g)) # 0  BY <1>1
<1> QED BY <1>1, <1>2

\* A signal is queued or read.
LEMMA SignalQueue ==
  ASSUME NEW s \in Seq({"USR1", "USR2", "TERM"})
  PROVE  /\ \A g \in {"USR1", "USR2", "TERM"} :
              Append(s, g) \in Seq({"USR1", "USR2", "TERM"}) /\ Append(s, g) # <<>>
         /\ s # <<>> => /\ Tail(s) \in Seq({"USR1", "USR2", "TERM"})
                        /\ Head(s) \in {"USR1", "USR2", "TERM"}
<1>1. \A g \in {"USR1", "USR2", "TERM"} :
        Append(s, g) \in Seq({"USR1", "USR2", "TERM"}) /\ Append(s, g) # <<>>
  BY Queued
<1>2. s # <<>> => /\ Tail(s) \in Seq({"USR1", "USR2", "TERM"})
                  /\ Head(s) \in {"USR1", "USR2", "TERM"}
  OBVIOUS
<1> QED BY <1>1, <1>2

\* The start-up code keeps the types.
LEMMA TypedStart ==
  ASSUME Typed, NEW e \in Results,
         Detect \/ InitFails \/ QmiWwanInit \/ RegFirst(e) \/ QueryFirst(e) \/ LinkAddress(e)
  PROVE  Typed'
<1> USE ConstAssumption
        DEF Typed, TypeOK, LoopInv, loopVars, connVars, linkVars, netVars, callVars, lossVars,
            boundVars
<1>1. CASE Detect
  <2>1. opened' \in BOOLEAN  BY <1>1 DEF Detect
  <2>2. opened' => plugged'
    <3>1. CASE plugged /\ opened' = TRUE  BY <1>1, <3>1 DEF Detect
    <3>2. CASE opened' = opened  BY <1>1, <3>2 DEF Detect
    <3> QED BY <1>1, <3>1, <3>2 DEF Detect
  <2>3. pc' \in {"init", "done"}  BY <1>1 DEF Detect
  <2>4. UNCHANGED <<loopVars, signal_fd, event_fd, connVars, linkVars, clients,
                    plugged, network, radio, callVars, lossVars, boundVars>>
    BY <1>1 DEF Detect
  <2>5. TypeOK'  BY <2>2, <2>4
  <2>6. LoopInv'  BY <2>1, <2>3, <2>4
  <2> QED BY <2>5, <2>6
<1>2. CASE InitFails  BY <1>2 DEF InitFails
<1>3. CASE QmiWwanInit
  <2>1. PICK missing \in SUBSET Services :
          ClientsFail(missing) /\ clients' = Services \ missing
    BY <1>3 DEF QmiWwanInit
  <2>2. losses' \in losses .. MaxLoss  BY <2>1, ClientsFailEffect
  <2> QED BY <1>3, <2>1, <2>2 DEF QmiWwanInit
<1>4. CASE RegFirst(e)
  <2>1. losses' \in losses .. MaxLoss /\ cancels' \in 0 .. cancels /\ PSAttachedState' \in BOOLEAN
    BY <1>4, RegistrationEffect DEF RegFirst
  <2> QED BY <1>4, <2>1 DEF RegFirst
<1>5. CASE QueryFirst(e)
  <2>1. /\ losses' \in losses .. MaxLoss /\ cancels' \in 0 .. cancels
        /\ IPv4ConnectionStatus' \in {"UNKNOWN", "DISCONNECTED", "OTHER", "CONNECTED"}
        /\ handle' \in [Families -> 0 .. MaxAddr]
    BY <1>5, QueryEffect DEF QueryFirst
  <2>2. /\ pc' \in {"poll", "linkAddress"}
        /\ s_link' \in {0, 1} /\ dhcp' \in 0 .. MaxAddr /\ Address' = Address
    BY <1>5 DEF QueryFirst, LinkUp, LinkDown
  <2>3. signal_fd' \in Seq({"USR1", "USR2", "TERM"})
    BY <1>5, SignalQueue DEF QueryFirst
  <2>4. boot' \in BOOLEAN  BY <1>5 DEF QueryFirst
  <2>5. UNCHANGED <<ready, alarm, main_loop, event_fd, PSAttachedState, clients,
                    netVars, callVars, boundVars>>
    BY <1>5 DEF QueryFirst
  <2> QED BY <2>1, <2>2, <2>3, <2>4, <2>5
<1>6. CASE LinkAddress(e)
  <2>1. PICK a \in 0 .. MaxAddr, ok \in BOOLEAN :
          GetIPAddress(e, a, ok) /\ Address' = a /\ dhcp' = a
    BY <1>6 DEF LinkAddress
  <2>2. losses' \in losses .. MaxLoss /\ cancels' \in 0 .. cancels
    BY <2>1, GetIPAddressEffect
  <2>3. signal_fd' \in Seq({"USR1", "USR2", "TERM"})
    BY <1>6, SignalQueue DEF LinkAddress
  <2>4. boot' \in BOOLEAN /\ pc' = "poll"  BY <1>6 DEF LinkAddress
  <2>5. UNCHANGED <<ready, alarm, main_loop, event_fd, connVars, s_link, clients,
                    netVars, callVars, boundVars>>
    BY <1>6 DEF LinkAddress
  <2> QED BY <2>1, <2>2, <2>3, <2>4, <2>5
<1> QED BY <1>1, <1>2, <1>3, <1>4, <1>5, <1>6

\* The poll loop and SIGUSR1 keep the types.
LEMMA TypedDial ==
  ASSUME Typed, NEW e \in Results,
         \/ Poll \/ ReadSignal \/ Usr1Reset \/ Usr1Alarm
         \/ Usr1Query(e) \/ Usr1Reg(e) \/ Usr1Dial(e) \/ Usr1Dial6(e)
         \/ RadioOff(e) \/ RadioOn(e)
  PROVE  Typed'
<1> USE ConstAssumption
        DEF Typed, TypeOK, LoopInv, loopVars, connVars, linkVars, netVars, callVars, lossVars,
            boundVars, AfterSignal
<1>1. CASE Poll
  <2>1. CASE signal_fd = <<>> /\ event_fd = <<>>
    <3>1. signal_fd' \in Seq({"USR1", "USR2", "TERM"})
      <4>1. signal_fd' = <<"USR2">>  BY <1>1, <2>1 DEF Poll
      <4> QED BY <4>1
    <3>2. /\ pc' = pc /\ pc = "poll" /\ ready' = ready /\ event_fd' = event_fd
          /\ UNCHANGED <<boot, alarm, main_loop, connVars, linkVars, clients,
                         netVars, callVars, lossVars, boundVars>>
      BY <1>1, <2>1 DEF Poll
    <3> QED BY <3>1, <3>2
  <2>2. CASE ~ (signal_fd = <<>> /\ event_fd = <<>>)
    <3>1. /\ ready' \subseteq {"signal", "event"}
          /\ "event" \in ready' <=> event_fd # <<>>
          /\ pc' = IF signal_fd # <<>> THEN "signal" ELSE "event"
          /\ signal_fd' = signal_fd
      BY <1>1, <2>2 DEF Poll
    <3> QED BY <1>1, <2>2, <3>1 DEF Poll
  <2> QED BY <2>1, <2>2
<1>2. CASE ReadSignal
  <2>1. signal_fd # <<>>  BY <1>2 DEF ReadSignal
  <2>2. signal_fd' \in Seq({"USR1", "USR2", "TERM"}) /\ Head(signal_fd) \in {"USR1", "USR2", "TERM"}
    BY <1>2, <2>1, SignalQueue DEF ReadSignal
  <2>3. pc' \in {"usr1Query", "usr2Query", "usr2Redial", "termStop", "termDown"}
    BY <1>2, <2>2 DEF ReadSignal
  <2>4. alarm' \in BOOLEAN  BY <1>2 DEF ReadSignal
  <2>5. UNCHANGED <<boot, ready, main_loop, event_fd, connVars, linkVars, clients,
                    netVars, callVars, lossVars, boundVars>>
    BY <1>2 DEF ReadSignal
  <2> QED BY <2>2, <2>3, <2>4, <2>5
<1>3. CASE Usr1Reset  BY <1>3 DEF Usr1Reset
<1>4. CASE Usr1Alarm  BY <1>4 DEF Usr1Alarm
<1>5. CASE Usr1Query(e)
  <2>1. /\ losses' \in losses .. MaxLoss /\ cancels' \in 0 .. cancels
        /\ IPv4ConnectionStatus' \in {"UNKNOWN", "DISCONNECTED", "OTHER", "CONNECTED"}
        /\ handle' \in [Families -> 0 .. MaxAddr]
    BY <1>5, QueryEffect DEF Usr1Query
  <2> QED BY <1>5, <2>1 DEF Usr1Query, LinkDown
<1>6. CASE Usr1Reg(e)
  <2>1. losses' \in losses .. MaxLoss /\ cancels' \in 0 .. cancels /\ PSAttachedState' \in BOOLEAN
    BY <1>6, RegistrationEffect DEF Usr1Reg
  <2> QED BY <1>6, <2>1 DEF Usr1Reg
<1>7. CASE Usr1Dial(e)
  <2>1. /\ losses' \in losses .. MaxLoss /\ cancels' \in 0 .. cancels
        /\ handle' \in [Families -> 0 .. MaxAddr]
        /\ call' \in [Families -> -1 .. MaxAddr]
        /\ lastAddr' \in 0 .. MaxAddr /\ Grown(event_fd, event_fd')
    BY <1>7, FamilyType, SetupEffect DEF Usr1Dial
  <2>2. pc' \in {"usr1Again", "usr1Fail", "usr1Dial6", AfterSignal}
    BY <1>7 DEF Usr1Dial, Results
  <2>3. UNCHANGED <<loopVars, signal_fd, IPv4ConnectionStatus, PSAttachedState,
                    linkVars, clients, netVars, boundVars>>
    BY <1>7 DEF Usr1Dial
  <2> QED BY <2>1, <2>2, <2>3 DEF Grown, Event
<1>8. CASE Usr1Dial6(e)
  <2>1. /\ losses' \in losses .. MaxLoss /\ cancels' \in 0 .. cancels
        /\ handle' \in [Families -> 0 .. MaxAddr]
        /\ call' \in [Families -> -1 .. MaxAddr]
        /\ lastAddr' \in 0 .. MaxAddr /\ Grown(event_fd, event_fd')
    BY <1>8, FamilyType, SetupEffect DEF Usr1Dial6
  <2> QED BY <1>8, <2>1 DEF Usr1Dial6, Grown, Event
<1>9. CASE RadioOff(e)
  <2>1. /\ losses' \in losses .. MaxLoss /\ cancels' \in 0 .. cancels /\ radio' \in BOOLEAN
        /\ call' \in [Families -> -1 .. MaxAddr] /\ Grown(event_fd, event_fd')
    BY <1>9, ModeEffect DEF RadioOff
  <2> QED BY <1>9, <2>1 DEF RadioOff, Grown, Event
<1>10. CASE RadioOn(e)
  <2>1. /\ losses' \in losses .. MaxLoss /\ cancels' \in 0 .. cancels /\ radio' \in BOOLEAN
        /\ call' \in [Families -> -1 .. MaxAddr] /\ Grown(event_fd, event_fd')
    BY <1>10, ModeEffect DEF RadioOn
  <2> QED BY <1>10, <2>1 DEF RadioOn, Grown, Event
<1> QED BY <1>1, <1>2, <1>3, <1>4, <1>5, <1>6, <1>7, <1>8, <1>9, <1>10

\* SIGUSR2 and SIGTERM keep the types.
LEMMA TypedSignals ==
  ASSUME Typed, NEW e \in Results,
         \/ Usr2Query(e) \/ Usr2Check(e) \/ Usr2Stop(e) \/ Usr2Redial
         \/ TermStop(e) \/ TermDown \/ Quit
  PROVE  Typed'
<1> USE ConstAssumption
        DEF Typed, TypeOK, LoopInv, loopVars, connVars, linkVars, netVars, callVars, lossVars,
            boundVars, AfterSignal
<1>1. CASE Usr2Query(e)
  <2>1. /\ losses' \in losses .. MaxLoss /\ cancels' \in 0 .. cancels
        /\ IPv4ConnectionStatus' \in {"UNKNOWN", "DISCONNECTED", "OTHER", "CONNECTED"}
        /\ handle' \in [Families -> 0 .. MaxAddr]
    BY <1>1, QueryEffect DEF Usr2Query
  <2> QED BY <1>1, <2>1 DEF Usr2Query
<1>2. CASE Usr2Check(e)
  <2>1. losses' \in losses .. MaxLoss /\ cancels' \in 0 .. cancels
    BY <1>2, GetIPAddressEffect DEF Usr2Check
  <2> QED BY <1>2, <2>1 DEF Usr2Check
<1>3. CASE Usr2Stop(e)
  <2>1. /\ losses' \in losses .. MaxLoss /\ cancels' \in 0 .. cancels
        /\ handle' \in [Families -> 0 .. MaxAddr]
        /\ call' \in [Families -> -1 .. MaxAddr]
        /\ lastAddr' \in 0 .. MaxAddr /\ Grown(event_fd, event_fd')
    BY <1>3, FamilyType, DeactivateEffect DEF Usr2Stop
  <2> QED BY <1>3, <2>1 DEF Usr2Stop, Grown, Event
<1>4. CASE Usr2Redial  BY <1>4 DEF Usr2Redial
<1>5. CASE TermStop(e)
  <2>1. /\ losses' \in losses .. MaxLoss /\ cancels' \in 0 .. cancels
        /\ handle' \in [Families -> 0 .. MaxAddr]
        /\ call' \in [Families -> -1 .. MaxAddr]
        /\ lastAddr' \in 0 .. MaxAddr /\ Grown(event_fd, event_fd')
    BY <1>5, FamilyType, DeactivateEffect DEF TermStop
  <2> QED BY <1>5, <2>1 DEF TermStop, Grown, Event
<1>6. CASE TermDown
  <2>1. PICK kept \in SUBSET clients :
          /\ ClientsFail(kept)
          /\ CallsBecome([f \in Families |->
               IF f = 4 /\ Reaches("WDS") /\ "WDS" \notin kept THEN Down ELSE call[f]])
    BY <1>6 DEF TermDown
  <2>2. losses' \in losses .. MaxLoss  BY <2>1, ClientsFailEffect
  <2> DEFINE c == [f \in Families |->
                     IF f = 4 /\ Reaches("WDS") /\ "WDS" \notin kept THEN Down ELSE call[f]]
  <2>3. c \in [Families -> -1 .. MaxAddr]  BY DEF Down
  <2> HIDE DEF c
  <2>4. call' = c /\ lastAddr' \in 0 .. MaxAddr /\ Grown(event_fd, event_fd')
    BY <2>1, <2>3, CallsBecomeEffect DEF c
  <2> QED BY <1>6, <2>2, <2>3, <2>4 DEF TermDown, LinkDown, Grown, Event
<1>7. CASE Quit  BY <1>7 DEF Quit, LinkDown
<1> QED BY <1>1, <1>2, <1>3, <1>4, <1>5, <1>6, <1>7

\* The events of the QMI thread keep the types.
LEMMA TypedEvents ==
  ASSUME Typed, NEW e \in Results,
         ReadEvent \/ NetReg(e) \/ CallQuery(e) \/ CallQuery6(e) \/ CallLink \/ Gone
  PROVE  Typed'
<1> USE ConstAssumption
        DEF Typed, TypeOK, LoopInv, loopVars, connVars, linkVars, netVars, callVars, lossVars,
            boundVars
<1>1. CASE ReadEvent
  <2>1. Tail(event_fd) \in Seq(Event) /\ Head(event_fd) \in Event
    BY <1>1, GoneTail DEF ReadEvent, Event
  <2>2. pc' \in {"netReg", "callQuery", "gone"}  BY <1>1, <2>1 DEF ReadEvent, Event
  <2>3. ready' = {} /\ event_fd' = Tail(event_fd)  BY <1>1 DEF ReadEvent
  <2>4. UNCHANGED <<boot, alarm, main_loop, signal_fd, connVars, linkVars, clients,
                    netVars, callVars, lossVars, boundVars>>
    BY <1>1 DEF ReadEvent
  <2> QED BY <2>1, <2>2, <2>3, <2>4 DEF Event
<1>2. CASE NetReg(e)
  <2>1. losses' \in losses .. MaxLoss /\ cancels' \in 0 .. cancels /\ PSAttachedState' \in BOOLEAN
    BY <1>2, RegistrationEffect DEF NetReg
  <2> QED BY <1>2, <2>1 DEF NetReg
<1>3. CASE CallQuery(e)
  <2>1. /\ losses' \in losses .. MaxLoss /\ cancels' \in 0 .. cancels
        /\ IPv4ConnectionStatus' \in {"UNKNOWN", "DISCONNECTED", "OTHER", "CONNECTED"}
        /\ handle' \in [Families -> 0 .. MaxAddr]
    BY <1>3, QueryEffect DEF CallQuery
  <2> QED BY <1>3, <2>1 DEF CallQuery
<1>4. CASE CallQuery6(e)
  <2>1. losses' \in losses .. MaxLoss /\ cancels' \in 0 .. cancels
    BY <1>4, RequestEffect DEF CallQuery6
  <2>2. handle' \in [Families -> 0 .. MaxAddr]
    <3>1. handle' = handle \/ handle' = [handle EXCEPT ![6] = 0]  BY <1>4 DEF CallQuery6
    <3>2. handle \in [Families -> 0 .. MaxAddr] /\ 0 \in 0 .. MaxAddr /\ MaxAddr \in Int
      OBVIOUS
    <3> QED BY <3>1, <3>2, ExceptType, FamilyType, SMTT(30)
  <2> QED BY <1>4, <2>1, <2>2 DEF CallQuery6
<1>5. CASE CallLink
  <2>1. /\ pc' \in {"poll", "linkAddress"}
        /\ s_link' \in {0, 1} /\ dhcp' \in 0 .. MaxAddr /\ Address' = Address
    BY <1>5 DEF CallLink, LinkUp, LinkDown
  <2>2. signal_fd' \in Seq({"USR1", "USR2", "TERM"})
    BY <1>5, SignalQueue DEF CallLink
  <2> QED BY <1>5, <2>1, <2>2 DEF CallLink
<1>6. CASE Gone  BY <1>6 DEF Gone, LinkDown
<1> QED BY <1>1, <1>2, <1>3, <1>4, <1>5, <1>6

\* The network hands an address to a call being dialed, or ends it.
LEMMA DialEndsEffect ==
  ASSUME Typed, NEW f \in Families, DialEnds(f)
  PROVE  /\ call' \in [Families -> -1 .. MaxAddr] /\ lastAddr' \in 0 .. MaxAddr
         /\ \A g \in Families : call[g] = Down => call'[g] = Down
         /\ Grown(event_fd, event_fd')
<1>1. PICK c \in {Down, IF f = 4 THEN NextAddr ELSE 1} :
        /\ call' = [call EXCEPT ![f] = c]
        /\ lastAddr' = IF f = 4 /\ c > 0 THEN c ELSE lastAddr
  BY DEF DialEnds
<1>2. c \in 0 .. MaxAddr  BY NextAddrType, ConstAssumption DEF Down
<1>3. call' \in [Families -> -1 .. MaxAddr] /\ lastAddr' \in 0 .. MaxAddr
  BY <1>1, <1>2 DEF Typed, TypeOK, LoopInv
<1>4. \A g \in Families : call[g] = Down => call'[g] = Down
  BY <1>1 DEF DialEnds, Down, Dialing, Typed, TypeOK
<1>5. Grown(event_fd, event_fd')
  BY GrownSame, GrownAppend DEF DialEnds, Indicate, Typed, TypeOK, Event
<1> QED BY <1>3, <1>4, <1>5

\* The network goes: two events at most.
LEMMA NetworkGoesEffect == ASSUME Typed, NetworkGoes PROVE Grown(event_fd, event_fd')
<1>1. event_fd \in Seq(Event)  BY DEF Typed, TypeOK, Event
<1>2. CASE event_fd' = event_fd \o <<"CALL", "NET">>
  <2>1. event_fd' = Append(Append(event_fd, "CALL"), "NET")  BY <1>1, <1>2 DEF Event
  <2>2. Grown(event_fd, Append(event_fd, "CALL"))  BY <1>1, GrownAppend
  <2>3. Grown(Append(event_fd, "CALL"), event_fd')
    BY <2>1, <2>2, GrownAppend DEF Grown
  <2> QED BY <2>2, <2>3, GrownTwice
<1>3. CASE event_fd' = event_fd \o <<"NET">>  BY <1>1, <1>3, GrownConcat
<1>4. CASE event_fd' = event_fd  BY <1>1, <1>4, GrownSame
<1> QED BY <1>2, <1>3, <1>4 DEF NetworkGoes

\* The modem, the network, the clock and the user keep the types.
LEMMA TypedEnv == ASSUME Typed, EnvStep PROVE Typed'
<1> USE ConstAssumption
        DEF Typed, TypeOK, LoopInv, loopVars, connVars, linkVars, netVars, callVars, lossVars,
            boundVars
<1>1. ASSUME NEW f \in Families, DialEnds(f) PROVE Typed'
  <2>1. /\ call' \in [Families -> -1 .. MaxAddr] /\ lastAddr' \in 0 .. MaxAddr
        /\ Grown(event_fd, event_fd')
    BY <1>1, DialEndsEffect
  <2> QED BY <1>1, <2>1 DEF DialEnds, Grown, Event
<1>2. ASSUME NEW f \in Families, CallDrops(f) PROVE Typed'
  <2>1. Grown(event_fd, event_fd')
    BY <1>2, GrownSame, GrownAppend DEF CallDrops, Indicate, Event
  <2>2. call' \in [Families -> -1 .. MaxAddr]  BY <1>2 DEF CallDrops, Down
  <2> QED BY <1>2, <2>1, <2>2 DEF CallDrops, Grown, Event
<1>3. CASE NetworkGoes
  <2>1. Grown(event_fd, event_fd')  BY <1>3, NetworkGoesEffect
  <2>2. call' \in [Families -> -1 .. MaxAddr]  BY <1>3 DEF NetworkGoes, Down
  <2>3. network' \in BOOLEAN  BY <1>3 DEF NetworkGoes
  <2>4. UNCHANGED <<pc, loopVars, signal_fd, connVars, linkVars, clients, opened,
                    plugged, radio, lastAddr, lossVars, boundVars>>
    BY <1>3 DEF NetworkGoes
  <2> QED BY <2>1, <2>2, <2>3, <2>4 DEF Grown, Event
<1>4. CASE NetworkComes
  <2>1. Grown(event_fd, event_fd')
    BY <1>4, GrownSame, GrownAppend DEF NetworkComes, Indicate, Event
  <2> QED BY <1>4, <2>1 DEF NetworkComes, Grown, Event
<1>5. CASE IndicationLost
  <2>1. event_fd \in Seq(Event) /\ Len(event_fd) > 0
    BY <1>5 DEF IndicationLost, Event
  <2>2. event_fd' \in Seq(Event) /\ (Len(event_fd) > 1 => event_fd' # <<>>)
    BY <1>5, <2>1, GoneFront DEF IndicationLost
  <2> QED BY <1>5, <2>2 DEF IndicationLost, Event
<1>6. CASE Unplug
  <2>1. event_fd' \in Seq(Event) /\ (event_fd # <<>> => event_fd' # <<>>)
    <3>1. event_fd \in Seq(Event) /\ "DISCONNECTED" \in Event  BY DEF Event
    <3>2. CASE event_fd' = event_fd  BY <3>1, <3>2
    <3>3. CASE event_fd' = Append(event_fd, "DISCONNECTED")  BY <3>1, <3>3, Queued
    <3> QED BY <1>6, <3>2, <3>3 DEF Unplug, Indicate
  <2>2. call' \in [Families -> -1 .. MaxAddr]  BY <1>6 DEF Unplug, Down
  <2>3. /\ opened' \in BOOLEAN /\ plugged' \in BOOLEAN /\ radio' \in BOOLEAN
        /\ ~ opened'
    BY <1>6 DEF Unplug
  <2>4. /\ cancels' = 0
        /\ UNCHANGED <<pc, loopVars, signal_fd, connVars, linkVars, clients, network,
                       lastAddr, losses, boundVars>>
    BY <1>6 DEF Unplug
  <2> QED BY <2>1, <2>2, <2>3, <2>4 DEF Event
<1>7. CASE Replug  BY <1>7 DEF Replug
<1>8. CASE AlarmRings
  <2>1. signal_fd' \in Seq({"USR1", "USR2", "TERM"}) /\ signal_fd' # <<>>
    BY <1>8, SignalQueue DEF AlarmRings
  <2>2. alarm' \in BOOLEAN  BY <1>8 DEF AlarmRings
  <2>3. UNCHANGED <<pc, boot, ready, main_loop, event_fd, connVars, linkVars,
                    clients, netVars, callVars, lossVars, boundVars>>
    BY <1>8 DEF AlarmRings
  <2> QED BY <2>1, <2>2, <2>3
<1>9. CASE Signal
  <2>1. signal_fd' \in Seq({"USR1", "USR2", "TERM"}) /\ signal_fd' # <<>>
    BY <1>9, SignalQueue DEF Signal
  <2>2. main_loop' \in BOOLEAN  BY <1>9 DEF Signal
  <2>3. sigs' \in 0 .. MaxSig /\ cancels' \in 0 .. sigs'  BY <1>9 DEF Signal
  <2>4. UNCHANGED <<pc, boot, ready, alarm, event_fd, connVars, linkVars, clients,
                    netVars, callVars, losses>>
    BY <1>9 DEF Signal
  <2>5. TypeOK'  BY <2>1, <2>2, <2>3, <2>4
  <2>6. LoopInv'  BY <2>1, <2>3, <2>4
  <2> QED BY <2>5, <2>6
<1>10. CASE CancelsNothing  BY <1>10 DEF CancelsNothing
<1> QED BY <1>1, <1>2, <1>3, <1>4, <1>5, <1>6, <1>7, <1>8, <1>9, <1>10 DEF EnvStep
---------------------------------------------------------------------------
(* The link, the queue and the calls *)

\* Every step keeps the types.
LEMMA TypedStep == ASSUME Typed, [Next]_vars PROVE Typed'
<1>1. CASE \E e \in Results :
             \/ Detect \/ InitFails \/ QmiWwanInit \/ RegFirst(e) \/ QueryFirst(e) \/ LinkAddress(e)
  BY <1>1, TypedStart
<1>2. CASE \E e \in Results :
             \/ Poll \/ ReadSignal \/ Usr1Reset \/ Usr1Alarm
             \/ Usr1Query(e) \/ Usr1Reg(e) \/ Usr1Dial(e) \/ Usr1Dial6(e)
             \/ RadioOff(e) \/ RadioOn(e)
  BY <1>2, TypedDial
<1>3. CASE \E e \in Results :
             \/ Usr2Query(e) \/ Usr2Check(e) \/ Usr2Stop(e) \/ Usr2Redial
             \/ TermStop(e) \/ TermDown \/ Quit
  BY <1>3, TypedSignals
<1>4. CASE \E e \in Results :
             \/ ReadEvent \/ NetReg(e) \/ CallQuery(e) \/ CallQuery6(e) \/ CallLink \/ Gone
  BY <1>4, TypedEvents
<1>5. CASE EnvStep  BY <1>5, TypedEnv
<1>6. CASE UNCHANGED vars
  BY <1>6 DEF vars, Typed, TypeOK, LoopInv, loopVars, connVars, linkVars, netVars, callVars,
              lossVars, boundVars
<1>7. "answered" \in Results  BY DEF Results
<1> QED BY <1>1, <1>2, <1>3, <1>4, <1>5, <1>6, <1>7 DEF Next, MainStep, Terminated

\* What becomes of a call: it stays, it ends, or a modem that is open starts it
\* for a family that main may dial.
CallsFollow ==
  \A f \in Families :
    call'[f] # Down => \/ call[f] # Down
                       \/ opened /\ (f = 6 => Dual) /\ pc' \notin {"quit", "done"}

\* A step that leaves the modem open or away and main in the poll loop, or
\* where it was, keeps the queue and the calls in order.
LEMMA Steady ==
  ASSUME IInv, Typed', opened' = opened, clients' = clients, losses' >= losses,
         Grown(event_fd, event_fd'), CallsFollow,
         pc' = pc \/ /\ pc \notin {"detect", "init", "quit", "done"}
                     /\ pc' \notin {"gone", "detect", "init", "quit", "done"}
  PROVE  GoneInv' /\ CallInv'
<1>1. GoneInv'  BY DEF IInv, GoneInv, Grown
<1>2. CallInv'
  <2>1. losses' = 0 => losses = 0  BY DEF IInv, Typed, TypeOK
  <2>2. ~ opened' => NoCalls'  BY DEF IInv, CallInv, CallsFollow, NoCalls
  <2>3. call'[6] # Down => Dual  BY FamilyType DEF IInv, CallInv, CallsFollow
  <2>4. losses' = 0 /\ pc' \in {"quit", "done"} => call'[4] = Down
    BY <2>1, FamilyType DEF IInv, CallInv, CallsFollow
  <2>5. losses' = 0 /\ opened' /\ pc' \notin {"detect", "init", "quit", "done"}
          => clients' = Services
    BY <2>1 DEF IInv, CallInv
  <2>6. Services' = Services  BY DEF Services
  <2> QED BY <2>2, <2>3, <2>4, <2>5, <2>6 DEF CallInv
<1> QED BY <1>1, <1>2

\* The link is left alone.
LEMMA LinkSame ==
  ASSUME IInv, UNCHANGED linkVars, pc' = pc \/ pc' \notin {"linkAddress", "detect", "init", "done"}
  PROVE  LinkInv'
BY DEF IInv, LinkInv, linkVars

\* The start-up code.
LEMMA StartStep ==
  ASSUME IInv, Typed', NEW e \in Results,
         Detect \/ InitFails \/ QmiWwanInit \/ RegFirst(e) \/ QueryFirst(e) \/ LinkAddress(e)
  PROVE  IInv'
<1> USE DEF loopVars, connVars, linkVars, netVars, callVars, lossVars, boundVars
<1>0. Typed /\ event_fd \in Seq(Event) /\ losses \in Nat
  BY SMTT(30) DEF IInv, Typed, TypeOK, Event
<1>1. CASE Detect
  <2>1. LinkInv'  BY <1>1 DEF Detect, IInv, LinkInv
  <2>2. NoneGone(event_fd) /\ ~ opened /\ pc = "detect" /\ event_fd' = event_fd
        /\ pc' \in {"init", "done"}
    BY <1>1 DEF Detect, IInv, GoneInv
  <2>3. GoneInv'
    <3>1. NoneGone(event_fd')  BY <2>2
    <3>2. OneGone(event_fd')  BY <2>2 DEF IInv, GoneInv
    <3> QED BY <2>2, <3>1, <3>2 DEF GoneInv
  <2>4. call' = call /\ NoCalls /\ NoCalls'
    BY <1>1, <2>2 DEF Detect, IInv, CallInv, NoCalls
  <2>5. CallInv'
    BY <2>2, <2>4, FamilyType DEF CallInv, NoCalls
  <2> QED BY <2>1, <2>3, <2>5 DEF IInv
<1>2. CASE InitFails
  <2>1. LinkInv'  BY <1>2 DEF InitFails, IInv, LinkInv
  <2>2. event_fd' = event_fd /\ opened' = opened /\ call' = call /\ pc' = "done"
    BY <1>2 DEF InitFails
  <2>3. GoneInv'  BY <2>2 DEF IInv, GoneInv, NoneGone, OneGone
  <2>4. ~ opened' => NoCalls'  BY <2>2 DEF IInv, CallInv, NoCalls
  <2>5. losses' = 0 => call'[4] = Down
    BY <1>0, <1>2, <2>2, <2>4, FamilyType DEF InitFails, NoCalls
  <2>6. call'[6] # Down => Dual  BY <2>2 DEF IInv, CallInv
  <2> QED BY <2>1, <2>2, <2>3, <2>4, <2>5, <2>6 DEF IInv, CallInv
<1>3. CASE QmiWwanInit
  <2>1. LinkInv'  BY <1>3 DEF QmiWwanInit, IInv, LinkInv
  <2>2. event_fd' = event_fd /\ opened' = opened /\ call' = call /\ pc' = "regFirst"
    BY <1>3 DEF QmiWwanInit
  <2>3. GoneInv'  BY <2>2 DEF IInv, GoneInv, NoneGone, OneGone
  <2>4. PICK missing \in SUBSET Services :
          ClientsFail(missing) /\ clients' = Services \ missing
    BY <1>3 DEF QmiWwanInit
  <2>5. losses' = 0 /\ opened => missing = {}  BY <1>0, <2>4, ClientsFailEffect
  <2>6. losses' = 0 /\ opened' => clients' = Services'  BY <2>2, <2>4, <2>5 DEF Services
  <2>7. (~ opened' => NoCalls') /\ (call'[6] # Down => Dual)
    BY <2>2 DEF IInv, CallInv, NoCalls
  <2> QED BY <2>1, <2>2, <2>3, <2>6, <2>7 DEF IInv, CallInv
<1>4. CASE RegFirst(e)
  <2>1. losses' >= losses  BY <1>0, <1>4, RegistrationEffect DEF RegFirst
  <2>2. Grown(event_fd, event_fd') /\ CallsFollow
    BY <1>0, <1>4, GrownSame DEF RegFirst, CallsFollow
  <2>3. GoneInv' /\ CallInv'  BY <1>4, <2>1, <2>2, Steady DEF RegFirst
  <2>4. LinkInv'  BY <1>4, LinkSame DEF RegFirst
  <2> QED BY <2>3, <2>4 DEF IInv
<1>5. CASE QueryFirst(e)
  <2>1. losses' >= losses  BY <1>0, <1>5, QueryEffect DEF QueryFirst
  <2>2. Grown(event_fd, event_fd') /\ CallsFollow
    BY <1>0, <1>5, GrownSame DEF QueryFirst, CallsFollow
  <2>3. pc' \in {"poll", "linkAddress"}  BY <1>5 DEF QueryFirst, LinkUp
  <2>4. GoneInv' /\ CallInv'  BY <1>5, <2>1, <2>2, <2>3, Steady DEF QueryFirst
  <2>5. LinkInv'  BY <1>5 DEF QueryFirst, LinkUp, LinkDown, IInv, LinkInv, Typed, TypeOK
  <2> QED BY <2>4, <2>5 DEF IInv
<1>6. CASE LinkAddress(e)
  <2>1. losses' >= losses  BY <1>0, <1>6, GetIPAddressEffect DEF LinkAddress
  <2>2. Grown(event_fd, event_fd') /\ CallsFollow
    BY <1>0, <1>6, GrownSame DEF LinkAddress, CallsFollow
  <2>3. GoneInv' /\ CallInv'  BY <1>6, <2>1, <2>2, Steady DEF LinkAddress
  <2>4. LinkInv'  BY <1>6 DEF LinkAddress, IInv, LinkInv
  <2> QED BY <2>3, <2>4 DEF IInv
<1> QED BY <1>1, <1>2, <1>3, <1>4, <1>5, <1>6

\* The poll loop and SIGUSR1.
LEMMA DialStep ==
  ASSUME IInv, Typed', NEW e \in Results,
         \/ Poll \/ ReadSignal \/ Usr1Reset \/ Usr1Alarm
         \/ Usr1Query(e) \/ Usr1Reg(e) \/ Usr1Dial(e) \/ Usr1Dial6(e)
         \/ RadioOff(e) \/ RadioOn(e)
  PROVE  IInv'
<1> USE DEF loopVars, connVars, linkVars, netVars, callVars, lossVars, boundVars
<1>0. Typed /\ event_fd \in Seq(Event) /\ losses \in Nat /\ signal_fd \in Seq({"USR1", "USR2", "TERM"})
  BY SMTT(30) DEF IInv, Typed, TypeOK, Event
<1>1. CASE Poll \/ ReadSignal \/ Usr1Reset \/ Usr1Alarm
  <2>1. /\ UNCHANGED <<event_fd, opened, clients, losses, call, linkVars>>
        /\ pc \in {"poll", "signal", "usr1Fail"}
    BY <1>1 DEF Poll, ReadSignal, Usr1Reset, Usr1Alarm
  <2>2. pc' \in {"poll", "signal", "event", "usr1Query", "usr2Query", "usr2Redial", "termStop",
                 "termDown", "radioOff"}
    <3>1. CASE ReadSignal
      <4>1. Head(signal_fd) \in {"USR1", "USR2", "TERM"}
        BY <1>0, <3>1, SignalQueue DEF ReadSignal, Typed, LoopInv
      <4> QED BY <3>1, <4>1 DEF ReadSignal
    <3> QED BY <1>1, <3>1 DEF Poll, Usr1Reset, Usr1Alarm, AfterSignal
  <2>3. Grown(event_fd, event_fd') /\ CallsFollow /\ losses' >= losses
    BY <1>0, <2>1, GrownSame DEF CallsFollow
  <2>4. GoneInv' /\ CallInv'  BY <2>1, <2>2, <2>3, Steady
  <2>5. LinkInv'  BY <2>1, <2>2, LinkSame
  <2> QED BY <2>4, <2>5 DEF IInv
<1>2. CASE Usr1Query(e)
  <2>1. losses' >= losses  BY <1>0, <1>2, QueryEffect DEF Usr1Query
  <2>2. Grown(event_fd, event_fd') /\ CallsFollow
    BY <1>0, <1>2, GrownSame DEF Usr1Query, CallsFollow
  <2>3. pc' \in {"usr1Reg", "event", "poll"}  BY <1>2 DEF Usr1Query, AfterSignal
  <2>4. GoneInv' /\ CallInv'  BY <1>2, <2>1, <2>2, <2>3, Steady DEF Usr1Query
  <2>5. LinkInv'
    BY <1>2, <2>3 DEF Usr1Query, LinkDown, IInv, LinkInv, Typed, TypeOK
  <2> QED BY <2>4, <2>5 DEF IInv
<1>3. CASE Usr1Reg(e)
  <2>1. losses' >= losses  BY <1>0, <1>3, RegistrationEffect DEF Usr1Reg
  <2>2. Grown(event_fd, event_fd') /\ CallsFollow
    BY <1>0, <1>3, GrownSame DEF Usr1Reg, CallsFollow
  <2>3. pc' \in {"usr1Dial", "usr1Fail"}  BY <1>3 DEF Usr1Reg
  <2>4. GoneInv' /\ CallInv'  BY <1>3, <2>1, <2>2, <2>3, Steady DEF Usr1Reg
  <2>5. LinkInv'  BY <1>3, <2>3, LinkSame DEF Usr1Reg
  <2> QED BY <2>4, <2>5 DEF IInv
<1>4. CASE Usr1Dial(e) \/ Usr1Dial6(e)
  <2>1. PICK f \in Families : SetupDataCall(f, e)
    BY <1>4, FamilyType DEF Usr1Dial, Usr1Dial6
  <2>2. /\ UNCHANGED <<opened, clients, linkVars>>
        /\ pc \in {"usr1Dial", "usr1Again", "usr1Dial6"}
    BY <1>4 DEF Usr1Dial, Usr1Dial6
  <2>3. pc' \in {"usr1Again", "usr1Fail", "usr1Dial6", "event", "poll"}
    BY <1>4 DEF Usr1Dial, Usr1Dial6, Results, AfterSignal
  <2>4. /\ losses' >= losses /\ Grown(event_fd, event_fd')
        /\ call' # call => opened /\ Wds(f) \in clients
        /\ \A g \in Families : g # f => call'[g] = call[g]
    BY <1>0, <2>1, SetupEffect
  <2>5. Wds(f) \in clients /\ f = 6 => Dual
    BY <1>0 DEF Typed, TypeOK, Services, Wds
  <2>6. CallsFollow  BY <2>3, <2>4, <2>5 DEF CallsFollow
  <2>7. GoneInv' /\ CallInv'  BY <2>2, <2>3, <2>4, <2>6, Steady
  <2>8. LinkInv'  BY <2>2, <2>3, LinkSame
  <2> QED BY <2>7, <2>8 DEF IInv
<1>5. CASE RadioOff(e) \/ RadioOn(e)
  <2>1. PICK on \in BOOLEAN : SetOperatingMode(e, on)
    BY <1>5 DEF RadioOff, RadioOn
  <2>2. UNCHANGED <<opened, clients, linkVars>> /\ pc \in {"radioOff", "radioOn"}
    BY <1>5 DEF RadioOff, RadioOn
  <2>3. pc' \in {"radioOn", "event", "poll"}
    BY <1>5 DEF RadioOff, RadioOn, AfterSignal
  <2>4. /\ losses' >= losses /\ Grown(event_fd, event_fd')
        /\ \A g \in Families : call'[g] \in {call[g], Down}
    BY <1>0, <2>1, ModeEffect
  <2>5. CallsFollow  BY <2>4 DEF CallsFollow
  <2>6. GoneInv' /\ CallInv'  BY <2>2, <2>3, <2>4, <2>5, Steady
  <2>7. LinkInv'  BY <2>2, <2>3, LinkSame
  <2> QED BY <2>6, <2>7 DEF IInv
<1> QED BY <1>1, <1>2, <1>3, <1>4, <1>5
\* SIGUSR2 and SIGTERM.
LEMMA SignalsStep ==
  ASSUME IInv, Typed', NEW e \in Results,
         \/ Usr2Query(e) \/ Usr2Check(e) \/ Usr2Stop(e) \/ Usr2Redial
         \/ TermStop(e) \/ TermDown \/ Quit
  PROVE  IInv'
<1> USE DEF loopVars, connVars, linkVars, netVars, callVars, lossVars, boundVars
<1>0. Typed /\ event_fd \in Seq(Event) /\ losses \in Nat
  BY SMTT(30) DEF IInv, Typed, TypeOK, Event
<1>1. CASE Usr2Query(e) \/ Usr2Check(e) \/ Usr2Redial
  <2>1. losses' >= losses
    BY <1>0, <1>1, QueryEffect, GetIPAddressEffect DEF Usr2Query, Usr2Check, Usr2Redial
  <2>2. /\ UNCHANGED <<event_fd, opened, clients, call, linkVars>>
        /\ pc \in {"usr2Query", "usr2Check", "usr2Redial"}
    BY <1>1 DEF Usr2Query, Usr2Check, Usr2Redial
  <2>3. pc' \in {"usr2Check", "usr2Redial", "usr2Stop", "event", "poll"}
    BY <1>1 DEF Usr2Query, Usr2Check, Usr2Redial, AfterSignal
  <2>4. Grown(event_fd, event_fd') /\ CallsFollow
    BY <1>0, <2>2, GrownSame DEF CallsFollow
  <2>5. GoneInv' /\ CallInv'  BY <2>1, <2>2, <2>3, <2>4, Steady
  <2>6. LinkInv'  BY <2>2, <2>3, LinkSame
  <2> QED BY <2>5, <2>6 DEF IInv
<1>2. CASE Usr2Stop(e) \/ TermStop(e)
  <2>1. PICK f \in Families : DeactivateDefaultPDP(f, e)
    BY <1>2, FamilyType DEF Usr2Stop, TermStop
  <2>2. /\ UNCHANGED <<opened, clients, linkVars>>
        /\ pc \in {"usr2Stop", "termStop", "termStop6"}
        /\ pc' \in {"usr2Redial", "termStop6", "termDown"}
    BY <1>2 DEF Usr2Stop, TermStop
  <2>3. /\ losses' >= losses /\ Grown(event_fd, event_fd')
        /\ \A g \in Families : call'[g] \in {call[g], Down}
    BY <1>0, <2>1, DeactivateEffect
  <2>4. CallsFollow  BY <2>3 DEF CallsFollow
  <2>5. GoneInv' /\ CallInv'  BY <2>2, <2>3, <2>4, Steady
  <2>6. LinkInv'  BY <2>2, LinkSame
  <2> QED BY <2>5, <2>6 DEF IInv
<1>3. CASE TermDown
  <2>1. PICK kept \in SUBSET clients :
          /\ ClientsFail(kept)
          /\ CallsBecome([f \in Families |->
               IF f = 4 /\ Reaches("WDS") /\ "WDS" \notin kept THEN Down ELSE call[f]])
    BY <1>3 DEF TermDown
  <2>2. kept \in SUBSET Services  BY <1>0, <2>1 DEF Typed, TypeOK
  <2>3. losses' >= losses /\ (losses' = 0 /\ opened => kept = {})
    BY <1>0, <2>1, <2>2, ClientsFailEffect, SMTT(30) DEF Typed, TypeOK
  <2> DEFINE c == [f \in Families |->
                     IF f = 4 /\ Reaches("WDS") /\ "WDS" \notin kept THEN Down ELSE call[f]]
  <2>4. c \in [Families -> -1 .. MaxAddr]
    BY <1>0, ConstAssumption DEF Down, Typed, TypeOK
  <2>5. call' = c /\ Grown(event_fd, event_fd')
    <3> HIDE DEF c
    <3> QED BY <1>0, <2>1, <2>4, CallsBecomeEffect DEF c
  <2>6. /\ call'[4] = IF Reaches("WDS") /\ "WDS" \notin kept THEN Down ELSE call[4]
        /\ call'[6] = call[6]
    BY <1>0, <2>5, FamilyType DEF Typed, TypeOK
  <2>7. opened' = opened /\ pc = "termDown" /\ pc' = "quit"  BY <1>3 DEF TermDown
  <2>8. GoneInv'  BY <2>5, <2>7 DEF IInv, GoneInv, Grown
  <2>9. ~ opened' => NoCalls'
    BY <2>6, <2>7, FamilyType DEF Reaches, IInv, CallInv, NoCalls
  <2>10. call'[6] # Down => Dual  BY <2>6 DEF IInv, CallInv
  <2>11. losses' = 0 => call'[4] = Down
    <3> SUFFICES ASSUME losses' = 0, opened PROVE call'[4] = Down
      BY <2>7, <2>9, FamilyType DEF NoCalls
    <3>1. kept = {} /\ clients = Services
      BY <1>0, <2>3, <2>7 DEF IInv, CallInv
    <3> QED BY <2>6, <3>1 DEF Reaches, Services
  <2>12. CallInv'  BY <2>7, <2>9, <2>10, <2>11 DEF CallInv
  <2>13. LinkInv'
    BY <1>3, <2>7 DEF TermDown, LinkDown, IInv, LinkInv, Typed, TypeOK
  <2> QED BY <2>8, <2>12, <2>13 DEF IInv
<1>4. CASE Quit
  <2>1. /\ UNCHANGED <<event_fd, opened, clients, losses, call>>
        /\ pc = "quit" /\ pc' = "done"
    BY <1>4 DEF Quit
  <2>2. GoneInv'  BY <2>1 DEF IInv, GoneInv, NoneGone, OneGone
  <2>3. CallInv'  BY <2>1 DEF IInv, CallInv, NoCalls
  <2>4. LinkInv'  BY <1>4, <2>1 DEF Quit, LinkDown, IInv, LinkInv, Typed, TypeOK
  <2> QED BY <2>2, <2>3, <2>4 DEF IInv
<1> QED BY <1>1, <1>2, <1>3, <1>4

\* The events of the QMI thread.
LEMMA EventsStep ==
  ASSUME IInv, Typed', NEW e \in Results,
         ReadEvent \/ NetReg(e) \/ CallQuery(e) \/ CallQuery6(e) \/ CallLink \/ Gone
  PROVE  IInv'
<1> USE DEF loopVars, connVars, linkVars, netVars, callVars, lossVars, boundVars
<1>0. Typed /\ event_fd \in Seq(Event) /\ losses \in Nat
  BY SMTT(30) DEF IInv, Typed, TypeOK, Event
<1>1. CASE ReadEvent
  <2>1. event_fd # <<>>  BY <1>0, <1>1 DEF ReadEvent, Typed, LoopInv
  <2>2. /\ UNCHANGED <<opened, clients, losses, call, linkVars>>
        /\ event_fd' = Tail(event_fd) /\ pc = "event"
    BY <1>1 DEF ReadEvent
  <2>3. /\ Head(event_fd) \in Event
        /\ OneGone(event_fd')
        /\ NoneGone(event_fd) => NoneGone(event_fd') /\ Head(event_fd) # "DISCONNECTED"
        /\ Head(event_fd) = "DISCONNECTED" => NoneGone(event_fd')
    BY <1>0, <2>1, <2>2, GoneTail DEF IInv, GoneInv
  <2>4. /\ pc' \in {"netReg", "callQuery", "gone"}
        /\ pc' = "gone" => Head(event_fd) = "DISCONNECTED"
    BY <1>1, <2>3 DEF ReadEvent, Event
  <2>5. GoneInv'  BY <2>2, <2>3, <2>4 DEF IInv, GoneInv
  <2>6. Services' = Services  BY DEF Services
  <2>7. CallInv'  BY <2>2, <2>4, <2>6 DEF IInv, CallInv, NoCalls
  <2>8. LinkInv'  BY <2>2, <2>4, LinkSame
  <2> QED BY <2>5, <2>7, <2>8 DEF IInv
<1>2. CASE NetReg(e) \/ CallQuery(e) \/ CallQuery6(e)
  <2>1. losses' >= losses
    BY <1>0, <1>2, RegistrationEffect, QueryEffect, RequestEffect
       DEF NetReg, CallQuery, CallQuery6
  <2>2. /\ UNCHANGED <<event_fd, opened, clients, call, linkVars>>
        /\ pc \in {"netReg", "callQuery", "callQuery6"}
        /\ pc' \in {"poll", "callQuery6", "callLink"}
    BY <1>2 DEF NetReg, CallQuery, CallQuery6
  <2>3. Grown(event_fd, event_fd') /\ CallsFollow
    BY <1>0, <2>2, GrownSame DEF CallsFollow
  <2>4. GoneInv' /\ CallInv'  BY <2>1, <2>2, <2>3, Steady
  <2>5. LinkInv'  BY <2>2, LinkSame
  <2> QED BY <2>4, <2>5 DEF IInv
<1>3. CASE CallLink
  <2>1. /\ UNCHANGED <<event_fd, opened, clients, losses, call>> /\ pc = "callLink"
        /\ pc' \in {"poll", "linkAddress"}
    BY <1>3 DEF CallLink, LinkUp
  <2>2. Grown(event_fd, event_fd') /\ CallsFollow /\ losses' >= losses
    BY <1>0, <2>1, GrownSame DEF CallsFollow
  <2>3. GoneInv' /\ CallInv'  BY <2>1, <2>2, Steady
  <2>4. LinkInv'  BY <1>3 DEF CallLink, LinkUp, LinkDown, IInv, LinkInv, Typed, TypeOK
  <2> QED BY <2>3, <2>4 DEF IInv
<1>4. CASE Gone
  <2>1. /\ UNCHANGED <<event_fd, opened, clients, losses, call>>
        /\ pc = "gone" /\ pc' \in {"detect", "quit"}
    BY <1>4 DEF Gone
  <2>2. GoneInv'  BY <2>1 DEF IInv, GoneInv, NoneGone, OneGone
  <2>3. ~ opened /\ NoCalls  BY <2>1 DEF IInv, GoneInv, CallInv
  <2>4. CallInv'  BY <2>1, <2>3, FamilyType DEF CallInv, NoCalls
  <2>5. LinkInv'  BY <1>4, <2>1 DEF Gone, LinkDown, IInv, LinkInv, Typed, TypeOK
  <2> QED BY <2>2, <2>4, <2>5 DEF IInv
<1> QED BY <1>1, <1>2, <1>3, <1>4

\* The modem, the network, the clock and the user.
LEMMA EnvStepInv == ASSUME IInv, Typed', EnvStep PROVE IInv'
<1> USE DEF loopVars, connVars, linkVars, netVars, callVars, lossVars, boundVars
<1>0. Typed /\ event_fd \in Seq(Event) /\ losses \in Nat
      /\ call \in [Families -> -1 .. MaxAddr]
  BY SMTT(30) DEF IInv, Typed, TypeOK, Event
<1>1. ASSUME UNCHANGED <<pc, opened, clients, losses, linkVars>>,
             \A f \in Families : call[f] = Down => call'[f] = Down,
             Grown(event_fd, event_fd')
      PROVE  IInv'
  <2>1. CallsFollow /\ losses' >= losses  BY <1>0, <1>1 DEF CallsFollow
  <2>2. GoneInv' /\ CallInv'  BY <1>1, <2>1, Steady
  <2>3. LinkInv'  BY <1>1, LinkSame
  <2> QED BY <2>2, <2>3 DEF IInv
<1>2. ASSUME NEW f \in Families, DialEnds(f) PROVE IInv'
  <2>1. UNCHANGED <<pc, opened, clients, losses, linkVars>>  BY <1>2 DEF DialEnds
  <2>2. (\A g \in Families : call[g] = Down => call'[g] = Down) /\ Grown(event_fd, event_fd')
    BY <1>0, <1>2, DialEndsEffect
  <2> QED BY <1>1, <2>1, <2>2
<1>3. ASSUME NEW f \in Families, CallDrops(f) PROVE IInv'
  <2>1. UNCHANGED <<pc, opened, clients, losses, linkVars>>  BY <1>3 DEF CallDrops
  <2>2. \A g \in Families : call[g] = Down => call'[g] = Down
    BY <1>0, <1>3 DEF CallDrops
  <2>3. Grown(event_fd, event_fd')
    BY <1>0, <1>3, GrownSame, GrownAppend DEF CallDrops, Indicate
  <2> QED BY <1>1, <2>1, <2>2, <2>3
<1>4. CASE NetworkGoes
  <2>1. UNCHANGED <<pc, opened, clients, losses, linkVars>>  BY <1>4 DEF NetworkGoes
  <2>2. \A g \in Families : call[g] = Down => call'[g] = Down
    BY <1>4 DEF NetworkGoes
  <2>3. Grown(event_fd, event_fd')  BY <1>0, <1>4, NetworkGoesEffect
  <2> QED BY <1>1, <2>1, <2>2, <2>3
<1>5. CASE NetworkComes
  <2>1. UNCHANGED <<pc, opened, clients, losses, linkVars, call>>  BY <1>5 DEF NetworkComes
  <2>2. Grown(event_fd, event_fd')
    BY <1>0, <1>5, GrownSame, GrownAppend DEF NetworkComes, Indicate
  <2> QED BY <1>1, <2>1, <2>2
<1>6. CASE Replug \/ AlarmRings \/ Signal \/ CancelsNothing
  <2>1. UNCHANGED <<pc, opened, clients, losses, linkVars, call, event_fd>>
    BY <1>6 DEF Replug, AlarmRings, Signal, CancelsNothing
  <2>2. Grown(event_fd, event_fd')  BY <1>0, <2>1, GrownSame
  <2> QED BY <1>1, <2>1, <2>2
<1>7. CASE IndicationLost
  <2>1. UNCHANGED <<pc, opened, clients, linkVars, call>> /\ losses' = losses + 1
    BY <1>7 DEF IndicationLost
  <2>2. Len(event_fd) > 0 /\ event_fd' = SubSeq(event_fd, 1, Len(event_fd) - 1)
    BY <1>0, <1>7 DEF IndicationLost
  <2>3. /\ OneGone(event_fd) => OneGone(event_fd')
        /\ NoneGone(event_fd) => NoneGone(event_fd')
    BY <1>0, <2>2, GoneFront
  <2>4. GoneInv'  BY <2>1, <2>3 DEF IInv, GoneInv
  <2>5. CallInv'  BY <1>0, <2>1 DEF IInv, CallInv, NoCalls
  <2>6. LinkInv'  BY <2>1, LinkSame
  <2> QED BY <2>4, <2>5, <2>6 DEF IInv
<1>8. CASE Unplug
  <2>1. UNCHANGED <<pc, clients, losses, linkVars>>
        /\ ~ opened' /\ call' = [f \in Families |-> Down]
    BY <1>8 DEF Unplug
  <2>2. NoCalls'  BY <2>1 DEF NoCalls
  <2>3. CallInv'  BY <2>1, <2>2, FamilyType DEF CallInv, NoCalls
  <2>4. LinkInv'  BY <2>1, LinkSame
  <2>5. CASE opened
    <3>1. NoneGone(event_fd) /\ pc \notin {"gone", "detect"}
      BY <2>5 DEF IInv, GoneInv
    <3>2. event_fd' = Append(event_fd, "DISCONNECTED")
      BY <1>8, <2>5 DEF Unplug, Indicate
    <3>3. GoneInv'  BY <1>0, <2>1, <3>1, <3>2, GoneAppend DEF GoneInv
    <3> QED BY <2>3, <2>4, <3>3 DEF IInv
  <2>6. CASE ~ opened
    <3>1. event_fd' = event_fd  BY <1>8, <2>6 DEF Unplug, Indicate
    <3>2. GoneInv'  BY <2>1, <2>6, <3>1 DEF IInv, GoneInv, NoneGone, OneGone
    <3> QED BY <2>3, <2>4, <3>2 DEF IInv
  <2> QED BY <2>5, <2>6
<1> QED BY <1>2, <1>3, <1>4, <1>5, <1>6, <1>7, <1>8 DEF EnvStep

---------------------------------------------------------------------------
(* Theorems *)

\* The invariant holds at the start and after every step.
THEOREM Invariance == Spec => []IInv
<1>1. Init => IInv
  <2> SUFFICES ASSUME Init PROVE IInv  OBVIOUS
  <2>1. Typed
    <3>1. /\ boot \in BOOLEAN /\ alarm \in BOOLEAN /\ main_loop \in BOOLEAN
          /\ PSAttachedState \in BOOLEAN /\ opened \in BOOLEAN /\ plugged \in BOOLEAN
          /\ network \in BOOLEAN /\ radio \in BOOLEAN /\ (opened => plugged)
      BY ConstAssumption DEF Init
    <3>2. /\ handle \in [Families -> 0 .. MaxAddr] /\ call \in [Families -> -1 .. MaxAddr]
      BY ConstAssumption DEF Init, Down
    <3>3. /\ ready \subseteq {"signal", "event"} /\ clients \subseteq Services
          /\ signal_fd \in Seq({"USR1", "USR2", "TERM"})
          /\ event_fd \in Seq({"CALL", "NET", "DISCONNECTED"})
          /\ IPv4ConnectionStatus \in {"UNKNOWN", "DISCONNECTED", "OTHER", "CONNECTED"}
      BY DEF Init
    <3>4. /\ Address \in 0 .. MaxAddr /\ dhcp \in 0 .. MaxAddr /\ s_link \in {0, 1}
          /\ cancels \in 0 .. MaxSig /\ losses \in 0 .. MaxLoss /\ sigs \in 0 .. MaxSig
          /\ lastAddr \in 0 .. MaxAddr /\ cancels <= sigs
      BY ConstAssumption DEF Init
    <3>5. pc = "detect" /\ "event" \notin ready  BY DEF Init
    <3> QED BY <3>1, <3>2, <3>3, <3>4, <3>5 DEF Typed, TypeOK, LoopInv
  <2>2. LinkInv  BY DEF Init, LinkInv
  <2>3. event_fd = <<>> /\ ~ opened /\ call = [f \in Families |-> Down]  BY DEF Init
  <2>4. GoneInv  BY <2>3 DEF GoneInv, NoneGone, OneGone
  <2>5. NoCalls  BY <2>3 DEF NoCalls
  <2>6. CallInv  BY <2>3, <2>5, FamilyType DEF CallInv, NoCalls
  <2> QED BY <2>1, <2>2, <2>4, <2>6 DEF IInv
<1>2. IInv /\ [Next]_vars => IInv'
  <2> SUFFICES ASSUME IInv, [Next]_vars PROVE IInv'  OBVIOUS
  <2>0. Typed'  BY TypedStep DEF IInv
  <2>1. CASE \E e \in Results :
               Detect \/ InitFails \/ QmiWwanInit \/ RegFirst(e) \/ QueryFirst(e) \/ LinkAddress(e)
    BY <2>0, <2>1, StartStep
  <2>2. CASE \E e \in Results :
               \/ Poll \/ ReadSignal \/ Usr1Reset \/ Usr1Alarm
               \/ Usr1Query(e) \/ Usr1Reg(e) \/ Usr1Dial(e) \/ Usr1Dial6(e)
               \/ RadioOff(e) \/ RadioOn(e)
    BY <2>0, <2>2, DialStep
  <2>3. CASE \E e \in Results :
               \/ Usr2Query(e) \/ Usr2Check(e) \/ Usr2Stop(e) \/ Usr2Redial
               \/ TermStop(e) \/ TermDown \/ Quit
    BY <2>0, <2>3, SignalsStep
  <2>4. CASE \E e \in Results :
               ReadEvent \/ NetReg(e) \/ CallQuery(e) \/ CallQuery6(e) \/ CallLink \/ Gone
    BY <2>0, <2>4, EventsStep
  <2>5. CASE EnvStep  BY <2>0, <2>5, EnvStepInv
  <2>6. CASE UNCHANGED vars
    BY <2>0, <2>6 DEF vars, linkVars, netVars, callVars, lossVars, IInv, LinkInv, GoneInv,
                      CallInv, NoneGone, OneGone, NoCalls
  <2>7. "answered" \in Results  BY DEF Results
  <2> QED BY <2>1, <2>2, <2>3, <2>4, <2>5, <2>6, <2>7 DEF Next, MainStep, Terminated
<1> QED BY <1>1, <1>2, PTL DEF Spec

\* The state of main and of the modem keeps its types, whatever fails.
THEOREM TypesHold == Spec => []TypeOK
<1>1. IInv => TypeOK  BY DEF IInv, Typed
<1> QED BY <1>1, Invariance, PTL

\* usbnet_link_change: DHCP runs only over a link that is up and for the
\* address fetched for it, and a process that ends leaves the link down.
THEOREM LinkInStep == Spec => []ConfiguredWhenLinked
<1>1. IInv => ConfiguredWhenLinked  BY DEF IInv, LinkInv, ConfiguredWhenLinked
<1> QED BY <1>1, Invariance, PTL

\* SIGTERM: when no request is lost, no IPv4 call outlives the process, whatever the
\* signal interrupts, and without dual stack no call at all.
THEOREM NothingLeftUp == Spec => []CleanExit /\ (~Dual => []NoCallLeft)
<1>1. IInv => CleanExit  BY DEF IInv, CallInv, CleanExit
<1>2. ~Dual /\ IInv => NoCallLeft  BY FamilyType DEF IInv, CallInv, NoCallLeft
<1>3. CASE Dual  BY <1>1, <1>3, Invariance, PTL
<1>4. CASE ~Dual  BY <1>1, <1>2, <1>4, Invariance, PTL
<1> QED BY <1>3, <1>4
---------------------------------------------------------------------------
(* Start-up: QStartup, with constants and variables of its own *)

CONSTANTS DualIp, Qmap, Pincode, IdsFail, Reliable, MaxBusy

VARIABLES startPc, tries, ids, s_9x07, pResponse, twice, SIMStatus, card, sent, link

Start == INSTANCE QStartup WITH pc <- startPc

\* QmiWwanGetClientID has been through the service s.
AskedFor(s) ==
  startPc \notin CASE s = "WDS" -> {"sync", "exit", "WDS"}
                   [] s = "WDS_IPV6" -> {"sync", "exit", "WDS", "WDS_IPV6"}

\* When requestSetEthMode asks a service that may have no id, no earlier answer is left.
AnswerInv ==
  /\ ~IdsFail /\ AskedFor("WDS") => "WDS" \in ids
  /\ ~IdsFail /\ DualIp /\ AskedFor("WDS_IPV6") => "WDS_IPV6" \in ids
  /\ ~DualIp => startPc \notin {"WDS_IPV6", "v4", "v6"}
  /\ startPc \in {"sync", "version"} \cup Start!Services => pResponse = "NULL"
  /\ startPc \in {"auto", "mux"} => "WDS" \in ids \/ pResponse = "NULL"
  /\ pResponse \in {"NULL", "freed"}
  /\ ~twice

\* The status of the card is read, through a service that has an id, before the PIN.
PinInv ==
  /\ card \in Start!Cards
  /\ startPc = "pin" /\ Start!HasPath => SIMStatus \in Start!Status
  /\ startPc \in {"profile", "loop"} /\ Pincode /\ "DMS" \in ids
       /\ card.present /\ card.pin1 = "not_verif" => sent

\* Each step preserves them.
LEMMA AnswerStep ==
  ASSUME Start!ConstAssumption, ~(DualIp /\ IdsFail), AnswerInv, [Start!Next]_Start!vars
  PROVE  AnswerInv'
<1> USE DEF Start!ConstAssumption, AnswerInv, AskedFor, Start!Services, Start!modem
<1>1. CASE Start!Sync BY <1>1 DEF Start!Sync
<1>2. ASSUME NEW s \in Start!Services, Start!QmiWwanGetClientID(s) PROVE AnswerInv'
  <2>1. /\ startPc = s /\ startPc' = Start!AfterId(s)
        /\ ids' = ids \cup {s} \/ (IdsFail /\ ids' = ids)
        /\ UNCHANGED <<pResponse, twice>>
    BY <1>2 DEF Start!QmiWwanGetClientID
  <2>2. CASE s = "WDS" BY <2>1, <2>2 DEF Start!AfterId
  <2>3. CASE s = "WDS_IPV6" BY <2>1, <2>3 DEF Start!AfterId
  <2>4. CASE s = "DMS" BY <2>1, <2>4 DEF Start!AfterId
  <2>5. CASE s = "NAS" BY <2>1, <2>5 DEF Start!AfterId
  <2>6. CASE s = "UIM" BY <2>1, <2>6 DEF Start!AfterId
  <2>7. CASE s = "WDA" BY <2>1, <2>7 DEF Start!AfterId
  <2> QED BY <2>2, <2>3, <2>4, <2>5, <2>6, <2>7
<1>3. CASE Start!requestBaseBandVersion BY <1>3 DEF Start!requestBaseBandVersion
<1>4. CASE Start!requestSetEthMode
  <2> USE DEF Start!SendAndFree, Start!Send
  <2>1. CASE Start!SendAndFree("v4", "WDS", "v6") /\ UNCHANGED ids  BY <2>1
  <2>2. CASE Start!SendAndFree("v6", "WDS_IPV6", "auto") /\ UNCHANGED ids  BY <2>2
  <2>3. CASE Start!SendAndFree("auto", "WDS", IF Qmap THEN "mux" ELSE "format") /\ UNCHANGED ids
    BY <2>3
  <2>4. CASE Start!SendAndFree("mux", "WDS", "sim") /\ UNCHANGED ids  BY <2>4
  <2>5. CASE startPc = "format" /\ startPc' = "sim" /\ UNCHANGED <<pResponse, twice, ids>>
    BY <2>5
  <2> QED BY <1>4, <2>1, <2>2, <2>3, <2>4, <2>5 DEF Start!requestSetEthMode
<1>5. CASE Start!requestGetSIMStatus BY <1>5 DEF Start!requestGetSIMStatus
<1>6. CASE Start!requestEnterSimPin BY <1>6 DEF Start!requestEnterSimPin
<1>7. CASE Start!QueryDataCall BY <1>7 DEF Start!QueryDataCall
<1>8. CASE Start!Ended \/ UNCHANGED Start!vars BY <1>8 DEF Start!Ended, Start!vars
<1> QED BY <1>1, <1>2, <1>3, <1>4, <1>5, <1>6, <1>7, <1>8 DEF Start!Next, Start!Step

\* A reliable answer tells a locked card from every other one.
LEMMA StatusTells ==
  ASSUME Reliable, card \in Start!Cards, SIMStatus \in Start!Status
  PROVE  SIMStatus = Start!SIM_PIN => card.present /\ card.pin1 = "not_verif"
<1> USE DEF Start!Cards, Start!PinStates, Start!SIM_PIN, Start!SIM_ABSENT, Start!SIM_READY,
            Start!SIM_PUK, Start!SIM_BAD
<1>1. CASE Start!UsesUIM BY <1>1 DEF Start!Status, Start!UimStatus
<1>2. CASE ~Start!UsesUIM BY <1>2 DEF Start!Status, Start!DmsStatus, Start!PinStatus
<1> QED BY <1>1, <1>2

LEMMA StatusOfLocked ==
  ASSUME Reliable, SIMStatus \in Start!Status, card.present, card.pin1 = "not_verif"
  PROVE  SIMStatus = Start!SIM_PIN
<1> USE DEF Start!SIM_PIN
<1>1. CASE Start!UsesUIM BY <1>1 DEF Start!Status, Start!UimStatus
<1>2. CASE ~Start!UsesUIM BY <1>2 DEF Start!Status, Start!DmsStatus, Start!PinStatus
<1> QED BY <1>1, <1>2

\* Each step preserves what is known of the card.
LEMMA PinStep ==
  ASSUME Start!ConstAssumption, Reliable, PinInv, [Start!Next]_Start!vars
  PROVE  PinInv'
<1> USE DEF PinInv, Start!modem, Start!simvars
<1>1. CASE Start!Sync BY <1>1 DEF Start!Sync
<1>2. ASSUME NEW s \in Start!Services, Start!QmiWwanGetClientID(s) PROVE PinInv'
  <2>1. startPc' \notin {"pin", "profile", "loop"} /\ card' = card
    BY <1>2 DEF Start!QmiWwanGetClientID, Start!AfterId, Start!Services
  <2> QED BY <2>1
<1>3. CASE Start!requestBaseBandVersion BY <1>3 DEF Start!requestBaseBandVersion
<1>4. CASE Start!requestSetEthMode
  <2>1. startPc' \notin {"pin", "profile", "loop"} /\ card' = card
    BY <1>4 DEF Start!requestSetEthMode, Start!SendAndFree
  <2> QED BY <2>1
<1>5. CASE Start!requestGetSIMStatus
  <2>1. /\ startPc = "sim" /\ UNCHANGED <<card, ids, s_9x07, sent>>
        /\ \/ SIMStatus' \in Start!Status /\ startPc' = "pin"
           \/ ~Start!HasPath /\ startPc' = "pin"
           \/ startPc' = "sim"
    BY <1>5 DEF Start!requestGetSIMStatus
  <2>2. Start!HasPath' = Start!HasPath /\ Start!Status' = Start!Status
    BY <2>1 DEF Start!HasPath, Start!UsesUIM, Start!Status
  <2> QED BY <2>1, <2>2
<1>6. CASE Start!requestEnterSimPin
  <2>1. /\ startPc = "pin" /\ startPc' = "profile" /\ UNCHANGED <<ids, SIMStatus>>
        /\ IF SIMStatus = Start!SIM_PIN /\ Pincode /\ Start!HasPath
           THEN sent' = TRUE /\ card' \in {card, [card EXCEPT !.pin1 = "verified"]}
           ELSE UNCHANGED <<sent, card>>
    BY <1>6 DEF Start!requestEnterSimPin
  <2>2. CASE SIMStatus = Start!SIM_PIN /\ Pincode /\ Start!HasPath
    <3>1. SIMStatus \in Start!Status  BY <2>1, <2>2
    <3>2. card.present /\ card.pin1 = "not_verif"  BY <2>2, <3>1, StatusTells
    <3>3. card' \in Start!Cards
      BY <2>1, <2>2, <3>2 DEF Start!Cards, Start!PinStates
    <3> QED BY <2>1, <2>2, <3>3
  <2>3. CASE ~(SIMStatus = Start!SIM_PIN /\ Pincode /\ Start!HasPath)
    <3> SUFFICES ASSUME Pincode, "DMS" \in ids, card.present, card.pin1 = "not_verif"
                 PROVE  FALSE
      BY <2>1, <2>3
    <3>1. Start!HasPath  BY DEF Start!HasPath
    <3>2. SIMStatus \in Start!Status  BY <2>1, <3>1
    <3> QED BY <2>3, <3>1, <3>2, StatusOfLocked
  <2> QED BY <2>2, <2>3
<1>7. CASE Start!QueryDataCall BY <1>7 DEF Start!QueryDataCall
<1>8. CASE Start!Ended \/ UNCHANGED Start!vars
  <2>1. UNCHANGED <<startPc, ids, s_9x07, SIMStatus, card, sent>>
    BY <1>8 DEF Start!Ended, Start!vars
  <2>2. Start!HasPath' = Start!HasPath /\ Start!Status' = Start!Status
    BY <2>1 DEF Start!HasPath, Start!UsesUIM, Start!Status
  <2> QED BY <2>1, <2>2
<1> QED BY <1>1, <1>2, <1>3, <1>4, <1>5, <1>6, <1>7, <1>8 DEF Start!Next, Start!Step

\* requestSetEthMode frees an answer once, whichever of its requests fail and whichever
\* client ids are missing, but for an IPv6 service that has one while WDS has none.
THEOREM FreedOnce == ASSUME Start!ConstAssumption, ~(DualIp /\ IdsFail)
                     PROVE  Start!Spec => []Start!NoDoubleFree
<1>1. Start!Init => AnswerInv
  BY DEF Start!Init, AnswerInv, AskedFor, Start!Services, Start!ConstAssumption
<1>2. AnswerInv /\ [Start!Next]_Start!vars => AnswerInv'  BY AnswerStep
<1>3. AnswerInv => Start!NoDoubleFree  BY DEF AnswerInv, Start!NoDoubleFree
<1> QED BY <1>1, <1>2, <1>3, PTL DEF Start!Spec

\* "Verify sim card pin if sim card is locked": when requests for the card are answered,
\* the PIN is sent to a locked card only, and every locked card is sent it before the
\* main loop, whatever SIMStatus held at first and whichever services have an id.
THEOREM LockedAndNoOther ==
  ASSUME Start!ConstAssumption, Reliable
  PROVE  Start!Spec => Start!PinOnlyToLocked /\ []Start!LockedGetsPin
<1>1. Start!Init => PinInv  BY DEF Start!Init, PinInv
<1>2. PinInv /\ [Start!Next]_Start!vars => PinInv'  BY PinStep
<1>3. PinInv => Start!LockedGetsPin  BY DEF PinInv, Start!LockedGetsPin
<1>4. PinInv /\ [Start!Next]_Start!vars
        => [sent' /\ ~sent => card.present /\ card.pin1 = "not_verif"]_Start!vars
  <2> SUFFICES ASSUME PinInv, Start!Next, sent', ~sent
               PROVE  card.present /\ card.pin1 = "not_verif"
    OBVIOUS
  <2>1. Start!requestEnterSimPin
    BY DEF Start!Next, Start!Step, Start!Sync, Start!QmiWwanGetClientID,
           Start!requestBaseBandVersion, Start!requestSetEthMode, Start!requestGetSIMStatus,
           Start!QueryDataCall, Start!Ended, Start!vars, Start!simvars
  <2>2. startPc = "pin" /\ SIMStatus = Start!SIM_PIN /\ Start!HasPath
    BY <2>1 DEF Start!requestEnterSimPin
  <2> QED BY <2>2, StatusTells DEF PinInv
<1> QED BY <1>1, <1>2, <1>3, <1>4, PTL DEF Start!Spec, Start!PinOnlyToLocked
=============================================================================
