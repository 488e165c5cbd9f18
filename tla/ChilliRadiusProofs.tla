------------------------- MODULE ChilliRadiusProofs -------------------------
(***************************************************************************)
(* Theorems about ChilliRadius, for every size of the table and of the id  *)
(* space, every number of requests, every time-out and retry count, and    *)
(* every number of failures and of seconds that the clock is set back.     *)
(***************************************************************************)
EXTENDS ChilliRadius, FiniteSetTheorems, WellFoundedInduction, TLAPS

---------------------------------------------------------------------------
(* The inductive invariant *)

Cells == [state : {0, 1}, p : [id : 0 .. IdSpace - 1, req : Req] \cup {NoPacket},
          cbp : Req \cup {None}, retrans : 0 .. Retry, lastsent : Servers,
          timeout : -MaxBack .. Timeout + MaxBack,
          next : Slots \cup {None}, prev : Slots \cup {None}]

\* Clocks are set back by what is left of the bound.
Typed ==
  /\ TypeOK
  /\ \A s \in Slots : queue[s].timeout \in backs - MaxBack .. Timeout + backs

\* The links of table q, first f and last l are those of a list that holds
\* at[1] to at[k].
IsList(q, f, l, k, at) ==
  /\ \A i, j \in 1 .. k : at[i] = at[j] => i = j
  /\ f = IF k = 0 THEN None ELSE at[1]
  /\ l = IF k = 0 THEN None ELSE at[k]
  /\ \A i \in 1 .. k : /\ q[at[i]].prev = IF i = 1 THEN None ELSE at[i - 1]
                       /\ q[at[i]].next = IF i = k THEN None ELSE at[i + 1]

\* It holds the slots in S.
Holds(S, k, at) == \A s \in Slots : s \in S <=> \E i \in 1 .. k : at[i] = s

\* The requests in it time out one after the other.
Sorted(q, k, at) ==
  \A i, j \in 1 .. k : i <= j => q[at[i]].timeout <= q[at[j]].timeout

\* The linked slots are those in use; unless the clock is set back the list is
\* in the order of the time-outs.
ListInv ==
  \E k \in Nat : \E at \in [1 .. k -> Slots] :
    /\ IsList(queue, first, last, k, at) /\ Holds(Live, k, at)
    /\ MaxBack = 0 => Sorted(queue, k, at)

\* Slots in use and requests that wait are the same.
SlotInv ==
  /\ \A s \in Slots : queue[s].p # NoPacket <=> queue[s].state = 1
  /\ \A s \in Live : /\ queue[s].cbp \in Req /\ queue[s].p.req = queue[s].cbp
                     /\ call[queue[s].cbp] = "pending"
                     /\ queue[s].p.id = idOf[queue[s].cbp]
                     /\ ~Sized => queue[s].p.id = s
  /\ \A s, u \in Live : queue[s].cbp = queue[u].cbp => s = u
  /\ \A r \in Req : call[r] = "pending" => \E s \in Live : queue[s].cbp = r
  /\ \A r \in Req : r > made => call[r] = "none"

\* Servers that a request was sent to, when nothing fails.
SentInv ==
  RetrySec \in 1 .. Retry /\ fails = 0 =>
    /\ \A s \in Live : /\ queue[s].lastsent \in sent[queue[s].cbp]
                       /\ queue[s].retrans >= RetrySec => sent[queue[s].cbp] = Servers
    /\ \A r \in Req : call[r] = "gaveup" => sent[r] = Servers

IInv == Typed /\ ListInv /\ SlotInv /\ SentInv
---------------------------------------------------------------------------
(* Cells and links *)

\* Cells that differ in their links at most.
Same(c, d) ==
  /\ c.state = d.state /\ c.p = d.p /\ c.cbp = d.cbp /\ c.retrans = d.retrans
  /\ c.lastsent = d.lastsent /\ c.timeout = d.timeout

\* A next link, a prev link is written.
WithNext(q, s, n) == [q EXCEPT ![s].next = n]
WithPrev(q, s, n) == [q EXCEPT ![s].prev = n]

\* Nothing else is.
LEMMA SetNext ==
  ASSUME NEW q \in [Slots -> Cells], NEW s \in Slots, NEW n \in Slots \cup {None}
  PROVE  /\ WithNext(q, s, n) \in [Slots -> Cells]
         /\ \A u \in Slots : /\ Same(WithNext(q, s, n)[u], q[u])
                             /\ WithNext(q, s, n)[u].prev = q[u].prev
                             /\ WithNext(q, s, n)[u].next = IF u = s THEN n ELSE q[u].next
<1> DEFINE c == [q[s] EXCEPT !.next = n]
<1>1. q[s] \in Cells  OBVIOUS
<1>2. c \in Cells /\ Same(c, q[s]) /\ c.prev = q[s].prev /\ c.next = n
  BY <1>1 DEF Cells, Same
<1>3. WithNext(q, s, n) = [q EXCEPT ![s] = c]  BY <1>1 DEF Cells, WithNext
<1> HIDE DEF c
<1>4. [q EXCEPT ![s] = c] \in [Slots -> Cells]
      /\ \A u \in Slots : [q EXCEPT ![s] = c][u] = IF u = s THEN c ELSE q[u]
  BY <1>2
<1>5. \A u \in Slots : Same(q[u], q[u])  BY DEF Same
<1> QED BY <1>2, <1>3, <1>4, <1>5

\* The same of a prev link.
LEMMA SetPrev ==
  ASSUME NEW q \in [Slots -> Cells], NEW s \in Slots, NEW n \in Slots \cup {None}
  PROVE  /\ WithPrev(q, s, n) \in [Slots -> Cells]
         /\ \A u \in Slots : /\ Same(WithPrev(q, s, n)[u], q[u])
                             /\ WithPrev(q, s, n)[u].next = q[u].next
                             /\ WithPrev(q, s, n)[u].prev = IF u = s THEN n ELSE q[u].prev
<1> DEFINE c == [q[s] EXCEPT !.prev = n]
<1>1. q[s] \in Cells  OBVIOUS
<1>2. c \in Cells /\ Same(c, q[s]) /\ c.next = q[s].next /\ c.prev = n
  BY <1>1 DEF Cells, Same
<1>3. WithPrev(q, s, n) = [q EXCEPT ![s] = c]  BY <1>1 DEF Cells, WithPrev
<1> HIDE DEF c
<1>4. [q EXCEPT ![s] = c] \in [Slots -> Cells]
      /\ \A u \in Slots : [q EXCEPT ![s] = c][u] = IF u = s THEN c ELSE q[u]
  BY <1>2
<1>5. \A u \in Slots : Same(q[u], q[u])  BY DEF Same
<1> QED BY <1>2, <1>3, <1>4, <1>5

\* Cells that are the same as others that are the same.
LEMMA SameTwice == ASSUME NEW c, NEW d, NEW e, Same(c, d), Same(d, e) PROVE Same(c, e)
BY DEF Same

\* None is no slot.
LEMMA NoneNoSlot == ASSUME ConstAssumption PROVE None \notin Slots
BY DEF None, Slots, ConstAssumption

\* U is the list of q, f and l with s taken out, or with s put at its end.
IsUnlinked(q, f, l, s, U) ==
  /\ U.q \in [Slots -> Cells]
  /\ \A u \in Slots :
       /\ Same(U.q[u], q[u])
       /\ U.q[u].next = IF u = q[s].prev THEN q[s].next ELSE q[u].next
       /\ U.q[u].prev = IF u = q[s].next THEN q[s].prev ELSE q[u].prev
  /\ U.f = IF q[s].prev = None THEN q[s].next ELSE f
  /\ U.l = IF q[s].next = None THEN q[s].prev ELSE l
IsLinkedLast(q, f, l, s, U) ==
  /\ U.q \in [Slots -> Cells]
  /\ \A u \in Slots :
       /\ Same(U.q[u], q[u])
       /\ U.q[u].next = IF u = s THEN None ELSE IF u = l THEN s ELSE q[u].next
       /\ U.q[u].prev = IF u = s THEN l ELSE q[u].prev
  /\ U.f = IF f = None THEN s ELSE f
  /\ U.l = s

\* What Unlink writes.
LEMMA UnlinkCells ==
  ASSUME ConstAssumption, NEW q \in [Slots -> Cells], NEW f, NEW l, NEW s \in Slots,
         q[s].next # s, q[s].prev # s
  PROVE  IsUnlinked(q, f, l, s, Unlink([q |-> q, f |-> f, l |-> l], s))
<1> DEFINE n == q[s].next
           p == q[s].prev
           q1 == IF n = None THEN q ELSE WithPrev(q, n, p)
           q2 == IF p = None THEN q1 ELSE WithNext(q1, p, n)
<1>1. n \in Slots \cup {None} /\ p \in Slots \cup {None}
  <2>1. q[s] \in Cells  OBVIOUS
  <2> QED BY <2>1 DEF Cells
<1> HIDE DEF n, p
<1>2. /\ q1 \in [Slots -> Cells]
      /\ \A u \in Slots : /\ Same(q1[u], q[u]) /\ q1[u].next = q[u].next
                          /\ q1[u].prev = IF u = n THEN p ELSE q[u].prev
  <2>1. CASE n = None
    <3>1. \A u \in Slots : u # n  BY <2>1, NoneNoSlot
    <3> QED BY <2>1, <3>1 DEF Same
  <2>2. CASE n # None
    <3>1. n \in Slots  BY <1>1, <2>2
    <3>2. q1 = WithPrev(q, n, p)  BY <2>2
    <3> HIDE DEF q1
    <3> QED BY <1>1, <3>1, <3>2, SetPrev
  <2> QED BY <2>1, <2>2
<1> HIDE DEF q1
<1>3. /\ q2 \in [Slots -> Cells]
      /\ \A u \in Slots : /\ Same(q2[u], q1[u]) /\ q2[u].prev = q1[u].prev
                          /\ q2[u].next = IF u = p THEN n ELSE q1[u].next
  <2>1. CASE p = None
    <3>1. \A u \in Slots : u # p  BY <2>1, NoneNoSlot
    <3> QED BY <1>2, <2>1, <3>1 DEF Same
  <2>2. CASE p # None
    <3>1. p \in Slots  BY <1>1, <2>2
    <3>2. q2 = WithNext(q1, p, n)  BY <2>2
    <3>3. q1 \in [Slots -> Cells]  BY <1>2
    <3> HIDE DEF q2
    <3> QED BY <1>1, <3>1, <3>2, <3>3, SetNext
  <2> QED BY <2>1, <2>2
<1> HIDE DEF q2
<1>4. Unlink([q |-> q, f |-> f, l |-> l], s)
        = [q |-> q2, f |-> IF p = None THEN n ELSE f, l |-> IF n = None THEN p ELSE l]
  BY DEF Unlink, WithNext, WithPrev, q2, q1, n, p
<1>5. \A u \in Slots : Same(q2[u], q[u])  BY <1>2, <1>3, SameTwice
<1> QED BY <1>2, <1>3, <1>4, <1>5 DEF n, p, IsUnlinked

\* What LinkLast writes.
LEMMA LinkLastCells ==
  ASSUME ConstAssumption, NEW q \in [Slots -> Cells], NEW f, NEW l \in Slots \cup {None},
         NEW s \in Slots, l # s
  PROVE  IsLinkedLast(q, f, l, s, LinkLast([q |-> q, f |-> f, l |-> l], s))
<1> DEFINE q0 == WithNext(q, s, None)
           q1 == WithPrev(q0, s, l)
           q2 == IF l = None THEN q1 ELSE WithNext(q1, l, s)
<1>1. q1 = [q EXCEPT ![s].next = None, ![s].prev = l]
  <2>1. q[s] \in Cells  OBVIOUS
  <2> QED BY <2>1 DEF Cells, WithNext, WithPrev
<1>2. /\ q0 \in [Slots -> Cells]
      /\ \A u \in Slots : /\ Same(q0[u], q[u]) /\ q0[u].prev = q[u].prev
                          /\ q0[u].next = IF u = s THEN None ELSE q[u].next
  BY SetNext
<1> HIDE DEF q0
<1>3. /\ q1 \in [Slots -> Cells]
      /\ \A u \in Slots : /\ Same(q1[u], q0[u]) /\ q1[u].next = q0[u].next
                          /\ q1[u].prev = IF u = s THEN l ELSE q0[u].prev
  BY <1>2, SetPrev, SMTT(30)
<1> HIDE DEF q1
<1>4. /\ q2 \in [Slots -> Cells]
      /\ \A u \in Slots : /\ Same(q2[u], q1[u]) /\ q2[u].prev = q1[u].prev
                          /\ q2[u].next = IF u = l THEN s ELSE q1[u].next
  <2>1. CASE l = None
    <3>1. \A u \in Slots : u # l  BY <2>1, NoneNoSlot
    <3> QED BY <1>3, <2>1, <3>1 DEF Same
  <2>2. CASE l # None
    <3>1. l \in Slots  BY <2>2
    <3>2. q2 = WithNext(q1, l, s)  BY <2>2
    <3>3. q1 \in [Slots -> Cells] /\ s \in Slots \cup {None}  BY <1>3
    <3> HIDE DEF q2
    <3> QED BY <3>1, <3>2, <3>3, SetNext
  <2> QED BY <2>1, <2>2
<1> HIDE DEF q2
<1>5. LinkLast([q |-> q, f |-> f, l |-> l], s)
        = [q |-> q2, f |-> IF f = None THEN s ELSE f, l |-> s]
  BY <1>1 DEF LinkLast, WithNext, q2
<1>6. \A u \in Slots : Same(q2[u], q[u])  BY <1>2, <1>3, <1>4, SameTwice
<1> QED BY <1>2, <1>3, <1>4, <1>5, <1>6 DEF IsLinkedLast
---------------------------------------------------------------------------
(* Lists *)

\* The list without its m-th member, and with one more.
Without(at, k, m) == [i \in 1 .. k - 1 |-> IF i < m THEN at[i] ELSE at[i + 1]]
With(at, k, s) == [i \in 1 .. k + 1 |-> IF i = k + 1 THEN s ELSE at[i]]

\* Both are lists of slots.
LEMMA WithoutType ==
  ASSUME NEW k \in Nat, NEW at \in [1 .. k -> Slots], NEW m \in 1 .. k
  PROVE  /\ Without(at, k, m) \in [1 .. k - 1 -> Slots]
         /\ \A i \in 1 .. k - 1 : Without(at, k, m)[i] = IF i < m THEN at[i] ELSE at[i + 1]
<1>1. \A i \in 1 .. k - 1 : i \in 1 .. k /\ i + 1 \in 1 .. k  OBVIOUS
<1> QED BY <1>1 DEF Without

\* The same of one more.
LEMMA WithType ==
  ASSUME NEW k \in Nat, NEW at \in [1 .. k -> Slots], NEW s \in Slots
  PROVE  /\ With(at, k, s) \in [1 .. k + 1 -> Slots] /\ With(at, k, s)[k + 1] = s
         /\ \A i \in 1 .. k : With(at, k, s)[i] = at[i]
<1>1. \A i \in 1 .. k + 1 : i = k + 1 \/ i \in 1 .. k  OBVIOUS
<1>2. k + 1 \in 1 .. k + 1 /\ \A i \in 1 .. k : i \in 1 .. k + 1 /\ i # k + 1  OBVIOUS
<1> QED BY <1>1, <1>2 DEF With

\* The links of the m-th member of a list lead to its neighbours.
Beside(q, k, at, m) ==
  /\ q[at[m]].prev # at[m] /\ q[at[m]].next # at[m]
  /\ \A i \in 1 .. k : q[at[m]].prev = at[i] <=> i = m - 1
  /\ \A i \in 1 .. k : q[at[m]].next = at[i] <=> i = m + 1
  /\ q[at[m]].prev = None <=> m = 1
  /\ q[at[m]].next = None <=> m = k

\* They do in every list, and the neighbours are not the member itself.
LEMMA Neighbours ==
  ASSUME ConstAssumption, NEW q, NEW f, NEW l, NEW k \in Nat, NEW at \in [1 .. k -> Slots],
         IsList(q, f, l, k, at), NEW m \in 1 .. k
  PROVE  Beside(q, k, at, m)
<1>1. \A i, j \in 1 .. k : at[i] = at[j] => i = j  BY DEF IsList
<1>2. /\ q[at[m]].prev = IF m = 1 THEN None ELSE at[m - 1]
      /\ q[at[m]].next = IF m = k THEN None ELSE at[m + 1]
  BY DEF IsList
<1>3. \A i \in 1 .. k : at[i] # None  BY NoneNoSlot
<1>4. (m # 1 => m - 1 \in 1 .. k) /\ (m # k => m + 1 \in 1 .. k) /\ m - 1 # m /\ m + 1 # m
      /\ 0 \notin 1 .. k /\ k + 1 \notin 1 .. k
  OBVIOUS
<1>5. CASE m = 1 /\ m = k  BY <1>1, <1>2, <1>3, <1>4, <1>5 DEF Beside
<1>6. CASE m = 1 /\ m # k  BY <1>1, <1>2, <1>3, <1>4, <1>6 DEF Beside
<1>7. CASE m # 1 /\ m = k  BY <1>1, <1>2, <1>3, <1>4, <1>7 DEF Beside
<1>8. CASE m # 1 /\ m # k  BY <1>1, <1>2, <1>3, <1>4, <1>8 DEF Beside
<1> QED BY <1>5, <1>6, <1>7, <1>8

\* What Unlink writes is the list without the member.
LEMMA ListWithout ==
  ASSUME ConstAssumption, NEW q, NEW f, NEW l, NEW k \in Nat, NEW at \in [1 .. k -> Slots],
         IsList(q, f, l, k, at), NEW m \in 1 .. k, NEW U, IsUnlinked(q, f, l, at[m], U)
  PROVE  IsList(U.q, U.f, U.l, k - 1, Without(at, k, m))
<1> DEFINE w == Without(at, k, m)
           q2 == U.q
<1>0. /\ \A u \in Slots :
           /\ q2[u].next = IF u = q[at[m]].prev THEN q[at[m]].next ELSE q[u].next
           /\ q2[u].prev = IF u = q[at[m]].next THEN q[at[m]].prev ELSE q[u].prev
      /\ U.f = IF q[at[m]].prev = None THEN q[at[m]].next ELSE f
      /\ U.l = IF q[at[m]].next = None THEN q[at[m]].prev ELSE l
  BY DEF IsUnlinked
<1> HIDE DEF q2
<1>1. /\ w \in [1 .. k - 1 -> Slots]
      /\ \A i \in 1 .. k - 1 : w[i] = IF i < m THEN at[i] ELSE at[i + 1]
  BY WithoutType
<1> HIDE DEF w
<1>2. \A i, j \in 1 .. k : at[i] = at[j] => i = j  BY DEF IsList
<1>3. /\ q[at[m]].prev = IF m = 1 THEN None ELSE at[m - 1]
      /\ q[at[m]].next = IF m = k THEN None ELSE at[m + 1]
      /\ \A i \in 1 .. k : /\ q[at[m]].prev = at[i] <=> i = m - 1
                           /\ q[at[m]].next = at[i] <=> i = m + 1
      /\ q[at[m]].prev = None <=> m = 1
      /\ q[at[m]].next = None <=> m = k
  <2>1. /\ q[at[m]].prev = IF m = 1 THEN None ELSE at[m - 1]
        /\ q[at[m]].next = IF m = k THEN None ELSE at[m + 1]
    BY DEF IsList
  <2>2. Beside(q, k, at, m)  BY Neighbours
  <2> QED BY <2>1, <2>2 DEF Beside
<1>4. ASSUME NEW i \in 1 .. k - 1, NEW j \in 1 .. k - 1, w[i] = w[j] PROVE i = j
  <2>1. i \in 1 .. k /\ i + 1 \in 1 .. k /\ j \in 1 .. k /\ j + 1 \in 1 .. k  OBVIOUS
  <2>2. CASE i < m /\ j < m  BY <1>1, <1>2, <1>4, <2>1, <2>2
  <2>3. CASE i < m /\ ~ (j < m)
    <3>1. i = j + 1  BY <1>1, <1>2, <1>4, <2>1, <2>3
    <3> QED BY <2>3, <3>1
  <2>4. CASE ~ (i < m) /\ j < m
    <3>1. i + 1 = j  BY <1>1, <1>2, <1>4, <2>1, <2>4
    <3> QED BY <2>4, <3>1
  <2>5. CASE ~ (i < m) /\ ~ (j < m)
    <3>1. i + 1 = j + 1  BY <1>1, <1>2, <1>4, <2>1, <2>5
    <3> QED BY <3>1
  <2> QED BY <2>2, <2>3, <2>4, <2>5
<1>5. (IF q[at[m]].prev = None THEN q[at[m]].next ELSE f) = IF k - 1 = 0 THEN None ELSE w[1]
  <2>1. f = at[1]  BY DEF IsList
  <2>2. CASE k = 1  BY <1>3, <2>2
  <2>3. CASE k # 1
    <3>1. 1 \in 1 .. k - 1 /\ k - 1 # 0  BY <2>3
    <3>2. w[1] = IF 1 < m THEN at[1] ELSE at[1 + 1]  BY <1>1, <3>1
    <3>3. CASE m = 1  BY <1>3, <2>3, <3>1, <3>2, <3>3
    <3>4. CASE m # 1
      <4>1. 1 < m  BY <3>4
      <4> QED BY <1>3, <2>1, <3>1, <3>2, <3>4, <4>1
    <3> QED BY <3>3, <3>4
  <2> QED BY <2>2, <2>3
<1>6. (IF q[at[m]].next = None THEN q[at[m]].prev ELSE l) = IF k - 1 = 0 THEN None ELSE w[k - 1]
  <2>1. l = at[k]  BY DEF IsList
  <2>2. CASE k = 1  BY <1>3, <2>2
  <2>3. CASE k # 1
    <3>1. k - 1 \in 1 .. k - 1 /\ k - 1 # 0 /\ (k - 1) + 1 = k  BY <2>3
    <3>2. w[k - 1] = IF k - 1 < m THEN at[k - 1] ELSE at[k]  BY <1>1, <3>1
    <3>3. CASE m = k  BY <1>3, <2>3, <3>1, <3>2, <3>3
    <3>4. CASE m # k
      <4>1. ~ (k - 1 < m)  BY <3>4
      <4> QED BY <1>3, <2>1, <3>1, <3>2, <3>4, <4>1
    <3> QED BY <3>3, <3>4
  <2> QED BY <2>2, <2>3
<1>7. ASSUME NEW i \in 1 .. k - 1
      PROVE  /\ q2[w[i]].prev = IF i = 1 THEN None ELSE w[i - 1]
             /\ q2[w[i]].next = IF i = k - 1 THEN None ELSE w[i + 1]
  <2>1. i \in 1 .. k /\ i + 1 \in 1 .. k /\ w[i] \in Slots  BY <1>1
  <2>2. /\ i # 1 => i - 1 \in 1 .. k - 1
        /\ i # k - 1 => i + 1 \in 1 .. k - 1
        /\ (i - 1) + 1 = i
    OBVIOUS
  <2>3. CASE i < m
    <3>1. w[i] = at[i]  BY <1>1, <2>3
    <3>2. q2[w[i]].prev = IF i = 1 THEN None ELSE at[i - 1]
      <4>1. w[i] # q[at[m]].next  BY <1>3, <2>1, <2>3, <3>1
      <4>2. q[at[i]].prev = IF i = 1 THEN None ELSE at[i - 1]  BY <2>1 DEF IsList
      <4> QED BY <1>0, <2>1, <3>1, <4>1, <4>2
    <3>3. i # 1 => w[i - 1] = at[i - 1]
      <4>1. i - 1 < m  BY <2>3
      <4> QED BY <1>1, <2>2, <4>1
    <3>4. CASE i = m - 1
      <4>1. q2[w[i]].next = q[at[m]].next  BY <1>0, <1>3, <2>1, <3>1, <3>4
      <4>2. i # k - 1 => w[i + 1] = at[m + 1] /\ m # k
        <5>1. i + 1 = m /\ ~ (i + 1 < m) /\ (i + 1) + 1 = m + 1  BY <3>4
        <5> QED BY <1>1, <2>2, <3>4, <5>1
      <4>3. i = k - 1 => m = k  BY <3>4
      <4> QED BY <1>3, <3>2, <3>3, <4>1, <4>2, <4>3
    <3>5. CASE i # m - 1
      <4>1. i + 1 < m /\ i # k - 1 /\ i # k  BY <2>3, <3>5
      <4>2. w[i + 1] = at[i + 1]  BY <1>1, <2>2, <4>1
      <4>3. q2[w[i]].next = q[at[i]].next  BY <1>0, <1>3, <2>1, <3>1, <3>5
      <4>4. q[at[i]].next = at[i + 1]  BY <2>1, <4>1 DEF IsList
      <4> QED BY <3>2, <3>3, <4>1, <4>2, <4>3, <4>4
    <3> QED BY <3>4, <3>5
  <2>4. CASE ~ (i < m)
    <3>1. w[i] = at[i + 1]  BY <1>1, <2>4
    <3>2. q2[w[i]].next = IF i = k - 1 THEN None ELSE w[i + 1]
      <4>1. w[i] # q[at[m]].prev  BY <1>3, <2>1, <2>4, <3>1
      <4>2. q[at[i + 1]].next = IF i + 1 = k THEN None ELSE at[(i + 1) + 1]
        BY <2>1 DEF IsList
      <4>3. ~ (i + 1 < m) /\ (i + 1 = k <=> i = k - 1)  BY <2>4
      <4>4. i # k - 1 => w[i + 1] = at[(i + 1) + 1]  BY <1>1, <2>2, <4>3
      <4> QED BY <1>0, <2>1, <3>1, <4>1, <4>2, <4>3, <4>4
    <3>3. CASE i = m
      <4>1. q2[w[i]].prev = q[at[m]].prev  BY <1>0, <1>3, <2>1, <3>1, <3>3
      <4>2. i # 1 => w[i - 1] = at[i - 1]
        <5>1. i - 1 < m  BY <3>3
        <5> QED BY <1>1, <2>2, <5>1
      <4> QED BY <1>3, <3>2, <3>3, <4>1, <4>2
    <3>4. CASE i # m
      <4>1. i # 1 /\ ~ (i - 1 < m) /\ i + 1 # 1  BY <2>4, <3>4
      <4>2. w[i - 1] = at[i]  BY <1>1, <2>2, <4>1
      <4>3. q2[w[i]].prev = q[at[i + 1]].prev  BY <1>0, <1>3, <2>1, <3>1, <3>4
      <4>4. q[at[i + 1]].prev = at[(i + 1) - 1] /\ (i + 1) - 1 = i  BY <2>1, <4>1 DEF IsList
      <4> QED BY <3>2, <4>1, <4>2, <4>3, <4>4
    <3> QED BY <3>3, <3>4
  <2> QED BY <2>3, <2>4
<1> QED BY <1>0, <1>4, <1>5, <1>6, <1>7 DEF IsList, w, q2

\* What LinkLast writes is the list with one more member.
LEMMA ListWith ==
  ASSUME ConstAssumption, NEW q, NEW f, NEW l, NEW k \in Nat, NEW at \in [1 .. k -> Slots],
         IsList(q, f, l, k, at), NEW s \in Slots, \A i \in 1 .. k : at[i] # s,
         NEW U, IsLinkedLast(q, f, l, s, U)
  PROVE  IsList(U.q, U.f, U.l, k + 1, With(at, k, s))
<1> DEFINE w == With(at, k, s)
           q2 == U.q
<1>0. /\ \A u \in Slots :
           /\ q2[u].next = IF u = s THEN None ELSE IF u = l THEN s ELSE q[u].next
           /\ q2[u].prev = IF u = s THEN l ELSE q[u].prev
      /\ U.f = IF f = None THEN s ELSE f
      /\ U.l = s
  BY DEF IsLinkedLast
<1> HIDE DEF q2
<1>1. /\ w \in [1 .. k + 1 -> Slots] /\ w[k + 1] = s
      /\ \A i \in 1 .. k : w[i] = at[i]
  BY WithType
<1> HIDE DEF w
<1>2. \A i, j \in 1 .. k : at[i] = at[j] => i = j  BY DEF IsList
<1>3. \A i \in 1 .. k + 1 : i = k + 1 \/ i \in 1 .. k  OBVIOUS
<1>4. \A i, j \in 1 .. k + 1 : w[i] = w[j] => i = j  BY <1>1, <1>2, <1>3
<1>5. (IF f = None THEN s ELSE f) = IF k + 1 = 0 THEN None ELSE w[1]
  <2>1. CASE k = 0  BY <1>1, <2>1 DEF IsList
  <2>2. CASE k # 0
    <3>1. 1 \in 1 .. k  BY <2>2
    <3>2. f = at[1] /\ f # None  BY <2>2, <3>1, NoneNoSlot DEF IsList
    <3> QED BY <1>1, <3>1, <3>2
  <2> QED BY <2>1, <2>2
<1>6. ASSUME NEW i \in 1 .. k + 1
      PROVE  /\ q2[w[i]].prev = IF i = 1 THEN None ELSE w[i - 1]
             /\ q2[w[i]].next = IF i = k + 1 THEN None ELSE w[i + 1]
  <2>1. CASE i = k + 1
    <3>1. q2[w[i]].next = None /\ q2[w[i]].prev = l  BY <1>0, <1>1, <2>1
    <3>2. l = IF i = 1 THEN None ELSE w[i - 1]
      <4>1. CASE k = 0  BY <2>1, <4>1 DEF IsList
      <4>2. CASE k # 0
        <5>1. k \in 1 .. k /\ i - 1 = k /\ i # 1  BY <2>1, <4>2
        <5> QED BY <1>1, <4>2, <5>1 DEF IsList
      <4> QED BY <4>1, <4>2
    <3> QED BY <2>1, <3>1, <3>2
  <2>2. CASE i \in 1 .. k
    <3>1. w[i] = at[i] /\ at[i] # s /\ at[i] \in Slots  BY <1>1, <2>2
    <3>2. i # 1 => i - 1 \in 1 .. k  BY <2>2
    <3>3. q2[w[i]].prev = IF i = 1 THEN None ELSE w[i - 1]
      BY <1>0, <1>1, <2>2, <3>1, <3>2 DEF IsList
    <3>4. k # 0 /\ l = at[k] /\ k \in 1 .. k /\ i # k + 1  BY <2>2 DEF IsList
    <3>5. CASE i = k  BY <1>0, <1>1, <3>1, <3>3, <3>4, <3>5
    <3>6. CASE i # k
      <4>1. at[i] # l /\ i + 1 \in 1 .. k  BY <1>2, <2>2, <3>4, <3>6
      <4>2. q2[w[i]].next = at[i + 1]  BY <1>0, <2>2, <3>1, <3>6, <4>1 DEF IsList
      <4> QED BY <1>1, <3>3, <3>4, <4>1, <4>2
    <3> QED BY <3>5, <3>6
  <2> QED BY <1>3, <2>1, <2>2
<1>7. k + 1 # 0 /\ s = w[k + 1]  BY <1>1
<1> QED BY <1>0, <1>4, <1>5, <1>6, <1>7 DEF IsList, w, q2

\* Whether a list holds its slots does not depend on the links.
LEMMA HoldsWithout ==
  ASSUME NEW S, NEW k \in Nat, NEW at \in [1 .. k -> Slots], NEW m \in 1 .. k,
         Holds(S, k, at), \A i, j \in 1 .. k : at[i] = at[j] => i = j
  PROVE  Holds(S \ {at[m]}, k - 1, Without(at, k, m))
<1> DEFINE w == Without(at, k, m)
<1>1. /\ w \in [1 .. k - 1 -> Slots]
      /\ \A i \in 1 .. k - 1 : w[i] = IF i < m THEN at[i] ELSE at[i + 1]
  BY WithoutType
<1> HIDE DEF w
<1> SUFFICES ASSUME NEW s \in Slots
             PROVE  s \in S \ {at[m]} <=> \E i \in 1 .. k - 1 : w[i] = s
  BY DEF Holds, w
<1>2. ASSUME s \in S, s # at[m] PROVE \E i \in 1 .. k - 1 : w[i] = s
  <2>1. PICK i \in 1 .. k : at[i] = s  BY <1>2 DEF Holds
  <2>2. CASE i < m
    <3>1. i \in 1 .. k - 1  BY <2>2
    <3> QED BY <1>1, <2>1, <2>2, <3>1
  <2>3. CASE i > m
    <3>1. i - 1 \in 1 .. k - 1 /\ ~ (i - 1 < m) /\ (i - 1) + 1 = i  BY <2>3
    <3>2. w[i - 1] = at[i]  BY <1>1, <3>1
    <3> QED BY <2>1, <3>1, <3>2
  <2>4. i # m  BY <1>2, <2>1
  <2> QED BY <2>2, <2>3, <2>4
<1>3. ASSUME NEW i \in 1 .. k - 1, w[i] = s PROVE s \in S /\ s # at[m]
  <2>1. i \in 1 .. k /\ i + 1 \in 1 .. k  OBVIOUS
  <2>2. CASE i < m
    <3>1. s = at[i] /\ i # m  BY <1>1, <1>3, <2>2
    <3> QED BY <2>1, <3>1 DEF Holds
  <2>3. CASE ~ (i < m)
    <3>1. s = at[i + 1] /\ i + 1 # m  BY <1>1, <1>3, <2>3
    <3> QED BY <2>1, <3>1 DEF Holds
  <2> QED BY <2>2, <2>3
<1> QED BY <1>2, <1>3

\* Nor does it with one more.
LEMMA HoldsWith ==
  ASSUME NEW S, NEW k \in Nat, NEW at \in [1 .. k -> Slots], NEW s \in Slots, Holds(S, k, at)
  PROVE  Holds(S \cup {s}, k + 1, With(at, k, s))
<1> DEFINE w == With(at, k, s)
<1>1. /\ w \in [1 .. k + 1 -> Slots] /\ w[k + 1] = s
      /\ \A i \in 1 .. k : w[i] = at[i]
  BY WithType
<1>2. \A i \in 1 .. k + 1 : i = k + 1 \/ i \in 1 .. k  OBVIOUS
<1>3. k + 1 \in 1 .. k + 1 /\ \A i \in 1 .. k : i \in 1 .. k + 1  OBVIOUS
<1> HIDE DEF w
<1> QED BY <1>1, <1>2, <1>3 DEF Holds, w
---------------------------------------------------------------------------
(* What the operations do to the table *)

\* The data of a slot is written, as radius_queue_out, radius_queue_reschedule
\* and radius_queue_in do.
Freed(q, s) == [q EXCEPT ![s].state = 0, ![s].p = NoPacket]
Again(q, s, srv) ==
  [q EXCEPT ![s].retrans = @ + 1, ![s].timeout = Timeout, ![s].lastsent = srv]
Filled(q, s, r, id) ==
  [q EXCEPT ![s] = [@ EXCEPT !.state = 1, !.p = [id |-> id, req |-> r], !.cbp = r,
                             !.retrans = 0, !.timeout = Timeout, !.lastsent = lastreply]]

\* q2 is table q with c in slot s.
Wrote(q, s, c, q2) ==
  q2 \in [Slots -> Cells] /\ q2[s] = c /\ \A u \in Slots \ {s} : q2[u] = q[u]

\* A slot is freed.
LEMMA FreedCells ==
  ASSUME NEW q \in [Slots -> Cells], NEW s \in Slots
  PROVE  Wrote(q, s, [q[s] EXCEPT !.state = 0, !.p = NoPacket], Freed(q, s))
<1> DEFINE c == [q[s] EXCEPT !.state = 0, !.p = NoPacket]
<1>1. q[s] \in Cells  OBVIOUS
<1>2. c \in Cells  BY <1>1 DEF Cells
<1>3. Freed(q, s) = [q EXCEPT ![s] = c]  BY <1>1 DEF Cells, Freed
<1> HIDE DEF c
<1>4. [q EXCEPT ![s] = c] \in [Slots -> Cells]
      /\ (\A u \in Slots \ {s} : [q EXCEPT ![s] = c][u] = q[u])
      /\ [q EXCEPT ![s] = c][s] = c
  BY <1>2
<1> QED BY <1>3, <1>4 DEF c, Wrote

\* A request is sent again.
LEMMA AgainCells ==
  ASSUME ConstAssumption, NEW q \in [Slots -> Cells], NEW s \in Slots, NEW srv \in Servers,
         q[s].retrans < Retry
  PROVE  Wrote(q, s, [q[s] EXCEPT !.retrans = @ + 1, !.timeout = Timeout, !.lastsent = srv],
               Again(q, s, srv))
<1> DEFINE c == [q[s] EXCEPT !.retrans = @ + 1, !.timeout = Timeout, !.lastsent = srv]
<1>1. q[s] \in Cells  OBVIOUS
<1>2. c \in Cells
  <2>1. q[s].retrans + 1 \in 0 .. Retry  BY <1>1 DEF Cells, ConstAssumption
  <2>2. Timeout \in -MaxBack .. Timeout + MaxBack  BY DEF ConstAssumption
  <2> QED BY <1>1, <2>1, <2>2 DEF Cells
<1>3. Again(q, s, srv) = [q EXCEPT ![s] = c]  BY <1>1 DEF Cells, Again
<1> HIDE DEF c
<1>4. [q EXCEPT ![s] = c] \in [Slots -> Cells]
      /\ (\A u \in Slots \ {s} : [q EXCEPT ![s] = c][u] = q[u])
      /\ [q EXCEPT ![s] = c][s] = c
  BY <1>2
<1> QED BY <1>3, <1>4 DEF c, Wrote

\* A request is put in a slot.
LEMMA FilledCells ==
  ASSUME ConstAssumption, NEW q \in [Slots -> Cells], NEW s \in Slots, NEW r \in Req,
         NEW id \in 0 .. IdSpace - 1, lastreply \in Servers
  PROVE  Wrote(q, s, [q[s] EXCEPT !.state = 1, !.p = [id |-> id, req |-> r], !.cbp = r,
                            !.retrans = 0, !.timeout = Timeout, !.lastsent = lastreply],
               Filled(q, s, r, id))
<1> DEFINE c == [q[s] EXCEPT !.state = 1, !.p = [id |-> id, req |-> r], !.cbp = r,
                             !.retrans = 0, !.timeout = Timeout, !.lastsent = lastreply]
<1>1. q[s] \in Cells  OBVIOUS
<1>2. c \in Cells
  <2>1. 0 \in 0 .. Retry  BY DEF ConstAssumption
  <2>2. Timeout \in -MaxBack .. Timeout + MaxBack  BY DEF ConstAssumption
  <2> QED BY <1>1, <2>1, <2>2 DEF Cells
<1>3. Filled(q, s, r, id) = [q EXCEPT ![s] = c]  BY <1>1 DEF Cells, Filled
<1> HIDE DEF c
<1>4. [q EXCEPT ![s] = c] \in [Slots -> Cells]
      /\ (\A u \in Slots \ {s} : [q EXCEPT ![s] = c][u] = q[u])
      /\ [q EXCEPT ![s] = c][s] = c
  BY <1>2
<1> QED BY <1>3, <1>4 DEF c, Wrote

\* A list is a list in any table that has its links.
LEMMA ListSame ==
  ASSUME NEW q, NEW f, NEW l, NEW k \in Nat, NEW at \in [1 .. k -> Slots],
         IsList(q, f, l, k, at), NEW q2,
         \A u \in Slots : q2[u].next = q[u].next /\ q2[u].prev = q[u].prev
  PROVE  IsList(q2, f, l, k, at)
BY DEF IsList

\* The member that is left out of a list is not in it.
LEMMA NotInWithout ==
  ASSUME NEW k \in Nat, NEW at \in [1 .. k -> Slots], NEW m \in 1 .. k,
         \A i, j \in 1 .. k : at[i] = at[j] => i = j
  PROVE  \A i \in 1 .. k - 1 : Without(at, k, m)[i] # at[m]
<1> SUFFICES ASSUME NEW i \in 1 .. k - 1 PROVE Without(at, k, m)[i] # at[m]  OBVIOUS
<1>1. Without(at, k, m)[i] = IF i < m THEN at[i] ELSE at[i + 1]  BY WithoutType
<1>2. i \in 1 .. k /\ i + 1 \in 1 .. k  OBVIOUS
<1>3. CASE i < m
  <2>1. i # m  BY <1>3
  <2> QED BY <1>1, <1>2, <1>3, <2>1
<1>4. CASE ~ (i < m)
  <2>1. i + 1 # m  BY <1>4
  <2> QED BY <1>1, <1>2, <1>4, <2>1
<1> QED BY <1>3, <1>4

\* The ends of a list are slots, or None.
LEMMA ListEnds ==
  ASSUME NEW q, NEW f, NEW l, NEW k \in Nat, NEW at \in [1 .. k -> Slots],
         IsList(q, f, l, k, at)
  PROVE  /\ f \in Slots \cup {None} /\ l \in Slots \cup {None}
         /\ l = None \/ \E i \in 1 .. k : l = at[i]
<1>1. CASE k = 0  BY <1>1 DEF IsList
<1>2. CASE k # 0
  <2>1. 1 \in 1 .. k /\ k \in 1 .. k  BY <1>2
  <2> QED BY <1>2, <2>1 DEF IsList
<1> QED BY <1>1, <1>2

\* What radius_queue_out does to the list.
LEMMA OutList ==
  ASSUME ConstAssumption, queue \in [Slots -> Cells],
         NEW k \in Nat, NEW at \in [1 .. k -> Slots], IsList(queue, first, last, k, at),
         NEW m \in 1 .. k, radius_queue_out(at[m])
  PROVE  /\ queue' \in [Slots -> Cells]
         /\ \A u \in Slots : u # at[m] => Same(queue'[u], queue[u])
         /\ \A u \in Slots : queue'[u].timeout = queue[u].timeout
         /\ queue'[at[m]].state = 0 /\ queue'[at[m]].p = NoPacket
         /\ IsList(queue', first', last', k - 1, Without(at, k, m))
<1> DEFINE s == at[m]
           U == Unlink([q |-> queue, f |-> first, l |-> last], s)
           c == [U.q[s] EXCEPT !.state = 0, !.p = NoPacket]
<1>1. s \in Slots  OBVIOUS
<1>2. Beside(queue, k, at, m)  BY Neighbours
<1>3. queue[s].next # s /\ queue[s].prev # s  BY <1>2 DEF Beside
<1>4. U = [q |-> U.q, f |-> U.f, l |-> U.l]  BY DEF Unlink
<1>5. queue' = [U EXCEPT !.q[s].state = 0, !.q[s].p = NoPacket].q
      /\ first' = [U EXCEPT !.q[s].state = 0, !.q[s].p = NoPacket].f
      /\ last' = [U EXCEPT !.q[s].state = 0, !.q[s].p = NoPacket].l
  BY DEF radius_queue_out, SetList, ListNow
<1> HIDE DEF s
<1>6. IsUnlinked(queue, first, last, s, U)  BY <1>1, <1>3, UnlinkCells
<1> HIDE DEF U
<1>7. queue' = Freed(U.q, s) /\ first' = U.f /\ last' = U.l  BY <1>4, <1>5 DEF Freed
<1>8. U.q \in [Slots -> Cells] /\ U.q[s] \in Cells  BY <1>1, <1>6 DEF IsUnlinked
<1>9. Wrote(U.q, s, c, queue')  BY <1>1, <1>7, <1>8, FreedCells
<1>10. /\ c.state = 0 /\ c.p = NoPacket /\ c.next = U.q[s].next /\ c.prev = U.q[s].prev
       /\ c.timeout = U.q[s].timeout
  BY <1>8 DEF Cells
<1> HIDE DEF c
<1>11. \A u \in Slots : /\ queue'[u].next = U.q[u].next /\ queue'[u].prev = U.q[u].prev
                        /\ queue'[u].timeout = U.q[u].timeout
                        /\ u # s => queue'[u] = U.q[u]
  BY <1>9, <1>10 DEF Wrote
<1>12. \A u \in Slots : Same(U.q[u], queue[u])  BY <1>6 DEF IsUnlinked
<1>13. \A u \in Slots : queue'[u].timeout = queue[u].timeout  BY <1>11, <1>12 DEF Same
<1>14. IsList(U.q, U.f, U.l, k - 1, Without(at, k, m))  BY <1>6, ListWithout DEF s
<1>15. Without(at, k, m) \in [1 .. k - 1 -> Slots] /\ k - 1 \in Nat  BY WithoutType
<1>16. IsList(queue', U.f, U.l, k - 1, Without(at, k, m))  BY <1>11, <1>14, <1>15, ListSame
<1>17. queue' \in [Slots -> Cells] /\ queue'[s].state = 0 /\ queue'[s].p = NoPacket
  BY <1>9, <1>10 DEF Wrote
<1> QED BY <1>7, <1>11, <1>12, <1>13, <1>16, <1>17 DEF s

\* What radius_queue_reschedule does: the request is the last one, with a new
\* time-out.
LEMMA RescheduleList ==
  ASSUME ConstAssumption, queue \in [Slots -> Cells],
         NEW k \in Nat, NEW at \in [1 .. k -> Slots], IsList(queue, first, last, k, at),
         NEW m \in 1 .. k, NEW srv \in Servers, queue[at[m]].retrans < Retry,
         radius_queue_reschedule(at[m], srv)
  PROVE  /\ queue' \in [Slots -> Cells]
         /\ \A u \in Slots : u # at[m] => Same(queue'[u], queue[u])
         /\ Same(queue'[at[m]], [queue[at[m]] EXCEPT !.retrans = @ + 1, !.timeout = Timeout,
                                                      !.lastsent = srv])
         /\ IsList(queue', first', last', (k - 1) + 1,
                   With(Without(at, k, m), k - 1, at[m]))
<1> DEFINE s == at[m]
           c == [queue[s] EXCEPT !.retrans = @ + 1, !.timeout = Timeout, !.lastsent = srv]
           q1 == Again(queue, s, srv)
           U == Unlink([q |-> q1, f |-> first, l |-> last], s)
           V == LinkLast([q |-> U.q, f |-> U.f, l |-> U.l], s)
           w == Without(at, k, m)
<1>1. s \in Slots /\ queue[s] \in Cells  OBVIOUS
<1>2. queue' = V.q /\ first' = V.f /\ last' = V.l
  <2>1. U = [q |-> U.q, f |-> U.f, l |-> U.l]  BY DEF Unlink
  <2>2. [ListNow EXCEPT !.q = q1] = [q |-> q1, f |-> first, l |-> last]  BY DEF ListNow
  <2>3. Reschedule(s, srv) = LinkLast(U, s)  BY <2>2 DEF Reschedule, Again
  <2> HIDE DEF U, s
  <2>4. LinkLast(U, s) = V  BY <2>1
  <2> HIDE DEF V
  <2> QED BY <2>3, <2>4 DEF radius_queue_reschedule, SetList, s
<1>3. Wrote(queue, s, c, q1)
  <2> HIDE DEF s
  <2>1. queue[s].retrans < Retry  BY DEF s
  <2> QED BY <1>1, <2>1, AgainCells
<1> HIDE DEF q1, s
<1>4. c.next = queue[s].next /\ c.prev = queue[s].prev  BY <1>1 DEF Cells
<1> HIDE DEF c
<1>5. q1 \in [Slots -> Cells]
      /\ \A u \in Slots : q1[u].next = queue[u].next /\ q1[u].prev = queue[u].prev
  BY <1>3, <1>4 DEF Wrote
<1>6. IsList(q1, first, last, k, at)  BY <1>5, ListSame
<1>7. Beside(q1, k, at, m)  BY <1>6, Neighbours
<1>8. q1[s].next # s /\ q1[s].prev # s  BY <1>7 DEF Beside, s
<1>9. IsUnlinked(q1, first, last, s, U)  BY <1>1, <1>5, <1>8, UnlinkCells
<1> HIDE DEF U
<1>10. IsList(U.q, U.f, U.l, k - 1, w)  BY <1>6, <1>9, ListWithout DEF s
<1>11. w \in [1 .. k - 1 -> Slots] /\ k - 1 \in Nat  BY WithoutType
<1>12. \A i \in 1 .. k - 1 : w[i] # s
  <2>1. \A i, j \in 1 .. k : at[i] = at[j] => i = j  BY DEF IsList
  <2> QED BY <2>1, NotInWithout DEF s
<1> HIDE DEF w
<1>13. U.l \in Slots \cup {None} /\ U.l # s
  <2>1. U.l \in Slots \cup {None} /\ (U.l = None \/ \E i \in 1 .. k - 1 : U.l = w[i])
    BY <1>10, <1>11, ListEnds
  <2> QED BY <1>1, <1>12, <2>1, NoneNoSlot
<1>14. U.q \in [Slots -> Cells] /\ \A u \in Slots : Same(U.q[u], q1[u])
  BY <1>9 DEF IsUnlinked
<1>15. IsLinkedLast(U.q, U.f, U.l, s, V)  BY <1>1, <1>13, <1>14, LinkLastCells
<1> HIDE DEF V
<1>16. IsList(V.q, V.f, V.l, (k - 1) + 1, With(w, k - 1, s))
  BY <1>1, <1>10, <1>11, <1>12, <1>15, ListWith
<1>17. V.q \in [Slots -> Cells] /\ \A u \in Slots : Same(V.q[u], U.q[u])
  BY <1>15 DEF IsLinkedLast
<1>18. \A u \in Slots : Same(V.q[u], q1[u])  BY <1>14, <1>17, SameTwice
<1>19. q1[s] = c /\ \A u \in Slots \ {s} : q1[u] = queue[u]  BY <1>3 DEF Wrote
<1>20. Same(queue'[s], c) /\ \A u \in Slots : u # s => Same(queue'[u], queue[u])
  BY <1>1, <1>2, <1>18, <1>19
<1> QED BY <1>2, <1>16, <1>17, <1>20 DEF w, c, s

\* What radius_queue_in does: the request is the last one.
LEMMA InsertList ==
  ASSUME ConstAssumption, queue \in [Slots -> Cells], lastreply \in Servers,
         NEW k \in Nat, NEW at \in [1 .. k -> Slots], IsList(queue, first, last, k, at),
         NEW s \in Slots, \A i \in 1 .. k : at[i] # s, NEW r \in Req,
         NEW id \in 0 .. IdSpace - 1, SetList(Insert(s, r, id))
  PROVE  /\ queue' \in [Slots -> Cells]
         /\ \A u \in Slots : u # s => Same(queue'[u], queue[u])
         /\ Same(queue'[s], [queue[s] EXCEPT !.state = 1, !.p = [id |-> id, req |-> r],
                               !.cbp = r, !.retrans = 0, !.timeout = Timeout,
                               !.lastsent = lastreply])
         /\ IsList(queue', first', last', k + 1, With(at, k, s))
<1> DEFINE c == [queue[s] EXCEPT !.state = 1, !.p = [id |-> id, req |-> r], !.cbp = r,
                                 !.retrans = 0, !.timeout = Timeout, !.lastsent = lastreply]
           q1 == Filled(queue, s, r, id)
           V == LinkLast([q |-> q1, f |-> first, l |-> last], s)
<1>1. queue[s] \in Cells  OBVIOUS
<1>2. queue' = V.q /\ first' = V.f /\ last' = V.l
  <2>1. Insert(s, r, id) = V  BY DEF Insert, ListNow, Filled
  <2> HIDE DEF V
  <2> QED BY <2>1 DEF SetList
<1>3. Wrote(queue, s, c, q1)  BY FilledCells
<1> HIDE DEF q1
<1>4. c.next = queue[s].next /\ c.prev = queue[s].prev  BY <1>1 DEF Cells
<1> HIDE DEF c
<1>5. q1 \in [Slots -> Cells]
      /\ \A u \in Slots : q1[u].next = queue[u].next /\ q1[u].prev = queue[u].prev
  BY <1>3, <1>4 DEF Wrote
<1>6. IsList(q1, first, last, k, at)  BY <1>5, ListSame
<1>7. last \in Slots \cup {None} /\ last # s
  <2>1. last \in Slots \cup {None} /\ (last = None \/ \E i \in 1 .. k : last = at[i])
    BY ListEnds
  <2> QED BY <2>1, NoneNoSlot
<1>8. IsLinkedLast(q1, first, last, s, V)  BY <1>5, <1>7, LinkLastCells
<1> HIDE DEF V
<1>9. IsList(V.q, V.f, V.l, k + 1, With(at, k, s))  BY <1>6, <1>8, ListWith
<1>10. V.q \in [Slots -> Cells] /\ \A u \in Slots : Same(V.q[u], q1[u])
  BY <1>8 DEF IsLinkedLast
<1>11. q1[s] = c /\ \A u \in Slots \ {s} : q1[u] = queue[u]  BY <1>3 DEF Wrote
<1>12. Same(queue'[s], c) /\ \A u \in Slots : u # s => Same(queue'[u], queue[u])
  BY <1>2, <1>10, <1>11
<1> QED BY <1>2, <1>9, <1>10, <1>12 DEF c
\* A set of natural numbers has a least one.
LEMMA Least ==
  ASSUME NEW T \in SUBSET Nat, T # {}
  PROVE  \E x \in T : \A y \in T : x <= y
<1>1. \E x \in T : \A y \in T : ~ (<<y, x>> \in OpToRel(<, Nat))
  BY WFMin, NatLessThanWellFounded
<1>2. \A x, y \in Nat : <<y, x>> \in OpToRel(<, Nat) <=> y < x  BY DEF OpToRel
<1> HIDE DEF OpToRel
<1>3. PICK x \in T : \A y \in T : ~ (<<y, x>> \in OpToRel(<, Nat))  BY <1>1
<1>4. ASSUME NEW y \in T PROVE x <= y
  <2>1. x \in Nat /\ y \in Nat  OBVIOUS
  <2>2. ~ (y < x)  BY <1>2, <1>3, <2>1
  <2> QED BY <2>1, <2>2
<1> QED BY <1>4

\* The links lead from first through the list, and then to None.
LEMMA NthIs ==
  ASSUME ConstAssumption, NEW k \in Nat, NEW at \in [1 .. k -> Slots],
         IsList(queue, first, last, k, at)
  PROVE  \A n \in 0 .. QSize : Nth[n] = IF n < k THEN at[n + 1] ELSE None
<1> DEFINE g == [n \in 0 .. QSize |-> IF n < k THEN at[n + 1] ELSE None]
           F(f) == [n \in 0 .. QSize |->
                     IF n = 0 THEN first
                     ELSE IF f[n - 1] = None THEN None ELSE queue[f[n - 1]].next]
<1>1. ASSUME NEW n \in 0 .. QSize, n # 0
      PROVE  /\ n - 1 \in 0 .. QSize
             /\ g[n - 1] = IF n - 1 < k THEN at[n] ELSE None
             /\ g[n] = IF g[n - 1] = None THEN None ELSE queue[g[n - 1]].next
  <2>1. n - 1 \in 0 .. QSize /\ (n - 1) + 1 = n /\ n - 1 # QSize
    BY <1>1 DEF ConstAssumption
  <2>2. g[n - 1] = IF n - 1 < k THEN at[n] ELSE None  BY <2>1
  <2>3. g[n] = IF n < k THEN at[n + 1] ELSE None  OBVIOUS
  <2> HIDE DEF g
  <2>4. CASE n - 1 < k
    <3>1. n \in 1 .. k /\ (n < k <=> n # k)  BY <1>1, <2>4
    <3>2. at[n] # None  BY <3>1, NoneNoSlot
    <3>3. queue[at[n]].next = IF n = k THEN None ELSE at[n + 1]  BY <3>1 DEF IsList
    <3> QED BY <2>1, <2>2, <2>3, <2>4, <3>1, <3>2, <3>3
  <2>5. CASE ~ (n - 1 < k)
    <3>1. ~ (n < k)  BY <1>1, <2>5
    <3> QED BY <2>1, <2>2, <2>3, <2>5, <3>1
  <2> QED BY <2>4, <2>5
<1>2. g[0] = first
  <2>1. 0 \in 0 .. QSize /\ 0 + 1 = 1 /\ (0 < k <=> k # 0)  BY DEF ConstAssumption
  <2>2. g[0] = IF 0 < k THEN at[0 + 1] ELSE None  BY <2>1
  <2>3. first = IF k = 0 THEN None ELSE at[1]  BY DEF IsList
  <2> QED BY <2>1, <2>2, <2>3
<1>3. \A n \in 0 .. QSize : g[n] = IF n < k THEN at[n + 1] ELSE None  OBVIOUS
<1>4. g = F(g)
  <2>1. g = [n \in 0 .. QSize |-> g[n]]  OBVIOUS
  <2> HIDE DEF g
  <2>2. \A n \in 0 .. QSize : g[n] = IF n = 0 THEN first
                     ELSE IF g[n - 1] = None THEN None ELSE queue[g[n - 1]].next
    BY <1>1, <1>2
  <2> QED BY <2>1, <2>2
<1>5. Nth = CHOOSE f : f = F(f)  BY DEF Nth
<1> HIDE DEF g
<1>6. Nth = F(Nth)
  <2> HIDE DEF F
  <2> QED BY <1>4, <1>5
<1>7. Nth[0] = first /\ \A n \in 0 .. QSize : n # 0 =>
        Nth[n] = IF Nth[n - 1] = None THEN None ELSE queue[Nth[n - 1]].next
  <2>1. 0 \in 0 .. QSize  BY DEF ConstAssumption
  <2> HIDE DEF Nth
  <2> QED BY <1>6, <2>1
<1>8. \A n \in 0 .. QSize : Nth[n] = g[n]
  <2> DEFINE T == {n \in 0 .. QSize : Nth[n] # g[n]}
  <2> SUFFICES ASSUME T # {} PROVE FALSE  OBVIOUS
  <2>1. T \in SUBSET Nat  OBVIOUS
  <2>2. PICK x \in T : \A y \in T : x <= y
    <3> HIDE DEF T
    <3> QED BY <2>1, Least
  <2>3. x # 0 /\ x \in 0 .. QSize  BY <1>2, <1>7
  <2>4. x - 1 \in 0 .. QSize /\ ~ (x <= x - 1)  BY <2>3, <1>1
  <2>5. Nth[x - 1] = g[x - 1]  BY <2>2, <2>4
  <2>6. Nth[x] = g[x]  BY <1>1, <1>7, <2>3, <2>5
  <2> QED BY <2>6
<1> QED BY <1>3, <1>8
\* A list of different slots is not longer than the table.
LEMMA ListFits ==
  ASSUME ConstAssumption, NEW k \in Nat, NEW at \in [1 .. k -> Slots],
         \A i, j \in 1 .. k : at[i] = at[j] => i = j
  PROVE  k <= QSize
<1>1. IsFiniteSet(Slots) /\ Cardinality(Slots) = QSize
  <2>1. QSize \in Nat /\ QSize # 0  BY DEF ConstAssumption
  <2>2. IsFiniteSet(0 .. QSize - 1)
        /\ Cardinality(0 .. QSize - 1) = IF 0 > QSize - 1 THEN 0 ELSE (QSize - 1) - 0 + 1
    BY <2>1, FS_Interval
  <2> QED BY <2>1, <2>2 DEF Slots
<1>2. IsFiniteSet(1 .. k) /\ Cardinality(1 .. k) = k
  <2>1. IsFiniteSet(1 .. k) /\ Cardinality(1 .. k) = IF 1 > k THEN 0 ELSE k - 1 + 1
    BY FS_Interval
  <2> QED BY <2>1
<1>3. SUFFICES ASSUME k > QSize PROVE FALSE  BY DEF ConstAssumption
<1>4. Cardinality(Slots) < Cardinality(1 .. k)  BY <1>1, <1>2, <1>3 DEF ConstAssumption
<1>5. \E i, j \in 1 .. k : i # j /\ at[i] = at[j]  BY <1>1, <1>2, <1>4, FS_PigeonHole
<1> QED BY <1>5

\* A list without one of its members is in order if it was.
LEMMA SortedWithout ==
  ASSUME NEW q, NEW k \in Nat, NEW at \in [1 .. k -> Slots], NEW m \in 1 .. k,
         Sorted(q, k, at), NEW q2,
         \A i \in 1 .. k - 1 : q2[Without(at, k, m)[i]].timeout = q[Without(at, k, m)[i]].timeout
  PROVE  Sorted(q2, k - 1, Without(at, k, m))
<1> DEFINE w == Without(at, k, m)
<1>1. \A i \in 1 .. k - 1 : w[i] = IF i < m THEN at[i] ELSE at[i + 1]  BY WithoutType
<1>2. \A i \in 1 .. k - 1 : q2[w[i]].timeout = q[w[i]].timeout  OBVIOUS
<1> HIDE DEF w
<1>3. ASSUME NEW i \in 1 .. k - 1, NEW j \in 1 .. k - 1, i <= j
      PROVE  q2[w[i]].timeout <= q2[w[j]].timeout
  <2>1. i \in 1 .. k /\ i + 1 \in 1 .. k /\ j \in 1 .. k /\ j + 1 \in 1 .. k  OBVIOUS
  <2>2. i <= j /\ i <= j + 1 /\ i + 1 <= j + 1  BY <1>3
  <2>3. i < m \/ ~ (j < m)  BY <1>3
  <2>4. q[w[i]].timeout <= q[w[j]].timeout
    <3>1. CASE i < m /\ j < m  BY <1>1, <2>1, <2>2, <3>1 DEF Sorted
    <3>2. CASE i < m /\ ~ (j < m)  BY <1>1, <2>1, <2>2, <3>2 DEF Sorted
    <3>3. CASE ~ (i < m) /\ ~ (j < m)  BY <1>1, <2>1, <2>2, <3>3 DEF Sorted
    <3> QED BY <2>3, <3>1, <3>2, <3>3
  <2> QED BY <1>2, <2>4
<1> QED BY <1>3 DEF Sorted, w

\* A list with one more is in order if the new one times out last.
LEMMA SortedWith ==
  ASSUME NEW q, NEW k \in Nat, NEW at \in [1 .. k -> Slots], NEW s \in Slots,
         Sorted(q, k, at), NEW q2, q2[s].timeout \in Int,
         \A i \in 1 .. k : /\ q2[at[i]].timeout = q[at[i]].timeout
                           /\ q2[at[i]].timeout <= q2[s].timeout
  PROVE  Sorted(q2, k + 1, With(at, k, s))
<1> DEFINE w == With(at, k, s)
<1>1. w[k + 1] = s /\ \A i \in 1 .. k : w[i] = at[i]  BY WithType
<1> HIDE DEF w
<1>2. ASSUME NEW i \in 1 .. k + 1, NEW j \in 1 .. k + 1, i <= j
      PROVE  q2[w[i]].timeout <= q2[w[j]].timeout
  <2>1. CASE j = k + 1
    <3>1. CASE i = k + 1
      <4>1. q2[s].timeout <= q2[s].timeout  OBVIOUS
      <4> QED BY <1>1, <2>1, <3>1, <4>1
    <3>2. CASE i # k + 1
      <4>1. i \in 1 .. k  BY <3>2
      <4> QED BY <1>1, <2>1, <4>1
    <3> QED BY <3>1, <3>2
  <2>2. CASE j # k + 1
    <3>1. i \in 1 .. k /\ j \in 1 .. k  BY <1>2, <2>2
    <3>2. q[at[i]].timeout <= q[at[j]].timeout  BY <1>2, <3>1 DEF Sorted
    <3> QED BY <1>1, <3>1, <3>2
  <2> QED BY <2>1, <2>2
<1> QED BY <1>2 DEF Sorted, w

\* A scan finds a slot that is wanted, or none; the one where it starts if
\* this is wanted.
LEMMA Scan ==
  ASSUME ConstAssumption, NEW i \in Slots, NEW W \in SUBSET Slots
  PROVE  /\ ScanFor(i, W) = None \/ ScanFor(i, W) \in W
         /\ i \in W => ScanFor(i, W) = i
<1> DEFINE hits == {n \in Slots : ScanSlot(i, n) \in W}
           least == CHOOSE n \in hits : \A m \in hits : n <= m
<1>1. ScanFor(i, W) = IF hits = {} THEN None ELSE ScanSlot(i, least)  BY DEF ScanFor
<1>2. ASSUME hits # {} PROVE least \in hits /\ \A m \in hits : least <= m
  <2>1. hits \in SUBSET Nat  BY DEF Slots, ConstAssumption
  <2> HIDE DEF hits
  <2>2. \E n \in hits : \A m \in hits : n <= m  BY <1>2, <2>1, Least
  <2> QED BY <2>2
<1>3. ASSUME i \in W PROVE hits # {} /\ least = 0 /\ ScanSlot(i, 0) = i
  <2>1. ScanSlot(i, 0) = i /\ 0 \in Slots  BY DEF ScanSlot, Slots, ConstAssumption
  <2>2. 0 \in hits  BY <1>3, <2>1
  <2>3. least \in hits /\ least <= 0  BY <1>2, <2>2
  <2>4. least \in Nat  BY <2>3 DEF Slots
  <2> HIDE DEF least
  <2> QED BY <2>1, <2>2, <2>3, <2>4
<1>4. hits # {} => ScanSlot(i, least) \in W  BY <1>2
<1> HIDE DEF hits, least
<1> QED BY <1>1, <1>3, <1>4
---------------------------------------------------------------------------
(* The invariant and the list *)

\* The list of the invariant, as k slots.
ListAt(k, at) ==
  /\ IsList(queue, first, last, k, at) /\ Holds(Live, k, at)
  /\ MaxBack = 0 => Sorted(queue, k, at)

\* The table has its type, and every time-out is in range.
LEMMA CellFacts ==
  ASSUME ConstAssumption, Typed
  PROVE  /\ queue \in [Slots -> Cells] /\ backs \in 0 .. MaxBack
         /\ \A s \in Slots : queue[s].timeout \in backs - MaxBack .. Timeout + backs
         /\ MaxBack = 0 => \A s \in Slots : queue[s].timeout <= Timeout
<1>1. /\ queue \in [Slots -> Cells] /\ backs \in 0 .. MaxBack
      /\ \A s \in Slots : queue[s].timeout \in backs - MaxBack .. Timeout + backs
  BY DEF Typed, TypeOK, Cells
<1>2. ASSUME MaxBack = 0, NEW s \in Slots PROVE queue[s].timeout <= Timeout
  <2>1. backs = 0  BY <1>1, <1>2
  <2>2. queue[s].timeout \in backs - MaxBack .. Timeout + backs  BY <1>1
  <2> QED BY <1>2, <2>1, <2>2 DEF ConstAssumption
<1> QED BY <1>1, <1>2

\* A slot in use is a member of the list.
LEMMA LiveInList ==
  ASSUME NEW k \in Nat, NEW at \in [1 .. k -> Slots], ListAt(k, at), NEW s \in Live
  PROVE  \E m \in 1 .. k : at[m] = s
BY DEF ListAt, Holds, Live

\* radius_queue_out of a slot in use.
LEMMA OutStep ==
  ASSUME ConstAssumption, Typed, ListInv, NEW s \in Live, radius_queue_out(s)
  PROVE  /\ queue' \in [Slots -> Cells]
         /\ first' \in Slots \cup {None} /\ last' \in Slots \cup {None}
         /\ \A u \in Slots : u # s => Same(queue'[u], queue[u])
         /\ \A u \in Slots : queue'[u].timeout = queue[u].timeout
         /\ queue'[s].state = 0 /\ queue'[s].p = NoPacket
         /\ Live' = Live \ {s}
         /\ ListInv'
<1>1. queue \in [Slots -> Cells]  BY CellFacts
<1>2. PICK k \in Nat : \E at \in [1 .. k -> Slots] : ListAt(k, at)  BY DEF ListInv, ListAt
<1>3. PICK at \in [1 .. k -> Slots] : ListAt(k, at)  BY <1>2
<1>4. PICK m \in 1 .. k : at[m] = s  BY <1>3, LiveInList
<1>5. IsList(queue, first, last, k, at) /\ Holds(Live, k, at)  BY <1>3 DEF ListAt
<1> DEFINE w == Without(at, k, m)
<1>6. /\ queue' \in [Slots -> Cells]
      /\ \A u \in Slots : u # at[m] => Same(queue'[u], queue[u])
      /\ \A u \in Slots : queue'[u].timeout = queue[u].timeout
      /\ queue'[at[m]].state = 0 /\ queue'[at[m]].p = NoPacket
      /\ IsList(queue', first', last', k - 1, w)
  BY <1>1, <1>4, <1>5, OutList
<1>7. Live' = Live \ {s}
  <2>1. \A u \in Slots : u # s => queue'[u].state = queue[u].state  BY <1>4, <1>6 DEF Same
  <2>2. queue'[s].state # 1  BY <1>4, <1>6
  <2> QED BY <2>1, <2>2 DEF Live
<1>8. Holds(Live', k - 1, w)
  <2>1. \A i, j \in 1 .. k : at[i] = at[j] => i = j  BY <1>5 DEF IsList
  <2>2. Holds(Live \ {at[m]}, k - 1, w)  BY <1>5, <2>1, HoldsWithout
  <2> QED BY <1>4, <1>7, <2>2
<1>9. w \in [1 .. k - 1 -> Slots] /\ k - 1 \in Nat  BY WithoutType
<1>10. MaxBack = 0 => Sorted(queue', k - 1, w)
  <2> SUFFICES ASSUME MaxBack = 0 PROVE Sorted(queue', k - 1, w)  OBVIOUS
  <2>1. Sorted(queue, k, at)  BY <1>3 DEF ListAt
  <2>2. \A i \in 1 .. k - 1 : queue'[w[i]].timeout = queue[w[i]].timeout  BY <1>6, <1>9
  <2> QED BY <2>1, <2>2, SortedWithout
<1> HIDE DEF w
<1>11. first' \in Slots \cup {None} /\ last' \in Slots \cup {None}
  BY <1>6, <1>9, ListEnds
<1>12. ListInv'  BY <1>6, <1>8, <1>9, <1>10 DEF ListInv
<1> QED BY <1>4, <1>6, <1>7, <1>11, <1>12

\* radius_queue_reschedule of a slot in use.
LEMMA AgainStep ==
  ASSUME ConstAssumption, Typed, ListInv, NEW s \in Live, NEW srv \in Servers,
         queue[s].retrans < Retry, radius_queue_reschedule(s, srv)
  PROVE  /\ queue' \in [Slots -> Cells]
         /\ first' \in Slots \cup {None} /\ last' \in Slots \cup {None}
         /\ \A u \in Slots : u # s => Same(queue'[u], queue[u])
         /\ /\ queue'[s].state = 1 /\ queue'[s].p = queue[s].p /\ queue'[s].cbp = queue[s].cbp
            /\ queue'[s].retrans = queue[s].retrans + 1 /\ queue'[s].timeout = Timeout
            /\ queue'[s].lastsent = srv
         /\ Live' = Live
         /\ ListInv'
<1>1. queue \in [Slots -> Cells]  BY CellFacts
<1>2. PICK k \in Nat : \E at \in [1 .. k -> Slots] : ListAt(k, at)  BY DEF ListInv, ListAt
<1>3. PICK at \in [1 .. k -> Slots] : ListAt(k, at)  BY <1>2
<1>4. PICK m \in 1 .. k : at[m] = s  BY <1>3, LiveInList
<1>5. IsList(queue, first, last, k, at) /\ Holds(Live, k, at)  BY <1>3 DEF ListAt
<1> DEFINE w == Without(at, k, m)
           v == With(w, k - 1, s)
           c == [queue[s] EXCEPT !.retrans = @ + 1, !.timeout = Timeout, !.lastsent = srv]
<1>6. /\ queue' \in [Slots -> Cells]
      /\ \A u \in Slots : u # s => Same(queue'[u], queue[u])
      /\ Same(queue'[s], c)
      /\ IsList(queue', first', last', (k - 1) + 1, v)
  <2>1. /\ queue' \in [Slots -> Cells]
        /\ \A u \in Slots : u # at[m] => Same(queue'[u], queue[u])
        /\ Same(queue'[at[m]], [queue[at[m]] EXCEPT !.retrans = @ + 1, !.timeout = Timeout,
                                                     !.lastsent = srv])
        /\ IsList(queue', first', last', (k - 1) + 1,
                  With(Without(at, k, m), k - 1, at[m]))
    <3>1. radius_queue_reschedule(at[m], srv) /\ queue[at[m]].retrans < Retry  BY <1>4
    <3> QED BY <1>1, <1>5, <3>1, RescheduleList
  <2> QED BY <1>4, <2>1
<1>7. /\ queue'[s].state = 1 /\ queue'[s].p = queue[s].p /\ queue'[s].cbp = queue[s].cbp
      /\ queue'[s].retrans = queue[s].retrans + 1 /\ queue'[s].timeout = Timeout
      /\ queue'[s].lastsent = srv
  <2>1. queue[s] \in Cells /\ queue[s].state = 1  BY <1>1 DEF Live
  <2>2. /\ c.state = 1 /\ c.p = queue[s].p /\ c.cbp = queue[s].cbp
        /\ c.retrans = queue[s].retrans + 1 /\ c.timeout = Timeout /\ c.lastsent = srv
    BY <2>1 DEF Cells
  <2> HIDE DEF c
  <2> QED BY <1>6, <2>2 DEF Same
<1> HIDE DEF c
<1>8. Live' = Live
  <2>1. \A u \in Slots : u # s => queue'[u].state = queue[u].state  BY <1>6 DEF Same
  <2> QED BY <1>7, <2>1 DEF Live
<1>9. w \in [1 .. k - 1 -> Slots] /\ k - 1 \in Nat  BY WithoutType
<1>10. \A i, j \in 1 .. k : at[i] = at[j] => i = j  BY <1>5 DEF IsList
<1>11. \A i \in 1 .. k - 1 : w[i] # s  BY <1>4, <1>10, NotInWithout
<1>12. Holds(Live', (k - 1) + 1, v)
  <2>1. Holds(Live \ {at[m]}, k - 1, w)  BY <1>5, <1>10, HoldsWithout
  <2>2. s \in Slots  BY DEF Live
  <2> HIDE DEF w
  <2>3. Holds((Live \ {at[m]}) \cup {s}, (k - 1) + 1, v)  BY <1>9, <2>1, <2>2, HoldsWith
  <2>4. (Live \ {at[m]}) \cup {s} = Live'  BY <1>4, <1>8
  <2> QED BY <2>3, <2>4
<1>13. v \in [1 .. (k - 1) + 1 -> Slots] /\ (k - 1) + 1 \in Nat
  <2>1. s \in Slots  BY DEF Live
  <2> HIDE DEF w
  <2>2. \A n \in Nat : \A a \in [1 .. n -> Slots] : With(a, n, s) \in [1 .. n + 1 -> Slots]
    BY <2>1, WithType
  <2>3. (k - 1) + 1 \in Nat  BY <1>9
  <2> QED BY <1>9, <2>2, <2>3
<1>14. MaxBack = 0 => Sorted(queue', (k - 1) + 1, v)
  <2> SUFFICES ASSUME MaxBack = 0 PROVE Sorted(queue', (k - 1) + 1, v)  OBVIOUS
  <2>1. Sorted(queue, k, at)  BY <1>3 DEF ListAt
  <2>2. Sorted(queue, k - 1, w)  BY <2>1, SortedWithout
  <2>3. \A u \in Slots : u # s => queue'[u].timeout = queue[u].timeout  BY <1>6 DEF Same
  <2>4. \A u \in Slots : queue[u].timeout <= Timeout  BY CellFacts
  <2>5. queue'[s].timeout = Timeout /\ Timeout \in Int  BY <1>7 DEF ConstAssumption
  <2> HIDE DEF w
  <2>6. \A i \in 1 .. k - 1 : /\ queue'[w[i]].timeout = queue[w[i]].timeout
                              /\ queue'[w[i]].timeout <= queue'[s].timeout
    BY <1>9, <1>11, <2>3, <2>4, <2>5
  <2>7. s \in Slots  BY DEF Live
  <2> QED BY <1>9, <2>2, <2>5, <2>6, <2>7, SortedWith
<1> HIDE DEF v, w
<1>15. first' \in Slots \cup {None} /\ last' \in Slots \cup {None}
  BY <1>6, <1>13, ListEnds
<1>16. ListInv'  BY <1>6, <1>12, <1>13, <1>14 DEF ListInv
<1> QED BY <1>6, <1>7, <1>8, <1>15, <1>16

\* radius_queue_in of a slot not in use.
LEMMA InsertStep ==
  ASSUME ConstAssumption, Typed, ListInv, NEW s \in Slots, s \notin Live, NEW r \in Req,
         NEW id \in 0 .. IdSpace - 1, SetList(Insert(s, r, id))
  PROVE  /\ queue' \in [Slots -> Cells]
         /\ first' \in Slots \cup {None} /\ last' \in Slots \cup {None}
         /\ \A u \in Slots : u # s => Same(queue'[u], queue[u])
         /\ /\ queue'[s].state = 1 /\ queue'[s].p = [id |-> id, req |-> r]
            /\ queue'[s].cbp = r /\ queue'[s].retrans = 0 /\ queue'[s].timeout = Timeout
            /\ queue'[s].lastsent = lastreply
         /\ Live' = Live \cup {s}
         /\ ListInv'
<1>1. queue \in [Slots -> Cells]  BY CellFacts
<1>2. PICK k \in Nat : \E at \in [1 .. k -> Slots] : ListAt(k, at)  BY DEF ListInv, ListAt
<1>3. PICK at \in [1 .. k -> Slots] : ListAt(k, at)  BY <1>2
<1>4. \A i \in 1 .. k : at[i] # s  BY <1>3 DEF ListAt, Holds
<1>5. IsList(queue, first, last, k, at) /\ Holds(Live, k, at)  BY <1>3 DEF ListAt
<1>6. lastreply \in Servers  BY DEF Typed, TypeOK
<1> DEFINE v == With(at, k, s)
           c == [queue[s] EXCEPT !.state = 1, !.p = [id |-> id, req |-> r], !.cbp = r,
                                 !.retrans = 0, !.timeout = Timeout, !.lastsent = lastreply]
<1>7. /\ queue' \in [Slots -> Cells]
      /\ \A u \in Slots : u # s => Same(queue'[u], queue[u])
      /\ Same(queue'[s], c)
      /\ IsList(queue', first', last', k + 1, v)
  BY <1>1, <1>4, <1>5, <1>6, InsertList
<1>8. /\ queue'[s].state = 1 /\ queue'[s].p = [id |-> id, req |-> r]
      /\ queue'[s].cbp = r /\ queue'[s].retrans = 0 /\ queue'[s].timeout = Timeout
      /\ queue'[s].lastsent = lastreply
  <2>1. queue[s] \in Cells  BY <1>1
  <2>2. /\ c.state = 1 /\ c.p = [id |-> id, req |-> r] /\ c.cbp = r
        /\ c.retrans = 0 /\ c.timeout = Timeout /\ c.lastsent = lastreply
    BY <2>1 DEF Cells
  <2> HIDE DEF c
  <2> QED BY <1>7, <2>2 DEF Same
<1> HIDE DEF c
<1>9. Live' = Live \cup {s}
  <2>1. \A u \in Slots : u # s => queue'[u].state = queue[u].state  BY <1>7 DEF Same
  <2> QED BY <1>8, <2>1 DEF Live
<1>10. Holds(Live', k + 1, v)  BY <1>5, <1>9, HoldsWith
<1>11. v \in [1 .. k + 1 -> Slots] /\ k + 1 \in Nat  BY WithType
<1>12. MaxBack = 0 => Sorted(queue', k + 1, v)
  <2> SUFFICES ASSUME MaxBack = 0 PROVE Sorted(queue', k + 1, v)  OBVIOUS
  <2>1. Sorted(queue, k, at)  BY <1>3 DEF ListAt
  <2>2. \A u \in Slots : u # s => queue'[u].timeout = queue[u].timeout  BY <1>7 DEF Same
  <2>3. \A u \in Slots : queue[u].timeout <= Timeout  BY CellFacts
  <2>4. queue'[s].timeout = Timeout /\ Timeout \in Int  BY <1>8 DEF ConstAssumption
  <2>5. \A i \in 1 .. k : /\ queue'[at[i]].timeout = queue[at[i]].timeout
                          /\ queue'[at[i]].timeout <= queue'[s].timeout
    BY <1>4, <2>2, <2>3, <2>4
  <2> QED BY <2>1, <2>4, <2>5, SortedWith
<1> HIDE DEF v
<1>13. first' \in Slots \cup {None} /\ last' \in Slots \cup {None}
  BY <1>7, <1>11, ListEnds
<1>14. ListInv'  BY <1>7, <1>10, <1>11, <1>12 DEF ListInv
<1> QED BY <1>7, <1>8, <1>9, <1>13, <1>14
---------------------------------------------------------------------------
(* The invariant holds at first, and every step keeps it *)

\* The empty table.
LEMMA InitInv == ASSUME ConstAssumption, Init PROVE IInv
<1>1. EmptySlot \in Cells
  <2>1. 0 \in 0 .. Retry /\ 0 \in -MaxBack .. Timeout + MaxBack /\ 0 \in Slots
    BY DEF ConstAssumption, Slots
  <2> QED BY <2>1 DEF EmptySlot, Cells, Servers
<1>2. \A s \in Slots : queue[s] = EmptySlot  BY DEF Init
<1>3. \A s \in Slots : queue[s].state = 0 /\ queue[s].p = NoPacket /\ queue[s].timeout = 0
  BY <1>2 DEF EmptySlot
<1>4. call = [r \in Req |-> "none"]  BY DEF Init, Calls!Init
<1>5. TypeOK
  <2>1. queue \in [Slots -> Cells]  BY <1>1 DEF Init
  <2>2. call \in [Req -> Calls!Outcomes]  BY <1>4 DEF Calls!Outcomes
  <2>3. second \in BOOLEAN  BY DEF Init
  <2>4. /\ qnext \in Slots /\ nextid \in 0 .. IdSpace - 1 /\ lastreply \in Servers
        /\ made \in 0 .. NReq /\ fails \in 0 .. MaxFail /\ backs \in 0 .. MaxBack
    BY DEF Init, ConstAssumption, Slots, Servers
  <2>5. idOf \in [Req -> (0 .. IdSpace - 1) \cup {None}] /\ sent \in [Req -> SUBSET Servers]
    BY DEF Init
  <2>6. first = None /\ last = None  BY DEF Init
  <2> QED BY <2>1, <2>2, <2>3, <2>4, <2>5, <2>6 DEF TypeOK, Cells
<1>6. Typed
  <2>1. 0 \in backs - MaxBack .. Timeout + backs  BY DEF Init, ConstAssumption
  <2> QED BY <1>3, <1>5, <2>1 DEF Typed
<1>7. Live = {}  BY <1>3 DEF Live
<1>8. ListInv
  <2> DEFINE at == [i \in 1 .. 0 |-> 0]
  <2>1. at \in [1 .. 0 -> Slots] /\ 1 .. 0 = {}  OBVIOUS
  <2> HIDE DEF at
  <2>2. IsList(queue, first, last, 0, at)  BY <2>1 DEF IsList, Init
  <2>3. Holds(Live, 0, at) /\ Sorted(queue, 0, at)  BY <1>7, <2>1 DEF Holds, Sorted
  <2> QED BY <2>1, <2>2, <2>3 DEF ListInv
<1>9. SlotInv
  <2>1. \A s \in Slots : queue[s].p # NoPacket <=> queue[s].state = 1  BY <1>3
  <2>2. \A r \in Req : call[r] = "none"  BY <1>4
  <2> QED BY <1>7, <2>1, <2>2 DEF SlotInv
<1>10. SentInv
  <2>1. \A r \in Req : call[r] # "gaveup"  BY <1>4
  <2> QED BY <1>7, <2>1 DEF SentInv
<1> QED BY <1>6, <1>8, <1>9, <1>10 DEF IInv

\* The list does not depend on what a step leaves alone.
LEMMA ListKept ==
  ASSUME ListInv, UNCHANGED listVars
  PROVE  ListInv' /\ Live' = Live
<1>1. queue' = queue /\ first' = first /\ last' = last  BY DEF listVars
<1>2. Live' = Live  BY <1>1 DEF Live
<1> QED BY <1>1, <1>2 DEF ListInv

\* A step of time moves every time-out of the table and nothing else.
LEMMA TimeMoves ==
  ASSUME ConstAssumption, Typed, ListInv,
         queue' \in [Slots -> Cells],
         \A s \in Slots : /\ queue'[s].state = queue[s].state
                          /\ queue'[s].next = queue[s].next /\ queue'[s].prev = queue[s].prev,
         MaxBack = 0 => \A s, u \in Slots : queue[s].timeout <= queue[u].timeout
                                            => queue'[s].timeout <= queue'[u].timeout,
         UNCHANGED <<first, last>>
  PROVE  ListInv' /\ Live' = Live
<1>1. Live' = Live  BY DEF Live
<1>2. PICK k \in Nat : \E at \in [1 .. k -> Slots] : ListAt(k, at)  BY DEF ListInv, ListAt
<1>3. PICK at \in [1 .. k -> Slots] : ListAt(k, at)  BY <1>2
<1>4. IsList(queue, first, last, k, at) /\ Holds(Live, k, at)  BY <1>3 DEF ListAt
<1>5. IsList(queue', first, last, k, at)  BY <1>4, ListSame
<1>6. MaxBack = 0 => Sorted(queue', k, at)
  <2> SUFFICES ASSUME MaxBack = 0 PROVE Sorted(queue', k, at)  OBVIOUS
  <2>1. Sorted(queue, k, at)  BY <1>3 DEF ListAt
  <2> QED BY <2>1 DEF Sorted
<1>7. first' = first /\ last' = last  OBVIOUS
<1>8. IsList(queue', first', last', k, at) /\ Holds(Live', k, at)  BY <1>1, <1>4, <1>5, <1>7
<1>9. ListInv'  BY <1>6, <1>8 DEF ListInv
<1> QED BY <1>1, <1>9

\* Numbers of requests after a request is made.
LEMMA MadeNext ==
  ASSUME ConstAssumption, Typed, NEW r \in Req, r = made + 1, made' = r
  PROVE  /\ made' \in 0 .. NReq
         /\ \A x \in Req : x > made' => x > made /\ x # r
BY DEF Typed, TypeOK, Req, ConstAssumption

\* nextid stays in range.
LEMMA NextIdType ==
  ASSUME ConstAssumption, Typed
  PROVE  /\ NextId \in 0 .. IdSpace - 1
         /\ Sized => PackId \in 0 .. IdSpace - 1
<1>1. nextid \in 0 .. IdSpace - 1 /\ IdSpace \in Nat \ {0, 1}
  BY DEF Typed, TypeOK, ConstAssumption
<1>2. 1 % IdSpace \in 0 .. IdSpace - 1 /\ 2 % IdSpace \in 0 .. IdSpace - 1
      /\ (nextid + 1) % IdSpace \in 0 .. IdSpace - 1
  BY <1>1
<1> QED BY <1>1, <1>2 DEF NextId, PackId

\* A free slot, where there is one.
LEMMA NextSlot ==
  ASSUME ConstAssumption, Typed, radius_queue_next # None
  PROVE  radius_queue_next \in Slots /\ radius_queue_next \notin Live
<1> DEFINE W == {s \in Slots : queue[s].state # 1}
<1>1. qnext \in Slots  BY DEF Typed, TypeOK
<1>2. W \in SUBSET Slots /\ \A s \in W : s \in Slots /\ s \notin Live  BY DEF Live
<1>3. radius_queue_next = ScanFor(qnext, W)  BY DEF radius_queue_next
<1> HIDE DEF W
<1>4. ScanFor(qnext, W) = None \/ ScanFor(qnext, W) \in W  BY <1>1, <1>2, Scan
<1> QED BY <1>2, <1>3, <1>4
\* The packet of a request is none of the empty ones.
LEMMA PacketNotNone ==
  ASSUME ConstAssumption, NEW id \in 0 .. IdSpace - 1, NEW r \in Req
  PROVE  [id |-> id, req |-> r] # NoPacket
<1>1. [id |-> id, req |-> r].id = id /\ NoPacket.id = None  BY DEF NoPacket
<1>2. id # None  BY DEF None, ConstAssumption
<1> QED BY <1>1, <1>2

\* The id that a request is given, and the slot.
LEMMA PackIdType ==
  ASSUME ConstAssumption, Typed, radius_queue_next # None
  PROVE  PackId \in 0 .. IdSpace - 1 /\ (~Sized => PackId = radius_queue_next)
<1>1. CASE Sized  BY <1>1, NextIdType
<1>2. CASE ~Sized
  <2>1. PackId = radius_queue_next /\ QSize = IdSpace  BY <1>2 DEF PackId, ConstAssumption
  <2>2. radius_queue_next \in Slots  BY NextSlot
  <2> QED BY <2>1, <2>2 DEF Slots
<1> QED BY <1>1, <1>2

\* A request is accepted.
LEMMA ReqStep ==
  ASSUME ConstAssumption, IInv, NEW r \in Req, radius_req(r)
  PROVE  IInv'
<1> DEFINE s == radius_queue_next
           id == PackId
<1>1. Typed /\ ListInv /\ SlotInv /\ SentInv  BY DEF IInv
<1>2. /\ r = made + 1 /\ made' = r /\ s # None /\ nextid' = NextId /\ qnext' = (s + 1) % QSize
      /\ SetList(Insert(s, r, id)) /\ Calls!Accept(r) /\ idOf' = [idOf EXCEPT ![r] = id]
      /\ \/ sent' = [sent EXCEPT ![r] = {lastreply}] /\ fails' = fails
         \/ Fail /\ sent' = sent
      /\ lastreply' = lastreply /\ second' = second /\ backs' = backs
  BY DEF radius_req
<1>3. s \in Slots /\ s \notin Live  BY <1>1, <1>2, NextSlot
<1>4. id \in 0 .. IdSpace - 1 /\ (~Sized => id = s)  BY <1>1, <1>2, PackIdType
<1> HIDE DEF s, id
<1>5. /\ queue' \in [Slots -> Cells]
      /\ first' \in Slots \cup {None} /\ last' \in Slots \cup {None}
      /\ \A u \in Slots : u # s => Same(queue'[u], queue[u])
      /\ /\ queue'[s].state = 1 /\ queue'[s].p = [id |-> id, req |-> r]
         /\ queue'[s].cbp = r /\ queue'[s].retrans = 0 /\ queue'[s].timeout = Timeout
         /\ queue'[s].lastsent = lastreply
      /\ Live' = Live \cup {s}
      /\ ListInv'
  BY <1>1, <1>2, <1>3, <1>4, InsertStep
<1>6. call[r] = "none" /\ call' = [call EXCEPT ![r] = "pending"]  BY <1>2 DEF Calls!Accept
<1>7. /\ call \in [Req -> Calls!Outcomes] /\ sent \in [Req -> SUBSET Servers]
      /\ idOf \in [Req -> (0 .. IdSpace - 1) \cup {None}] /\ fails \in 0 .. MaxFail
      /\ lastreply \in Servers
  BY <1>1 DEF Typed, TypeOK
<1>8. \A u \in Slots : u # s =>
        /\ queue'[u].state = queue[u].state /\ queue'[u].p = queue[u].p
        /\ queue'[u].cbp = queue[u].cbp /\ queue'[u].retrans = queue[u].retrans
        /\ queue'[u].lastsent = queue[u].lastsent /\ queue'[u].timeout = queue[u].timeout
  BY <1>5 DEF Same
<1>9. \A u \in Live : u # s /\ u \in Slots /\ queue[u].cbp \in Req /\ queue[u].cbp # r
  BY <1>1, <1>3, <1>6 DEF SlotInv, Live
<1>10. Typed'
  <2>1. call' \in [Req -> Calls!Outcomes]  BY <1>6, <1>7 DEF Calls!Outcomes
  <2>2. sent' \in [Req -> SUBSET Servers]  BY <1>2, <1>7
  <2>3. idOf' \in [Req -> (0 .. IdSpace - 1) \cup {None}]  BY <1>2, <1>4, <1>7
  <2>4. fails' \in 0 .. MaxFail  BY <1>2, <1>7 DEF Fail, MayFail, ConstAssumption
  <2>5. qnext' \in Slots  BY <1>2, <1>3 DEF Slots, ConstAssumption
  <2>6. nextid' \in 0 .. IdSpace - 1  BY <1>1, <1>2, NextIdType
  <2>7. made' \in 0 .. NReq  BY <1>1, <1>2, MadeNext
  <2>8. second' \in BOOLEAN /\ lastreply' \in Servers /\ backs' \in 0 .. MaxBack
    BY <1>1, <1>2 DEF Typed, TypeOK
  <2>9. TypeOK'
    BY <1>5, <2>1, <2>2, <2>3, <2>4, <2>5, <2>6, <2>7, <2>8 DEF TypeOK, Cells
  <2>10. \A u \in Slots : queue'[u].timeout \in backs' - MaxBack .. Timeout + backs'
    <3>1. Timeout \in backs - MaxBack .. Timeout + backs
      BY <1>1, CellFacts DEF ConstAssumption
    <3>2. \A u \in Slots : queue[u].timeout \in backs - MaxBack .. Timeout + backs
      BY <1>1, CellFacts
    <3> QED BY <1>2, <1>5, <1>8, <3>1, <3>2
  <2> QED BY <2>9, <2>10 DEF Typed
<1>11. SlotInv'
  <2>1. \A u \in Slots : queue'[u].p # NoPacket <=> queue'[u].state = 1
    BY <1>1, <1>4, <1>5, <1>8, PacketNotNone DEF SlotInv
  <2>2. ASSUME NEW u \in Live'
        PROVE  /\ queue'[u].cbp \in Req /\ queue'[u].p.req = queue'[u].cbp
               /\ call'[queue'[u].cbp] = "pending"
               /\ queue'[u].p.id = idOf'[queue'[u].cbp]
               /\ ~Sized => queue'[u].p.id = u
    <3>1. CASE u = s
      <4>1. queue'[s].p.id = id /\ queue'[s].p.req = r  BY <1>5
      <4>2. idOf'[r] = id /\ call'[r] = "pending"  BY <1>2, <1>6, <1>7
      <4> QED BY <1>4, <1>5, <3>1, <4>1, <4>2
    <3>2. CASE u # s
      <4>1. u \in Live /\ queue[u].cbp \in Req /\ queue[u].cbp # r  BY <1>5, <1>9, <3>2
      <4>2. queue'[u].p = queue[u].p /\ queue'[u].cbp = queue[u].cbp  BY <1>8, <1>9, <4>1
      <4>3. idOf'[queue[u].cbp] = idOf[queue[u].cbp] /\ call'[queue[u].cbp] = call[queue[u].cbp]
        BY <1>2, <1>6, <1>7, <4>1
      <4> QED BY <1>1, <4>1, <4>2, <4>3 DEF SlotInv
    <3> QED BY <3>1, <3>2
  <2>3. \A u, x \in Live' : queue'[u].cbp = queue'[x].cbp => u = x
    BY <1>1, <1>5, <1>8, <1>9 DEF SlotInv
  <2>4. ASSUME NEW x \in Req, call'[x] = "pending" PROVE \E u \in Live' : queue'[u].cbp = x
    <3>1. CASE x = r  BY <1>5, <3>1
    <3>2. CASE x # r
      <4>1. call[x] = "pending"  BY <1>6, <1>7, <2>4, <3>2
      <4>2. PICK u \in Live : queue[u].cbp = x  BY <1>1, <4>1 DEF SlotInv
      <4> QED BY <1>5, <1>8, <1>9, <4>2
    <3> QED BY <3>1, <3>2
  <2>5. \A x \in Req : x > made' => call'[x] = "none"
    <3>1. \A x \in Req : x > made' => x > made /\ x # r  BY <1>1, <1>2, MadeNext
    <3>2. \A x \in Req : x > made => call[x] = "none"  BY <1>1 DEF SlotInv
    <3> QED BY <1>6, <1>7, <3>1, <3>2
  <2> QED BY <2>1, <2>2, <2>3, <2>4, <2>5 DEF SlotInv
<1>12. SentInv'
  <2> SUFFICES ASSUME RetrySec \in 1 .. Retry, fails' = 0
               PROVE  /\ \A u \in Live' :
                           /\ queue'[u].lastsent \in sent'[queue'[u].cbp]
                           /\ queue'[u].retrans >= RetrySec => sent'[queue'[u].cbp] = Servers
                      /\ \A x \in Req : call'[x] = "gaveup" => sent'[x] = Servers
    BY DEF SentInv
  <2>1. fails = 0 /\ sent' = [sent EXCEPT ![r] = {lastreply}]  BY <1>2, <1>7 DEF Fail
  <2>2. sent'[r] = {lastreply} /\ \A x \in Req : x # r => sent'[x] = sent[x]  BY <1>7, <2>1
  <2>3. /\ \A u \in Live : /\ queue[u].lastsent \in sent[queue[u].cbp]
                           /\ queue[u].retrans >= RetrySec => sent[queue[u].cbp] = Servers
        /\ \A x \in Req : call[x] = "gaveup" => sent[x] = Servers
    BY <1>1, <2>1 DEF SentInv
  <2>4. ~ (0 >= RetrySec)  BY DEF ConstAssumption
  <2>5. \A x \in Req : call'[x] = "gaveup" => x # r /\ call[x] = "gaveup"  BY <1>6, <1>7
  <2>6. ASSUME NEW u \in Live'
        PROVE  /\ queue'[u].lastsent \in sent'[queue'[u].cbp]
               /\ queue'[u].retrans >= RetrySec => sent'[queue'[u].cbp] = Servers
    <3>1. CASE u = s  BY <1>5, <2>2, <2>4, <3>1
    <3>2. CASE u # s
      <4>1. u \in Live  BY <1>5, <3>2
      <4> QED BY <1>8, <1>9, <2>2, <2>3, <3>2, <4>1
    <3> QED BY <3>1, <3>2
  <2> QED BY <2>2, <2>3, <2>5, <2>6
<1> QED BY <1>5, <1>10, <1>11, <1>12 DEF IInv

\* A request is refused.
LEMMA RefusedStep ==
  ASSUME ConstAssumption, IInv, NEW r \in Req, radius_req_refused(r)
  PROVE  IInv'
<1> DEFINE s == radius_queue_next
<1>1. Typed /\ ListInv /\ SlotInv /\ SentInv  BY DEF IInv
<1>2. /\ r = made + 1 /\ made' = r /\ nextid' = NextId /\ Calls!Refuse(r)
      /\ \/ qnext' = qnext /\ fails' = fails
         \/ s # None /\ Fail /\ qnext' \in {qnext, s}
      /\ UNCHANGED listVars /\ queue' = queue /\ first' = first /\ last' = last
      /\ idOf' = idOf /\ sent' = sent
      /\ lastreply' = lastreply /\ second' = second /\ backs' = backs
  BY DEF radius_req_refused, listVars, netVars
<1>3. call[r] = "none" /\ call' = [call EXCEPT ![r] = "refused"]  BY <1>2 DEF Calls!Refuse
<1>4. s # None => s \in Slots  BY <1>1, NextSlot
<1> HIDE DEF s
<1>5. call \in [Req -> Calls!Outcomes] /\ fails \in 0 .. MaxFail /\ qnext \in Slots
  BY <1>1 DEF Typed, TypeOK
<1>6. ListInv' /\ Live' = Live  BY <1>1, <1>2, ListKept
<1>7. Typed'
  <2>1. call' \in [Req -> Calls!Outcomes]  BY <1>3, <1>5 DEF Calls!Outcomes
  <2>2. fails' \in 0 .. MaxFail  BY <1>2, <1>5 DEF Fail, MayFail, ConstAssumption
  <2>3. qnext' \in Slots  BY <1>2, <1>4, <1>5
  <2>4. nextid' \in 0 .. IdSpace - 1  BY <1>1, <1>2, NextIdType
  <2>5. made' \in 0 .. NReq  BY <1>1, <1>2, MadeNext
  <2>6. second' \in BOOLEAN  BY <1>1, <1>2 DEF Typed, TypeOK
  <2>7. TypeOK'  BY <1>1, <1>2, <2>1, <2>2, <2>3, <2>4, <2>5, <2>6 DEF Typed, TypeOK
  <2> QED BY <1>1, <1>2, <2>7 DEF Typed
<1>8. \A x \in Req : x # r => call'[x] = call[x]  BY <1>3, <1>5
<1>9. call'[r] = "refused"  BY <1>3, <1>5
<1>10. SlotInv'
  <2>1. \A x \in Req : x > made' => call'[x] = "none"
    <3>1. \A x \in Req : x > made' => x > made /\ x # r  BY <1>1, <1>2, MadeNext
    <3> QED BY <1>1, <1>8, <3>1 DEF SlotInv
  <2>2. \A u \in Live : queue[u].cbp # r  BY <1>1, <1>3 DEF SlotInv
  <2>3. \A u \in Live : call'[queue[u].cbp] = "pending"  BY <1>1, <1>8, <2>2 DEF SlotInv
  <2>4. \A x \in Req : call'[x] = "pending" => call[x] = "pending"  BY <1>8, <1>9
  <2> QED BY <1>1, <1>2, <1>6, <2>1, <2>3, <2>4 DEF SlotInv
<1>11. SentInv'
  <2>1. fails' = 0 => fails = 0  BY <1>2, <1>5 DEF Fail
  <2>2. \A x \in Req : call'[x] = "gaveup" => call[x] = "gaveup"  BY <1>8, <1>9
  <2> QED BY <1>1, <1>2, <1>6, <2>1, <2>2 DEF SentInv
<1> QED BY <1>6, <1>7, <1>10, <1>11 DEF IInv
\* The first of the list is in use.
LEMMA FirstLive ==
  ASSUME ConstAssumption, ListInv, first # None
  PROVE  first \in Live
<1>1. PICK k \in Nat : \E at \in [1 .. k -> Slots] : ListAt(k, at)  BY DEF ListInv, ListAt
<1>2. PICK at \in [1 .. k -> Slots] : ListAt(k, at)  BY <1>1
<1>3. k # 0 /\ first = at[1]  BY <1>2 DEF ListAt, IsList
<1>4. 1 \in 1 .. k  BY <1>3
<1>5. at[1] \in Slots  BY <1>4
<1> QED BY <1>2, <1>3, <1>4, <1>5 DEF ListAt, Holds

\* A request leaves the table when its callback is made.
LEMMA SlotOut ==
  ASSUME ConstAssumption, IInv, NEW s \in Live, radius_queue_out(s), NEW x \in {"answered", "gaveup"},
         call' = [call EXCEPT ![queue[s].cbp] = x], UNCHANGED <<idOf, made, backs>>
  PROVE  /\ SlotInv'
         /\ \A u \in Slots : queue'[u].timeout \in backs' - MaxBack .. Timeout + backs'
         /\ call' \in [Req -> Calls!Outcomes]
<1>1. Typed /\ ListInv /\ SlotInv /\ SentInv  BY DEF IInv
<1>2. /\ \A u \in Slots : u # s => Same(queue'[u], queue[u])
      /\ \A u \in Slots : queue'[u].timeout = queue[u].timeout
      /\ queue'[s].state = 0 /\ queue'[s].p = NoPacket
      /\ Live' = Live \ {s}
  BY <1>1, OutStep
<1>3. \A u \in Slots : u # s => /\ queue'[u].state = queue[u].state /\ queue'[u].p = queue[u].p
                                /\ queue'[u].cbp = queue[u].cbp
  BY <1>2 DEF Same
<1>4. \A u \in Slots : queue'[u].timeout \in backs' - MaxBack .. Timeout + backs'
  <2>1. \A u \in Slots : queue[u].timeout \in backs - MaxBack .. Timeout + backs
    BY <1>1, CellFacts
  <2>2. backs' = backs  OBVIOUS
  <2> QED BY <1>2, <2>1, <2>2
<1> DEFINE r == queue[s].cbp
<1>5. r \in Req /\ call[r] = "pending"  BY <1>1 DEF SlotInv
<1>6. call \in [Req -> Calls!Outcomes]  BY <1>1 DEF Typed, TypeOK
<1>7. call' = [call EXCEPT ![r] = x]  OBVIOUS
<1>8. \A u \in Live : u \in Slots /\ (u # s => queue[u].cbp # r)  BY <1>1 DEF SlotInv, Live
<1> HIDE DEF r
<1>9. call' \in [Req -> Calls!Outcomes]  BY <1>5, <1>6, <1>7 DEF Calls!Outcomes
<1>10. call'[r] = x /\ \A y \in Req : y # r => call'[y] = call[y]  BY <1>5, <1>6, <1>7
<1>11. SlotInv'
  <2>1. \A u \in Slots : queue'[u].p # NoPacket <=> queue'[u].state = 1
    BY <1>1, <1>2, <1>3 DEF SlotInv
  <2>2. ASSUME NEW u \in Live'
        PROVE  /\ queue'[u].cbp \in Req /\ queue'[u].p.req = queue'[u].cbp
               /\ call'[queue'[u].cbp] = "pending"
               /\ queue'[u].p.id = idOf'[queue'[u].cbp]
               /\ ~Sized => queue'[u].p.id = u
    <3>1. u \in Live /\ u # s /\ queue[u].cbp # r  BY <1>2, <1>8
    <3>2. queue'[u].p = queue[u].p /\ queue'[u].cbp = queue[u].cbp  BY <1>3, <1>8, <3>1
    <3>3. idOf' = idOf  OBVIOUS
    <3> QED BY <1>1, <1>10, <3>1, <3>2, <3>3 DEF SlotInv
  <2>3. \A u, y \in Live' : queue'[u].cbp = queue'[y].cbp => u = y
    BY <1>1, <1>2, <1>3, <1>8 DEF SlotInv
  <2>4. ASSUME NEW y \in Req, call'[y] = "pending" PROVE \E u \in Live' : queue'[u].cbp = y
    <3>1. y # r /\ call[y] = "pending"  BY <1>10, <2>4
    <3>2. PICK u \in Live : queue[u].cbp = y  BY <1>1, <3>1 DEF SlotInv
    <3>3. u # s /\ u \in Slots  BY <1>8, <3>1, <3>2 DEF r
    <3> QED BY <1>2, <1>3, <3>2, <3>3
  <2>5. \A y \in Req : y > made' => call'[y] = "none"
    <3>1. \A y \in Req : y > made => call[y] = "none"  BY <1>1 DEF SlotInv
    <3>2. made' = made  OBVIOUS
    <3> QED BY <1>5, <1>10, <3>1, <3>2
  <2> QED BY <2>1, <2>2, <2>3, <2>4, <2>5 DEF SlotInv
<1> QED BY <1>4, <1>9, <1>11

\* The first request is sent again.
LEMMA RetransmitStep ==
  ASSUME ConstAssumption, IInv, NEW s \in Live, Retransmit(s), second' \in BOOLEAN,
         UNCHANGED <<qnext, nextid, lastreply, idOf, made, backs>>
  PROVE  IInv'
<1> DEFINE srv == OtherServer(s)
           r == queue[s].cbp
<1>1. Typed /\ ListInv /\ SlotInv /\ SentInv  BY DEF IInv
<1>2. s \in Slots /\ queue \in [Slots -> Cells] /\ queue[s] \in Cells
  BY <1>1, CellFacts DEF Live
<1>3. queue[s].retrans \in 0 .. Retry /\ queue[s].lastsent \in {0, 1}
  BY <1>2 DEF Cells, Servers
<1>4. srv \in {0, 1} /\ (queue[s].retrans = RetrySec - 1 => srv = 1 - queue[s].lastsent)
  BY <1>3 DEF OtherServer
<1>5. queue[s].retrans < Retry  BY <1>3 DEF Retransmit, RetransExceeded, ConstAssumption
<1>6. /\ radius_queue_reschedule(s, srv)
      /\ \/ sent' = [sent EXCEPT ![r] = @ \cup {srv}] /\ fails' = fails
         \/ Fail /\ sent' = sent
      /\ call' = call
  BY DEF Retransmit
<1>7. r \in Req /\ call[r] = "pending"  BY <1>1 DEF SlotInv
<1>8. \A u \in Live : u \in Slots /\ queue[u].cbp \in Req /\ (u # s => queue[u].cbp # r)
  BY <1>1 DEF SlotInv, Live
<1> HIDE DEF srv, r
<1>9. /\ queue' \in [Slots -> Cells]
      /\ first' \in Slots \cup {None} /\ last' \in Slots \cup {None}
      /\ \A u \in Slots : u # s => Same(queue'[u], queue[u])
      /\ /\ queue'[s].state = 1 /\ queue'[s].p = queue[s].p /\ queue'[s].cbp = queue[s].cbp
         /\ queue'[s].retrans = queue[s].retrans + 1 /\ queue'[s].timeout = Timeout
         /\ queue'[s].lastsent = srv
      /\ Live' = Live
      /\ ListInv'
  BY <1>1, <1>4, <1>5, <1>6, AgainStep DEF Servers
<1>10. \A u \in Slots : u # s =>
        /\ queue'[u].state = queue[u].state /\ queue'[u].p = queue[u].p
        /\ queue'[u].cbp = queue[u].cbp /\ queue'[u].retrans = queue[u].retrans
        /\ queue'[u].lastsent = queue[u].lastsent /\ queue'[u].timeout = queue[u].timeout
  BY <1>9 DEF Same
<1>11. sent \in [Req -> SUBSET Servers] /\ fails \in 0 .. MaxFail  BY <1>1 DEF Typed, TypeOK
<1>12. Typed'
  <2>1. sent' \in [Req -> SUBSET Servers]  BY <1>4, <1>6, <1>11 DEF Servers
  <2>2. fails' \in 0 .. MaxFail  BY <1>6, <1>11 DEF Fail, MayFail, ConstAssumption
  <2>3. /\ qnext' = qnext /\ nextid' = nextid /\ lastreply' = lastreply
        /\ idOf' = idOf /\ made' = made /\ backs' = backs
    OBVIOUS
  <2>4. TypeOK'  BY <1>1, <1>6, <1>9, <2>1, <2>2, <2>3 DEF Typed, TypeOK, Cells
  <2>5. \A u \in Slots : queue'[u].timeout \in backs' - MaxBack .. Timeout + backs'
    <3>1. Timeout \in backs - MaxBack .. Timeout + backs
      BY <1>1, CellFacts DEF ConstAssumption
    <3>2. \A u \in Slots : queue[u].timeout \in backs - MaxBack .. Timeout + backs
      BY <1>1, CellFacts
    <3> QED BY <1>9, <1>10, <2>3, <3>1, <3>2
  <2> QED BY <2>4, <2>5 DEF Typed
<1>13. SlotInv'
  <2>1. \A u \in Slots : /\ queue'[u].state = queue[u].state /\ queue'[u].p = queue[u].p
                         /\ queue'[u].cbp = queue[u].cbp
    BY <1>9, <1>10 DEF Live
  <2>2. idOf' = idOf /\ made' = made  OBVIOUS
  <2> QED BY <1>1, <1>6, <1>8, <1>9, <2>1, <2>2 DEF SlotInv
<1>14. SentInv'
  <2> SUFFICES ASSUME RetrySec \in 1 .. Retry, fails' = 0
               PROVE  /\ \A u \in Live' :
                           /\ queue'[u].lastsent \in sent'[queue'[u].cbp]
                           /\ queue'[u].retrans >= RetrySec => sent'[queue'[u].cbp] = Servers
                      /\ \A x \in Req : call'[x] = "gaveup" => sent'[x] = Servers
    BY DEF SentInv
  <2>1. fails = 0 /\ sent' = [sent EXCEPT ![r] = @ \cup {srv}]  BY <1>6, <1>11 DEF Fail
  <2>2. sent'[r] = sent[r] \cup {srv} /\ \A x \in Req : x # r => sent'[x] = sent[x]
    BY <1>7, <1>11, <2>1
  <2>3. /\ \A u \in Live : /\ queue[u].lastsent \in sent[queue[u].cbp]
                           /\ queue[u].retrans >= RetrySec => sent[queue[u].cbp] = Servers
        /\ \A x \in Req : call[x] = "gaveup" => sent[x] = Servers
    BY <1>1, <2>1 DEF SentInv
  <2>4. \A x \in Req : call'[x] = "gaveup" => x # r /\ call[x] = "gaveup"  BY <1>6, <1>7
  <2>5. queue[s].lastsent \in sent[r] /\ (queue[s].retrans >= RetrySec => sent[r] = Servers)
    BY <2>3 DEF r
  <2>6. ASSUME queue[s].retrans + 1 >= RetrySec PROVE sent[r] \cup {srv} = Servers
    <3>1. CASE queue[s].retrans >= RetrySec  BY <1>4, <2>5, <3>1 DEF Servers
    <3>2. CASE ~ (queue[s].retrans >= RetrySec)
      <4>1. queue[s].retrans = RetrySec - 1  BY <1>3, <2>6, <3>2
      <4>2. srv = 1 - queue[s].lastsent  BY <1>4, <4>1
      <4>3. sent[r] \in SUBSET {0, 1}  BY <1>7, <1>11 DEF Servers
      <4>4. CASE queue[s].lastsent = 0  BY <2>5, <4>2, <4>3, <4>4 DEF Servers
      <4>5. CASE queue[s].lastsent = 1  BY <2>5, <4>2, <4>3, <4>5 DEF Servers
      <4> QED BY <1>3, <4>4, <4>5
    <3> QED BY <3>1, <3>2
  <2>7. ASSUME NEW u \in Live'
        PROVE  /\ queue'[u].lastsent \in sent'[queue'[u].cbp]
               /\ queue'[u].retrans >= RetrySec => sent'[queue'[u].cbp] = Servers
    <3>1. CASE u = s  BY <1>9, <2>2, <2>6, <3>1 DEF r
    <3>2. CASE u # s
      <4>1. u \in Live  BY <1>9
      <4> QED BY <1>8, <1>10, <2>2, <2>3, <3>2, <4>1
    <3> QED BY <3>1, <3>2
  <2> QED BY <2>2, <2>3, <2>4, <2>7
<1> QED BY <1>9, <1>12, <1>13, <1>14 DEF IInv
\* A request leaves the table: what is left of the invariant.
LEMMA OutInv ==
  ASSUME ConstAssumption, IInv, NEW s \in Live, radius_queue_out(s), NEW x \in {"answered", "gaveup"},
         call' = [call EXCEPT ![queue[s].cbp] = x], second' \in BOOLEAN, lastreply' \in Servers,
         x = "gaveup" => queue[s].retrans >= Retry,
         UNCHANGED <<qnext, nextid, idOf, sent, made, fails, backs>>
  PROVE  IInv'
<1>1. Typed /\ ListInv /\ SlotInv /\ SentInv  BY DEF IInv
<1>2. /\ queue' \in [Slots -> Cells]
      /\ first' \in Slots \cup {None} /\ last' \in Slots \cup {None}
      /\ \A u \in Slots : u # s => Same(queue'[u], queue[u])
      /\ Live' = Live \ {s}
      /\ ListInv'
  BY <1>1, OutStep
<1>3. /\ SlotInv'
      /\ \A u \in Slots : queue'[u].timeout \in backs' - MaxBack .. Timeout + backs'
      /\ call' \in [Req -> Calls!Outcomes]
  BY SlotOut
<1>4. /\ qnext' = qnext /\ nextid' = nextid /\ idOf' = idOf /\ sent' = sent /\ made' = made
      /\ fails' = fails /\ backs' = backs
  OBVIOUS
<1>5. Typed'
  <2>1. TypeOK'  BY <1>1, <1>2, <1>3, <1>4 DEF Typed, TypeOK, Cells
  <2> QED BY <1>3, <2>1 DEF Typed
<1>6. SentInv'
  <2> SUFFICES ASSUME RetrySec \in 1 .. Retry, fails = 0
               PROVE  /\ \A u \in Live' :
                           /\ queue'[u].lastsent \in sent[queue'[u].cbp]
                           /\ queue'[u].retrans >= RetrySec => sent[queue'[u].cbp] = Servers
                      /\ \A y \in Req : call'[y] = "gaveup" => sent[y] = Servers
    BY <1>4 DEF SentInv
  <2>1. /\ \A u \in Live : /\ queue[u].lastsent \in sent[queue[u].cbp]
                           /\ queue[u].retrans >= RetrySec => sent[queue[u].cbp] = Servers
        /\ \A y \in Req : call[y] = "gaveup" => sent[y] = Servers
    BY <1>1 DEF SentInv
  <2>2. \A u \in Live' : /\ u \in Live /\ queue'[u].lastsent = queue[u].lastsent
                         /\ queue'[u].cbp = queue[u].cbp /\ queue'[u].retrans = queue[u].retrans
    BY <1>2 DEF Same, Live
  <2>3. ASSUME NEW y \in Req, call'[y] = "gaveup" PROVE sent[y] = Servers
    <3>1. call \in [Req -> Calls!Outcomes]  BY <1>1 DEF Typed, TypeOK
    <3>2. CASE y = queue[s].cbp
      <4>1. x = "gaveup"  BY <2>3, <3>1, <3>2
      <4>2. queue[s].retrans \in 0 .. Retry
        <5>1. queue[s] \in Cells  BY <1>1, CellFacts DEF Live
        <5> QED BY <5>1 DEF Cells
      <4>3. queue[s].retrans >= Retry  BY <4>1
      <4>4. queue[s].retrans >= RetrySec  BY <4>2, <4>3 DEF ConstAssumption
      <4> QED BY <2>1, <3>2, <4>4
    <3>3. CASE y # queue[s].cbp
      <4>1. call[y] = "gaveup"  BY <2>3, <3>1, <3>3
      <4> QED BY <2>1, <4>1
    <3> QED BY <3>2, <3>3
  <2> QED BY <2>1, <2>2, <2>3
<1> QED BY <1>2, <1>3, <1>5, <1>6 DEF IInv

\* radius_timeout.
LEMMA TimeoutStep ==
  ASSUME ConstAssumption, IInv, radius_timeout
  PROVE  IInv'
<1>1. Typed /\ ListInv /\ SlotInv /\ SentInv  BY DEF IInv
<1>2. second' \in BOOLEAN  BY Zenon DEF radius_timeout
<1>3. /\ qnext' = qnext /\ nextid' = nextid /\ lastreply' = lastreply /\ idOf' = idOf
      /\ made' = made /\ backs' = backs
  BY DEF radius_timeout, idVars
<1>4. lastreply \in Servers  BY <1>1 DEF Typed, TypeOK
<1>5. CASE first # None /\ Expired(first)
  <2>1. first \in Live  BY <1>1, <1>5, FirstLive
  <2>2. Retransmit(first) \/ FinishedRetrans(first)  BY <1>5 DEF radius_timeout
  <2>3. CASE Retransmit(first)  BY <1>2, <1>3, <2>1, <2>3, RetransmitStep
  <2>4. CASE FinishedRetrans(first)
    <3>1. /\ radius_queue_out(first) /\ call' = [call EXCEPT ![queue[first].cbp] = "gaveup"]
          /\ queue[first].retrans >= Retry /\ sent' = sent /\ fails' = fails
      BY <2>4 DEF FinishedRetrans, RetransExceeded, Calls!GiveUp
    <3> QED BY <1>2, <1>3, <1>4, <2>1, <3>1, OutInv
  <2> QED BY <2>2, <2>3, <2>4
<1>6. CASE ~ (first # None /\ Expired(first))
  <2>1. UNCHANGED listVars /\ sent' = sent /\ fails' = fails /\ call' = call
    BY <1>6 DEF radius_timeout
  <2>2. queue' = queue /\ first' = first /\ last' = last  BY <2>1 DEF listVars
  <2>3. ListInv' /\ Live' = Live  BY <1>1, <2>1, ListKept
  <2>4. Typed'
    <3>1. TypeOK'  BY <1>1, <1>2, <1>3, <2>1, <2>2 DEF Typed, TypeOK
    <3> QED BY <1>1, <1>3, <2>2, <3>1 DEF Typed
  <2>5. SlotInv' /\ SentInv'  BY <1>1, <1>3, <2>1, <2>2, <2>3 DEF SlotInv, SentInv
  <2> QED BY <2>3, <2>4, <2>5 DEF IInv
<1> QED BY <1>5, <1>6

\* An answer that radius_decaps takes is for a request that waits, and its
\* callback is the one of this request.
LEMMA DecapsTakes ==
  ASSUME ConstAssumption, IInv, NEW r \in Req, NEW srv \in Servers, radius_decaps(r, srv)
  PROVE  \E s \in Live : /\ radius_queue_out(s) /\ queue[s].cbp = r /\ call[r] = "pending"
                         /\ call' = [call EXCEPT ![queue[s].cbp] = "answered"]
<1> DEFINE s == radius_queue_idx(idOf[r])
           W == {u \in Slots : queue[u].p # NoPacket /\ queue[u].p.id = idOf[r]}
<1>1. Typed /\ SlotInv  BY DEF IInv
<1>2. /\ s # None /\ queue[s].state = 1 /\ queue[s].p.req = r /\ radius_queue_out(s)
      /\ call' = [call EXCEPT ![queue[s].cbp] = IF @ = "pending" /\ queue[s].cbp = r
                                                THEN "answered" ELSE "mixed up"]
  BY DEF radius_decaps, radius_authcheck
<1>3. s = ScanFor(idOf[r] % QSize, W)  BY DEF radius_queue_idx
<1>4. idOf[r] % QSize \in Slots
  <2>1. idOf[r] \in Int
    <3>1. idOf[r] \in (0 .. IdSpace - 1) \cup {None}  BY <1>1 DEF Typed, TypeOK
    <3> QED BY <3>1 DEF None, ConstAssumption
  <2> QED BY <2>1 DEF Slots, ConstAssumption
<1>5. W \in SUBSET Slots  OBVIOUS
<1> HIDE DEF s, W
<1>6. s \in Slots  BY <1>2, <1>3, <1>4, <1>5, Scan
<1>7. s \in Live  BY <1>2, <1>6 DEF Live
<1>8. queue[s].cbp = r /\ call[r] = "pending"
  <2>1. queue[s].p.req = queue[s].cbp /\ call[queue[s].cbp] = "pending"
    BY <1>1, <1>7 DEF SlotInv
  <2> QED BY <1>2, <2>1
<1>9. call' = [call EXCEPT ![queue[s].cbp] = "answered"]  BY <1>2, <1>8
<1> QED BY <1>2, <1>7, <1>8, <1>9

\* radius_decaps.
LEMMA DecapsStep ==
  ASSUME ConstAssumption, IInv, NEW r \in Req, NEW srv \in Servers, radius_decaps(r, srv)
  PROVE  IInv'
<1>1. PICK s \in Live : radius_queue_out(s) /\ call' = [call EXCEPT ![queue[s].cbp] = "answered"]
  BY DecapsTakes
<1>2. second' = second /\ second \in BOOLEAN
  BY DEF IInv, Typed, TypeOK, radius_decaps
<1>3. lastreply' = srv /\ UNCHANGED <<qnext, nextid, idOf, sent, made, fails, backs>>
  BY DEF radius_decaps, idVars, netVars, envVars
<1>4. second' \in BOOLEAN /\ lastreply' \in Servers  BY <1>2, <1>3
<1> QED BY <1>1, <1>3, <1>4, OutInv
\* Data of the table that time does not change.
LEMMA TimeInv ==
  ASSUME ConstAssumption, IInv, Typed', ListInv', Live' = Live,
         \A s \in Slots : /\ queue'[s].state = queue[s].state /\ queue'[s].p = queue[s].p
                          /\ queue'[s].cbp = queue[s].cbp /\ queue'[s].retrans = queue[s].retrans
                          /\ queue'[s].lastsent = queue[s].lastsent,
         UNCHANGED <<call, idOf, sent, made, fails>>
  PROVE  IInv'
<1>1. SlotInv /\ SentInv  BY DEF IInv
<1>2. call' = call /\ idOf' = idOf /\ sent' = sent /\ made' = made /\ fails' = fails  OBVIOUS
<1>3. \A s \in Live : s \in Slots  BY DEF Live
<1>4. SlotInv'  BY <1>1, <1>2, <1>3 DEF SlotInv
<1>5. SentInv'  BY <1>1, <1>2, <1>3 DEF SentInv
<1> QED BY <1>4, <1>5 DEF IInv

\* d is cell c with another time-out.
IsTimed(c, t, d) ==
  /\ d \in Cells /\ d.timeout = t /\ d.state = c.state /\ d.p = c.p
  /\ d.cbp = c.cbp /\ d.retrans = c.retrans /\ d.lastsent = c.lastsent
  /\ d.next = c.next /\ d.prev = c.prev

\* A time-out is written.
LEMMA SetTimeout ==
  ASSUME NEW c \in Cells, NEW t \in -MaxBack .. Timeout + MaxBack
  PROVE  IsTimed(c, t, [c EXCEPT !.timeout = t])
BY DEF Cells, IsTimed

\* The wall clock moves on.
LEMMA TickStep == ASSUME ConstAssumption, IInv, Tick PROVE IInv'
<1>1. Typed /\ ListInv  BY DEF IInv
<1>2. /\ queue \in [Slots -> Cells] /\ backs \in 0 .. MaxBack
      /\ \A s \in Slots : queue[s].timeout \in backs - MaxBack .. Timeout + backs
  BY <1>1, CellFacts
<1>3. /\ queue' = [s \in Slots |-> [queue[s] EXCEPT !.timeout = Floor(queue[s].timeout - 1)]]
      /\ first' = first /\ last' = last /\ qnext' = qnext /\ nextid' = nextid
      /\ lastreply' = lastreply /\ call' = call /\ idOf' = idOf /\ sent' = sent
      /\ made' = made /\ fails' = fails /\ backs' = backs
  BY DEF Tick, idVars, netVars, envVars
<1>4. second' \in BOOLEAN  BY Zenon DEF Tick
<1> DEFINE new(s) == Floor(queue[s].timeout - 1)
<1>5. ASSUME NEW s \in Slots
      PROVE  new(s) \in backs - MaxBack .. Timeout + backs /\ new(s) \in -MaxBack .. Timeout + MaxBack
  BY <1>2 DEF Floor, ConstAssumption
<1>6. ASSUME NEW s \in Slots, NEW u \in Slots, queue[s].timeout <= queue[u].timeout
      PROVE  new(s) <= new(u)
  <2>1. /\ queue[s].timeout \in Int /\ queue[u].timeout \in Int /\ backs - MaxBack \in Int
    BY <1>2 DEF ConstAssumption
  <2> QED BY <1>6, <2>1 DEF Floor
<1> HIDE DEF new
<1>7. \A s \in Slots : queue'[s] = [queue[s] EXCEPT !.timeout = new(s)]  BY <1>3 DEF new
<1>8. ASSUME NEW s \in Slots
      PROVE  /\ queue'[s] \in Cells /\ queue'[s].timeout = new(s)
             /\ queue'[s].state = queue[s].state /\ queue'[s].p = queue[s].p
             /\ queue'[s].cbp = queue[s].cbp /\ queue'[s].retrans = queue[s].retrans
             /\ queue'[s].lastsent = queue[s].lastsent
             /\ queue'[s].next = queue[s].next /\ queue'[s].prev = queue[s].prev
  <2>1. queue[s] \in Cells /\ new(s) \in -MaxBack .. Timeout + MaxBack  BY <1>2, <1>5
  <2>2. IsTimed(queue[s], new(s), [queue[s] EXCEPT !.timeout = new(s)])  BY <2>1, SetTimeout
  <2>3. IsTimed(queue[s], new(s), queue'[s])  BY <1>7, <2>2
  <2> QED BY <2>3 DEF IsTimed
<1>9. queue' \in [Slots -> Cells]
  <2>1. queue' = [s \in Slots |-> queue'[s]]  BY <1>3
  <2> QED BY <1>8, <2>1
<1>10. ListInv' /\ Live' = Live
  <2>1. \A s, u \in Slots : queue[s].timeout <= queue[u].timeout
                            => queue'[s].timeout <= queue'[u].timeout
    BY <1>6, <1>8
  <2> QED BY <1>1, <1>3, <1>8, <1>9, <2>1, TimeMoves
<1>11. Typed'
  <2>1. TypeOK'  BY <1>1, <1>3, <1>4, <1>9 DEF Typed, TypeOK, Cells
  <2>2. \A s \in Slots : queue'[s].timeout \in backs' - MaxBack .. Timeout + backs'
    BY <1>3, <1>5, <1>8
  <2> QED BY <2>1, <2>2 DEF Typed
<1> QED BY <1>3, <1>8, <1>10, <1>11, TimeInv

\* The wall clock is set back.
LEMMA ClockStep == ASSUME ConstAssumption, IInv, ClockSetBack PROVE IInv'
<1>1. Typed /\ ListInv  BY DEF IInv
<1>2. /\ queue \in [Slots -> Cells] /\ backs \in 0 .. MaxBack
      /\ \A s \in Slots : queue[s].timeout \in backs - MaxBack .. Timeout + backs
  BY <1>1, CellFacts
<1>3. PICK d \in 1 .. MaxBack - backs :
        /\ backs' = backs + d
        /\ queue' = [s \in Slots |-> [queue[s] EXCEPT !.timeout = queue[s].timeout + d]]
  BY DEF ClockSetBack
<1>4. /\ first' = first /\ last' = last /\ qnext' = qnext /\ nextid' = nextid
      /\ lastreply' = lastreply /\ second' = second /\ call' = call /\ idOf' = idOf
      /\ sent' = sent /\ made' = made /\ fails' = fails
  BY DEF ClockSetBack, idVars, netVars
<1>5. MaxBack # 0 /\ backs' \in 0 .. MaxBack  BY <1>2, <1>3 DEF ConstAssumption
<1> DEFINE new(s) == queue[s].timeout + d
<1>6. ASSUME NEW s \in Slots
      PROVE  new(s) \in backs' - MaxBack .. Timeout + backs' /\ new(s) \in -MaxBack .. Timeout + MaxBack
  <2>1. queue[s].timeout \in backs - MaxBack .. Timeout + backs  BY <1>2
  <2> QED BY <1>2, <1>3, <1>5, <2>1 DEF ConstAssumption
<1> HIDE DEF new
<1>7. \A s \in Slots : queue'[s] = [queue[s] EXCEPT !.timeout = new(s)]  BY <1>3 DEF new
<1>8. ASSUME NEW s \in Slots
      PROVE  /\ queue'[s] \in Cells /\ queue'[s].timeout = new(s)
             /\ queue'[s].state = queue[s].state /\ queue'[s].p = queue[s].p
             /\ queue'[s].cbp = queue[s].cbp /\ queue'[s].retrans = queue[s].retrans
             /\ queue'[s].lastsent = queue[s].lastsent
             /\ queue'[s].next = queue[s].next /\ queue'[s].prev = queue[s].prev
  <2>1. queue[s] \in Cells /\ new(s) \in -MaxBack .. Timeout + MaxBack  BY <1>2, <1>6
  <2>2. IsTimed(queue[s], new(s), [queue[s] EXCEPT !.timeout = new(s)])  BY <2>1, SetTimeout
  <2>3. IsTimed(queue[s], new(s), queue'[s])  BY <1>7, <2>2
  <2> QED BY <2>3 DEF IsTimed
<1>9. queue' \in [Slots -> Cells]
  <2>1. queue' = [s \in Slots |-> queue'[s]]  BY <1>3
  <2> QED BY <1>8, <2>1
<1>10. ListInv' /\ Live' = Live  BY <1>1, <1>4, <1>5, <1>8, <1>9, TimeMoves
<1>11. Typed'
  <2>1. second' \in BOOLEAN  BY <1>1, <1>4 DEF Typed, TypeOK
  <2>2. TypeOK'  BY <1>1, <1>4, <1>5, <1>9, <2>1 DEF Typed, TypeOK, Cells
  <2>3. \A s \in Slots : queue'[s].timeout \in backs' - MaxBack .. Timeout + backs'
    BY <1>6, <1>8
  <2> QED BY <2>2, <2>3 DEF Typed
<1> QED BY <1>4, <1>8, <1>10, <1>11, TimeInv

\* radius_set, and steps that change nothing.
LEMMA QuietStep ==
  ASSUME ConstAssumption, IInv, radius_set \/ UNCHANGED vars
  PROVE  IInv'
<1>1. Typed /\ ListInv  BY DEF IInv
<1>2. lastreply' \in Servers  BY <1>1 DEF radius_set, vars, Typed, TypeOK, Servers
<1>3. UNCHANGED listVars /\ queue' = queue /\ first' = first /\ last' = last
  BY DEF radius_set, vars, listVars
<1>4. /\ qnext' = qnext /\ nextid' = nextid /\ second' = second /\ call' = call
      /\ idOf' = idOf /\ sent' = sent /\ made' = made /\ fails' = fails /\ backs' = backs
  BY DEF radius_set, vars, idVars, netVars, envVars
<1>5. ListInv' /\ Live' = Live  BY <1>1, <1>3, ListKept
<1>6. Typed'
  <2>1. second' \in BOOLEAN  BY <1>1, <1>4 DEF Typed, TypeOK
  <2>2. TypeOK'  BY <1>1, <1>2, <1>3, <1>4, <2>1 DEF Typed, TypeOK
  <2> QED BY <1>1, <1>3, <1>4, <2>2 DEF Typed
<1> QED BY <1>3, <1>4, <1>5, <1>6, TimeInv

\* Every step keeps the invariant.
LEMMA NextInv == ASSUME ConstAssumption, IInv, [Next]_vars PROVE IInv'
<1>1. ASSUME NEW r \in Req, radius_req(r) PROVE IInv'  BY <1>1, ReqStep
<1>2. ASSUME NEW r \in Req, radius_req_refused(r) PROVE IInv'  BY <1>2, RefusedStep
<1>3. CASE radius_timeout  BY <1>3, TimeoutStep
<1>4. ASSUME NEW r \in Req, NEW srv \in Servers, radius_decaps(r, srv) PROVE IInv'
  BY <1>4, DecapsStep
<1>5. CASE Tick  BY <1>5, TickStep
<1>6. CASE ClockSetBack  BY <1>6, ClockStep
<1>7. CASE radius_set \/ UNCHANGED vars  BY <1>7, QuietStep
<1> QED BY <1>1, <1>2, <1>3, <1>4, <1>5, <1>6, <1>7 DEF Next

\* The invariant holds in every state.
THEOREM Invariance == ASSUME ConstAssumption PROVE Spec => []IInv
<1>1. Init => IInv  BY InitInv
<1>2. IInv /\ [Next]_vars => IInv'  BY NextInv
<1> QED BY <1>1, <1>2, PTL DEF Spec
---------------------------------------------------------------------------
(* What the invariant says of the queue *)

\* The links of the table make one list of the slots in use.
LEMMA ListIsOK == ASSUME ConstAssumption, IInv PROVE ListOK
<1>1. Typed /\ ListInv /\ SlotInv  BY DEF IInv
<1>2. PICK k \in Nat : \E at \in [1 .. k -> Slots] : ListAt(k, at)  BY <1>1 DEF ListInv, ListAt
<1>3. PICK at \in [1 .. k -> Slots] : ListAt(k, at)  BY <1>2
<1>4. IsList(queue, first, last, k, at) /\ Holds(Live, k, at)  BY <1>3 DEF ListAt
<1>5. \A i, j \in 1 .. k : at[i] = at[j] => i = j  BY <1>4 DEF IsList
<1>6. k <= QSize  BY <1>5, ListFits
<1>7. \A i \in 1 .. k : at[i] \in Live /\ at[i] \in Slots /\ at[i] # None
  BY <1>4, NoneNoSlot DEF Holds
<1>8. \A s \in Live : \E i \in 1 .. k : at[i] = s  BY <1>4 DEF Holds, Live
<1>9. {Nth[n] : n \in 0 .. QSize} = Live \cup {None}
  <2>1. \A n \in 0 .. QSize : Nth[n] = IF n < k THEN at[n + 1] ELSE None  BY <1>4, NthIs
  <2> HIDE DEF Nth
  <2>2. ASSUME NEW n \in 0 .. QSize PROVE Nth[n] \in Live \cup {None}
    <3>1. CASE n < k
      <4>1. n + 1 \in 1 .. k  BY <3>1
      <4> QED BY <1>7, <2>1, <3>1, <4>1
    <3>2. CASE ~ (n < k)  BY <2>1, <3>2
    <3> QED BY <3>1, <3>2
  <2>3. ASSUME NEW s \in Live PROVE \E n \in 0 .. QSize : Nth[n] = s
    <3>1. PICK i \in 1 .. k : at[i] = s  BY <1>8
    <3>2. i - 1 \in 0 .. QSize /\ i - 1 < k /\ (i - 1) + 1 = i
      BY <1>6 DEF ConstAssumption
    <3>3. Nth[i - 1] = at[i]  BY <2>1, <3>2
    <3> QED BY <3>1, <3>2, <3>3
  <2>4. \E n \in 0 .. QSize : Nth[n] = None
    <3>1. k \in 0 .. QSize /\ ~ (k < k)  BY <1>6 DEF ConstAssumption
    <3> QED BY <2>1, <3>1
  <2> QED BY <2>2, <2>3, <2>4
<1>10. ASSUME NEW s \in Live
       PROVE  /\ queue[s].next = None <=> s = last
              /\ queue[s].prev = None <=> s = first
              /\ queue[s].next # None => queue[queue[s].next].prev = s
  <2>1. PICK i \in 1 .. k : at[i] = s  BY <1>8
  <2>2. k # 0 /\ 1 \in 1 .. k /\ k \in 1 .. k /\ first = at[1] /\ last = at[k]
    BY <1>4 DEF IsList
  <2>3. Beside(queue, k, at, i)  BY <1>4, Neighbours
  <2>4. (queue[s].prev = None <=> i = 1) /\ (queue[s].next = None <=> i = k)
    BY <2>1, <2>3 DEF Beside
  <2>5. (s = first <=> i = 1) /\ (s = last <=> i = k)  BY <1>5, <2>1, <2>2
  <2>6. ASSUME i # k PROVE queue[queue[s].next].prev = s
    <3>1. i + 1 \in 1 .. k /\ i + 1 # 1 /\ (i + 1) - 1 = i  BY <2>6
    <3>2. queue[s].next = at[i + 1]  BY <1>4, <2>1, <2>6 DEF IsList
    <3>3. queue[at[i + 1]].prev = at[(i + 1) - 1]  BY <1>4, <3>1 DEF IsList
    <3> QED BY <2>1, <3>1, <3>2, <3>3
  <2> QED BY <2>4, <2>5, <2>6
<1>11. (last = None <=> first = None) /\ (last # None => last \in Live)
  <2>1. CASE k = 0  BY <1>4, <2>1 DEF IsList
  <2>2. CASE k # 0
    <3>1. 1 \in 1 .. k /\ k \in 1 .. k  BY <2>2
    <3>2. first = at[1] /\ last = at[k]  BY <1>4, <2>2 DEF IsList
    <3> QED BY <1>7, <3>1, <3>2
  <2> QED BY <2>1, <2>2
<1>12. \A s \in Slots : (queue[s].p # NoPacket) <=> (s \in Live)  BY <1>1 DEF SlotInv, Live
<1>13. \A s \in Live : queue[s].p.req = queue[s].cbp  BY <1>1 DEF SlotInv
<1>14. {queue[s].cbp : s \in Live} = {r \in Req : call[r] = "pending"}
  <2>1. \A s \in Live : queue[s].cbp \in Req /\ call[queue[s].cbp] = "pending"
    BY <1>1 DEF SlotInv
  <2>2. \A r \in Req : call[r] = "pending" => \E s \in Live : queue[s].cbp = r
    BY <1>1 DEF SlotInv
  <2> QED BY <2>1, <2>2
<1> QED BY <1>9, <1>10, <1>11, <1>12, <1>13, <1>14 DEF ListOK

\* The first request of the list times out first, unless the clock is set back.
LEMMA FirstIsOldest == ASSUME ConstAssumption, IInv, MaxBack = 0 PROVE OldestFirst
<1>1. ListInv  BY DEF IInv
<1>2. PICK k \in Nat : \E at \in [1 .. k -> Slots] : ListAt(k, at)  BY <1>1 DEF ListInv, ListAt
<1>3. PICK at \in [1 .. k -> Slots] : ListAt(k, at)  BY <1>2
<1>4. Sorted(queue, k, at)  BY <1>3 DEF ListAt
<1> SUFFICES ASSUME first # None, NEW s \in Live
             PROVE  queue[first].timeout <= queue[s].timeout
  BY DEF OldestFirst
<1>5. k # 0 /\ first = at[1]  BY <1>3 DEF ListAt, IsList
<1>6. PICK i \in 1 .. k : at[i] = s  BY <1>3, LiveInList
<1>7. 1 \in 1 .. k /\ 1 <= i  BY <1>5
<1> QED BY <1>4, <1>5, <1>6, <1>7 DEF Sorted

\* Where ids are slots, an answer finds its request.
LEMMA AnswerFound == ASSUME ConstAssumption, IInv, ~Sized PROVE AnswerFindsRequest
<1>1. SlotInv  BY DEF IInv
<1> SUFFICES ASSUME NEW r \in Req, call[r] = "pending"
             PROVE  LET s == radius_queue_idx(idOf[r]) IN s # None /\ queue[s].p.req = r
  BY DEF AnswerFindsRequest
<1>2. PICK s \in Live : queue[s].cbp = r  BY <1>1 DEF SlotInv
<1>3. s \in Slots /\ queue[s].p.req = r /\ queue[s].p.id = idOf[r] /\ idOf[r] = s
      /\ queue[s].p # NoPacket
  BY <1>1, <1>2 DEF SlotInv, Live
<1>4. s % QSize = s  BY <1>3 DEF Slots, ConstAssumption
<1> DEFINE W == {u \in Slots : queue[u].p # NoPacket /\ queue[u].p.id = idOf[r]}
<1>5. W \in SUBSET Slots /\ s \in W  BY <1>3
<1>6. radius_queue_idx(idOf[r]) = ScanFor(idOf[r] % QSize, W)  BY DEF radius_queue_idx
<1> HIDE DEF W
<1>7. radius_queue_idx(idOf[r]) = ScanFor(s, W)  BY <1>3, <1>4, <1>6
<1>8. ScanFor(s, W) = s  BY <1>3, <1>5, Scan
<1> QED BY <1>3, <1>7, <1>8, NoneNoSlot

\* Whatever the size of the table, however ids are given out, however often the
\* clock is set back and sendto fails: the links that radius_queue_in,
\* radius_queue_out and radius_queue_reschedule write make one list of the slots
\* in use, and these are the requests that wait.
THEOREM ListHolds == ASSUME ConstAssumption PROVE Spec => [](TypeOK /\ ListOK)
<1>1. IInv => TypeOK /\ ListOK  BY ListIsOK DEF IInv, Typed
<1> QED BY <1>1, Invariance, PTL

\* Without radiusqsize, and while nobody sets the clock back, the queue as a
\* whole is right: oldest request first, an answer finds its request, both
\* servers are tried before radius_timeout gives up.
THEOREM QueueHolds ==
  ASSUME ConstAssumption, ~Sized, MaxBack = 0 PROVE Spec => []QueueOK
<1>1. IInv => BothServersTried  BY DEF IInv, SentInv, BothServersTried
<1>2. IInv => QueueOK
  BY <1>1, ListIsOK, FirstIsOldest, AnswerFound DEF IInv, Typed, QueueOK
<1> QED BY <1>2, Invariance, PTL

\* The safety part of OneCallback: each step of the queue is a step of
\* RadiusCalls or leaves the outcome of every request alone, so that no request
\* gets two callbacks or the answer to another one.
THEOREM CallbacksOnce ==
  ASSUME ConstAssumption PROVE Spec => Calls!Init /\ [][Calls!Next]_call
<1>1. Init => Calls!Init  BY DEF Init
<1>2. ASSUME IInv, [Next]_vars PROVE Calls!Next \/ call' = call
  <2>1. ASSUME NEW r \in Req, radius_req(r) PROVE Calls!Next
    BY <2>1 DEF radius_req, Calls!Next
  <2>2. ASSUME NEW r \in Req, radius_req_refused(r) PROVE Calls!Next
    BY <2>2 DEF radius_req_refused, Calls!Next
  <2>3. CASE radius_timeout
    <3>1. CASE first # None /\ Expired(first)
      <4>1. first \in Live  BY <1>2, <3>1, FirstLive DEF IInv
      <4>2. queue[first].cbp \in Req  BY <1>2, <4>1 DEF IInv, SlotInv
      <4>3. Retransmit(first) \/ FinishedRetrans(first)  BY <2>3, <3>1 DEF radius_timeout
      <4>4. call' = call \/ Calls!GiveUp(queue[first].cbp)
        BY <4>3 DEF Retransmit, FinishedRetrans
      <4> QED BY <4>2, <4>4 DEF Calls!Next
    <3>2. CASE ~ (first # None /\ Expired(first))  BY <2>3, <3>2 DEF radius_timeout
    <3> QED BY <3>1, <3>2
  <2>4. ASSUME NEW r \in Req, NEW srv \in Servers, radius_decaps(r, srv) PROVE Calls!Next
    <3>1. PICK s \in Live : /\ queue[s].cbp = r /\ call[r] = "pending"
                            /\ call' = [call EXCEPT ![queue[s].cbp] = "answered"]
      BY <1>2, <2>4, DecapsTakes
    <3>2. Calls!Answer(r)  BY <3>1 DEF Calls!Answer
    <3> QED BY <3>2 DEF Calls!Next
  <2>5. CASE Tick \/ ClockSetBack \/ radius_set \/ UNCHANGED vars
    BY <2>5 DEF Tick, ClockSetBack, radius_set, vars
  <2> QED BY <1>2, <2>1, <2>2, <2>3, <2>4, <2>5 DEF Next
<1>3. IInv /\ [Next]_vars => [Calls!Next]_call  BY <1>2
<1> QED BY <1>1, <1>3, Invariance, PTL DEF Spec
=============================================================================
