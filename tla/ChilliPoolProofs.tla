-------------------------- MODULE ChilliPoolProofs --------------------------
(***************************************************************************)
(* Theorems about ChilliPool, for any number of members, clients and       *)
(* buckets and any addresses of the static range, and about                *)
(* ChilliPoolRange, for any size of the subnet.                            *)
(***************************************************************************)
EXTENDS ChilliPool, FiniteSetTheorems, WellFoundedInduction, TLAPS

CONSTANTS Hosts, UINT32, OneListen, EndInside
VARIABLES start, end, uamlisten, dhcplisten

New == INSTANCE ChilliPoolRange

---------------------------------------------------------------------------
(* Lists that are linked both ways *)

\* The k members of S, with NULL (0) before the first and after the last.
Lists(nx, pv, f, l, S, k, at) ==
  /\ at[0] = 0 /\ at[k + 1] = 0
  /\ at[1] = f /\ at[k] = l
  /\ \A i \in 1 .. k : at[i] \in S /\ nx[at[i]] = at[i + 1] /\ pv[at[i]] = at[i - 1]
  /\ \A x \in S : \E i \in 1 .. k : at[i] = x
  /\ \A i, j \in 1 .. k : at[i] = at[j] => i = j

Linked(nx, pv, f, l, S) ==
  0 \notin S /\ \E k \in Nat : \E at : Lists(nx, pv, f, l, S, k, at)

\* What a member's links lead to.
LEMMA Ends ==
  ASSUME NEW nx, NEW pv, NEW f, NEW l, NEW S, Linked(nx, pv, f, l, S)
  PROVE  /\ f \in S \cup {0} /\ l \in S \cup {0}
         /\ f = 0 <=> S = {}
         /\ l = 0 <=> S = {}
         /\ \A x \in S : /\ nx[x] \in S \cup {0} /\ pv[x] \in S \cup {0}
                         /\ nx[x] # x /\ pv[x] # x
                         /\ nx[x] = 0 <=> x = l
                         /\ pv[x] = 0 <=> x = f
                         /\ nx[x] # 0 => pv[nx[x]] = x
                         /\ pv[x] # 0 => nx[pv[x]] = x
<1>1. PICK k \in Nat : \E at : Lists(nx, pv, f, l, S, k, at)  BY DEF Linked
<1>2. PICK at : Lists(nx, pv, f, l, S, k, at)  BY <1>1
<1>3. 0 \notin S  BY DEF Linked
<1> USE DEF Lists
<1>4. \A i \in 1 .. k : at[i] # 0  BY <1>2, <1>3
<1>5. ASSUME k = 0 PROVE f = 0 /\ l = 0 /\ S = {}
  <2>1. 0 + 1 = 1 /\ 1 .. 0 = {}  OBVIOUS
  <2> QED BY <1>2, <1>5, <2>1
<1>6. ASSUME k # 0 PROVE f \in S /\ l \in S /\ f # 0 /\ l # 0 /\ S # {}
  <2>1. 1 \in 1 .. k /\ k \in 1 .. k  BY <1>6
  <2> QED BY <1>2, <1>4, <2>1
<1>7. ASSUME NEW x \in S
      PROVE /\ nx[x] \in S \cup {0} /\ pv[x] \in S \cup {0}
            /\ nx[x] # x /\ pv[x] # x
            /\ nx[x] = 0 <=> x = l
            /\ pv[x] = 0 <=> x = f
            /\ nx[x] # 0 => pv[nx[x]] = x
            /\ pv[x] # 0 => nx[pv[x]] = x
  <2>1. PICK i \in 1 .. k : at[i] = x  BY <1>2
  <2>2. nx[x] = at[i + 1] /\ pv[x] = at[i - 1] /\ x # 0  BY <1>2, <1>4, <2>1
  <2>3. 1 \in 1 .. k /\ k \in 1 .. k  OBVIOUS
  <2>4. ASSUME i # k
        PROVE  at[i + 1] \in S /\ at[i + 1] # 0 /\ at[i + 1] # x /\ pv[at[i + 1]] = x /\ x # l
    <3>1. i + 1 \in 1 .. k /\ i + 1 # i /\ (i + 1) - 1 = i  BY <2>4
    <3>2. at[i + 1] # at[i] /\ at[k] # at[i]  BY <1>2, <2>3, <2>4, <3>1
    <3> QED BY <1>2, <1>4, <2>1, <3>1, <3>2
  <2>5. ASSUME i # 1
        PROVE  at[i - 1] \in S /\ at[i - 1] # 0 /\ at[i - 1] # x /\ nx[at[i - 1]] = x /\ x # f
    <3>1. i - 1 \in 1 .. k /\ i - 1 # i /\ (i - 1) + 1 = i  BY <2>5
    <3>2. at[i - 1] # at[i] /\ at[1] # at[i]  BY <1>2, <2>3, <2>5, <3>1
    <3> QED BY <1>2, <1>4, <2>1, <3>1, <3>2
  <2>6. i = k => at[i + 1] = 0 /\ x = l  BY <1>2, <2>1
  <2>7. i = 1 => at[i - 1] = 0 /\ x = f
    <3>1. 1 - 1 = 0  OBVIOUS
    <3> QED BY <1>2, <2>1, <3>1
  <2> QED BY <2>2, <2>4, <2>5, <2>6, <2>7
<1> QED BY <1>5, <1>6, <1>7

\* Links that are the same in the members make the same list.
LEMMA SameLinks ==
  ASSUME NEW nx, NEW pv, NEW f, NEW l, NEW S, Linked(nx, pv, f, l, S), NEW nx2, NEW pv2,
         \A x \in S : nx2[x] = nx[x] /\ pv2[x] = pv[x]
  PROVE  Linked(nx2, pv2, f, l, S)
<1>1. PICK k \in Nat : \E at : Lists(nx, pv, f, l, S, k, at)  BY DEF Linked
<1>2. PICK at : Lists(nx, pv, f, l, S, k, at)  BY <1>1
<1>3. Lists(nx2, pv2, f, l, S, k, at)  BY <1>2 DEF Lists
<1> QED BY <1>3 DEF Linked

\* No member, no list.
LEMMA NoneLinked == ASSUME NEW nx, NEW pv PROVE Linked(nx, pv, 0, 0, {})
<1> DEFINE at == [i \in 0 .. 1 |-> 0]
<1>1. at[0] = 0 /\ at[1] = 0 /\ 0 + 1 = 1 /\ 1 .. 0 = {}  OBVIOUS
<1> HIDE DEF at
<1>2. Lists(nx, pv, 0, 0, {}, 0, at)  BY <1>1 DEF Lists
<1> QED BY <1>2 DEF Linked

\* m is linked after l.
LinkedAfter(nx, pv, l, S, m, nx2, pv2) ==
  /\ m \notin S /\ m # 0
  /\ \A x \in S : nx2[x] = (IF x = l THEN m ELSE nx[x]) /\ pv2[x] = pv[x]
  /\ nx2[m] = 0 /\ pv2[m] = l

\* A member is put at the end.
LEMMA Appended ==
  ASSUME NEW nx, NEW pv, NEW f, NEW l, NEW S, Linked(nx, pv, f, l, S),
         NEW m, NEW nx2, NEW pv2, LinkedAfter(nx, pv, l, S, m, nx2, pv2),
         NEW f2, f2 = IF l = 0 THEN m ELSE f, NEW S2, S2 = S \cup {m}
  PROVE  Linked(nx2, pv2, f2, m, S2)
<1> USE DEF LinkedAfter
<1>1. PICK k \in Nat : \E at : Lists(nx, pv, f, l, S, k, at)  BY DEF Linked
<1>2. PICK at : Lists(nx, pv, f, l, S, k, at)  BY <1>1
<1>3. 0 \notin S  BY DEF Linked
<1>4. \A i \in 1 .. k : at[i] # 0 /\ at[i] # m /\ at[i] \in S  BY <1>2, <1>3 DEF Lists
<1> DEFINE to == [i \in 0 .. k + 2 |-> IF i = k + 1 THEN m ELSE IF i = k + 2 THEN 0 ELSE at[i]]
<1>5. to[k + 1] = m /\ to[k + 2] = 0 /\ \A i \in 0 .. k : to[i] = at[i]  OBVIOUS
<1> HIDE DEF to
<1>6. to[0] = 0 /\ to[k + 1 + 1] = 0 /\ to[k + 1] = m
  <2>1. 0 \in 0 .. k /\ k + 1 + 1 = k + 2  OBVIOUS
  <2> QED BY <1>2, <1>5, <2>1 DEF Lists
<1>7. to[1] = f2
  <2>1. CASE k = 0
    <3>1. l = 0 /\ 0 + 1 = 1  BY <1>2, <2>1 DEF Lists
    <3> QED BY <1>5, <2>1, <3>1
  <2>2. CASE k # 0
    <3>1. k \in 1 .. k /\ 1 \in 0 .. k  BY <2>2
    <3>2. l # 0  BY <1>2, <1>4, <3>1 DEF Lists
    <3> QED BY <1>2, <1>5, <3>1, <3>2 DEF Lists
  <2> QED BY <2>1, <2>2
<1>8. ASSUME NEW i \in 1 .. k + 1
      PROVE to[i] \in S \cup {m} /\ nx2[to[i]] = to[i + 1] /\ pv2[to[i]] = to[i - 1]
  <2>1. CASE i = k + 1
    <3>1. i - 1 = k /\ i + 1 = k + 2 /\ k \in 0 .. k  BY <2>1
    <3> QED BY <1>2, <1>5, <2>1, <3>1 DEF Lists
  <2>2. CASE i # k + 1
    <3>1. i \in 1 .. k /\ i \in 0 .. k /\ i - 1 \in 0 .. k  BY <2>2
    <3>2. to[i] = at[i] /\ at[i] \in S /\ to[i - 1] = at[i - 1]  BY <1>4, <1>5, <3>1
    <3>3. pv2[to[i]] = to[i - 1]  BY <1>2, <3>1, <3>2 DEF Lists
    <3>4. CASE i = k
      <4>1. at[i] = l  BY <1>2, <3>4 DEF Lists
      <4> QED BY <1>5, <3>2, <3>3, <3>4, <4>1
    <3>5. CASE i # k
      <4>1. i + 1 \in 0 .. k /\ k \in 1 .. k  BY <3>1, <3>5
      <4>2. at[i] # l  BY <1>2, <3>1, <3>5, <4>1 DEF Lists
      <4>3. nx2[at[i]] = at[i + 1]  BY <1>2, <3>1, <3>2, <4>2 DEF Lists
      <4> QED BY <1>5, <3>2, <3>3, <4>1, <4>3
    <3> QED BY <3>4, <3>5
  <2> QED BY <2>1, <2>2
<1>9. ASSUME NEW x \in S \cup {m} PROVE \E i \in 1 .. k + 1 : to[i] = x
  <2>1. k + 1 \in 1 .. k + 1 /\ \A i \in 1 .. k : i \in 1 .. k + 1 /\ i \in 0 .. k  OBVIOUS
  <2>2. CASE x = m  BY <1>5, <2>1, <2>2
  <2>3. CASE x \in S
    <3>1. PICK i \in 1 .. k : at[i] = x  BY <1>2, <2>3 DEF Lists
    <3> QED BY <1>5, <2>1, <3>1
  <2> QED BY <2>2, <2>3
<1>10. ASSUME NEW i \in 1 .. k + 1, NEW j \in 1 .. k + 1, to[i] = to[j] PROVE i = j
  <2>1. \A n \in 1 .. k + 1 : n = k + 1 \/ (n \in 1 .. k /\ n \in 0 .. k)  OBVIOUS
  <2> QED BY <1>2, <1>4, <1>5, <1>10, <2>1 DEF Lists
<1>11. Lists(nx2, pv2, f2, m, S2, k + 1, to)
  BY <1>6, <1>7, <1>8, <1>9, <1>10 DEF Lists
<1> QED BY <1>3, <1>11 DEF Linked

\* The neighbours of m are linked with each other.
LinkedPast(nx, pv, S, m, nx2, pv2) ==
  /\ m \in S
  /\ \A x \in S \ {m} : /\ nx2[x] = IF x = pv[m] THEN nx[m] ELSE nx[x]
                        /\ pv2[x] = IF x = nx[m] THEN pv[m] ELSE pv[x]

\* A member is taken out, wherever it is.
LEMMA Unlinked ==
  ASSUME NEW nx, NEW pv, NEW f, NEW l, NEW S, Linked(nx, pv, f, l, S),
         NEW m, NEW nx2, NEW pv2, LinkedPast(nx, pv, S, m, nx2, pv2),
         NEW f2, f2 = IF pv[m] = 0 THEN nx[m] ELSE f,
         NEW l2, l2 = IF nx[m] = 0 THEN pv[m] ELSE l, NEW S2, S2 = S \ {m}
  PROVE  Linked(nx2, pv2, f2, l2, S2)
<1> USE DEF LinkedPast
<1>1. PICK k \in Nat : \E at : Lists(nx, pv, f, l, S, k, at)  BY DEF Linked
<1>2. PICK at : Lists(nx, pv, f, l, S, k, at)  BY <1>1
<1>3. 0 \notin S  BY DEF Linked
<1>4. PICK p \in 1 .. k : at[p] = m  BY <1>2 DEF Lists
<1>5. nx[m] = at[p + 1] /\ pv[m] = at[p - 1] /\ k - 1 \in Nat  BY <1>2, <1>4 DEF Lists
<1>6. \A i \in 1 .. k : at[i] # 0 /\ at[i] \in S /\ (at[i] = m <=> i = p)
  BY <1>2, <1>3, <1>4 DEF Lists
<1> DEFINE to == [i \in 0 .. k |-> IF i < p THEN at[i] ELSE at[i + 1]]
<1>7. \A i \in 0 .. k : to[i] = IF i < p THEN at[i] ELSE at[i + 1]  OBVIOUS
<1> HIDE DEF to
<1>8. to[0] = 0 /\ to[k - 1 + 1] = 0
  <2>1. 0 \in 0 .. k /\ k \in 0 .. k /\ 0 < p /\ ~ (k < p) /\ k - 1 + 1 = k  OBVIOUS
  <2> QED BY <1>2, <1>7, <2>1 DEF Lists
<1>9. to[1] = f2
  <2>1. 1 \in 0 .. k /\ 1 - 1 = 0  OBVIOUS
  <2>2. CASE p = 1
    <3>1. ~ (1 < p)  BY <2>2
    <3> QED BY <1>2, <1>5, <1>7, <2>1, <2>2, <3>1 DEF Lists
  <2>3. CASE p # 1
    <3>1. 1 < p /\ p - 1 \in 1 .. k  BY <2>3
    <3> QED BY <1>2, <1>5, <1>6, <1>7, <2>1, <3>1 DEF Lists
  <2> QED BY <2>2, <2>3
<1>10. to[k - 1] = l2
  <2>1. k - 1 \in 0 .. k /\ (k - 1) + 1 = k  OBVIOUS
  <2>2. CASE p = k
    <3>1. k - 1 < p  BY <2>2
    <3> QED BY <1>2, <1>5, <1>7, <2>1, <2>2, <3>1 DEF Lists
  <2>3. CASE p # k
    <3>1. ~ (k - 1 < p) /\ p + 1 \in 1 .. k  BY <2>3
    <3> QED BY <1>2, <1>5, <1>6, <1>7, <2>1, <3>1 DEF Lists
  <2> QED BY <2>2, <2>3
<1>11. ASSUME NEW i \in 1 .. k - 1
       PROVE to[i] \in S \ {m} /\ nx2[to[i]] = to[i + 1] /\ pv2[to[i]] = to[i - 1]
  <2> DEFINE j == IF i < p THEN i ELSE i + 1
  <2>1. /\ j \in 1 .. k /\ j # p /\ i \in 0 .. k /\ i + 1 \in 0 .. k /\ i - 1 \in 0 .. k
        /\ p - 1 \in 0 .. k /\ p + 1 \in 0 .. k + 1 /\ j + 1 \in Nat /\ j - 1 \in Nat
    OBVIOUS
  <2>2. to[i] = at[j]  BY <1>7, <2>1
  <2>3. /\ to[i + 1] = IF i + 1 < p THEN at[i + 1] ELSE at[(i + 1) + 1]
        /\ to[i - 1] = IF i - 1 < p THEN at[i - 1] ELSE at[(i - 1) + 1]
    BY <1>7, <2>1
  <2>4. to[i + 1] = IF j = p - 1 THEN at[p + 1] ELSE at[j + 1]
    <3>1. CASE i + 1 < p
      <4>1. j = i /\ j # p - 1  BY <3>1
      <4> QED BY <2>3, <3>1, <4>1
    <3>2. CASE i + 1 = p
      <4>1. j = i /\ j = p - 1 /\ (i + 1) + 1 = p + 1  BY <3>2
      <4> QED BY <2>3, <3>2, <4>1
    <3>3. CASE i + 1 > p
      <4>1. j = i + 1 /\ j # p - 1 /\ (i + 1) + 1 = j + 1  BY <3>3
      <4> QED BY <2>3, <3>3, <4>1
    <3> QED BY <3>1, <3>2, <3>3
  <2>5. to[i - 1] = IF j = p + 1 THEN at[p - 1] ELSE at[j - 1]
    <3>1. CASE i < p
      <4>1. j = i /\ j # p + 1 /\ i - 1 < p  BY <3>1
      <4> QED BY <2>3, <4>1
    <3>2. CASE i = p
      <4>1. j = p + 1 /\ i - 1 < p /\ i - 1 = p - 1  BY <3>2
      <4> QED BY <2>3, <4>1
    <3>3. CASE i > p
      <4>1. j = i + 1 /\ j # p + 1 /\ ~ (i - 1 < p) /\ (i - 1) + 1 = j - 1  BY <3>3
      <4> QED BY <2>3, <4>1
    <3> QED BY <3>1, <3>2, <3>3
  <2> HIDE DEF j
  <2>6. at[j] \in S \ {m} /\ at[j] # 0  BY <1>6, <2>1
  <2>7. nx[at[j]] = at[j + 1] /\ pv[at[j]] = at[j - 1]  BY <1>2, <2>1 DEF Lists
  <2>8. at[j] = pv[m] <=> j = p - 1
    <3>1. CASE p = 1
      <4>1. p - 1 = 0 /\ j # 0  BY <2>1, <3>1
      <4> QED BY <1>2, <1>5, <2>6, <4>1 DEF Lists
    <3>2. CASE p # 1
      <4>1. p - 1 \in 1 .. k  BY <3>2
      <4> QED BY <1>2, <1>5, <2>1, <4>1 DEF Lists
    <3> QED BY <3>1, <3>2
  <2>9. at[j] = nx[m] <=> j = p + 1
    <3>1. CASE p = k
      <4>1. j # k + 1  BY <2>1
      <4> QED BY <1>2, <1>5, <2>6, <3>1, <4>1 DEF Lists
    <3>2. CASE p # k
      <4>1. p + 1 \in 1 .. k  BY <3>2
      <4> QED BY <1>2, <1>5, <2>1, <4>1 DEF Lists
    <3> QED BY <3>1, <3>2
  <2> QED BY <1>5, <2>2, <2>4, <2>5, <2>6, <2>7, <2>8, <2>9
<1>12. ASSUME NEW x \in S \ {m} PROVE \E i \in 1 .. k - 1 : to[i] = x
  <2>1. PICK j \in 1 .. k : at[j] = x  BY <1>2 DEF Lists
  <2>2. j # p  BY <1>4, <2>1
  <2>3. CASE j < p
    <3>1. j \in 1 .. k - 1 /\ j \in 0 .. k  BY <2>3
    <3> QED BY <1>7, <2>1, <2>3, <3>1
  <2>4. CASE j > p
    <3>1. j - 1 \in 1 .. k - 1 /\ j - 1 \in 0 .. k /\ ~ (j - 1 < p) /\ (j - 1) + 1 = j  BY <2>4
    <3> QED BY <1>7, <2>1, <3>1
  <2> QED BY <2>2, <2>3, <2>4
<1>13. ASSUME NEW i \in 1 .. k - 1, NEW j \in 1 .. k - 1, to[i] = to[j] PROVE i = j
  <2> DEFINE a == IF i < p THEN i ELSE i + 1
             b == IF j < p THEN j ELSE j + 1
  <2>1. a \in 1 .. k /\ b \in 1 .. k /\ (a = b => i = j) /\ i \in 0 .. k /\ j \in 0 .. k
    OBVIOUS
  <2>2. to[i] = at[a] /\ to[j] = at[b]  BY <1>7, <2>1
  <2> HIDE DEF a, b
  <2>3. at[a] = at[b]  BY <1>13, <2>2
  <2>4. \A x, y \in 1 .. k : at[x] = at[y] => x = y  BY <1>2 DEF Lists
  <2>5. a = b  BY <2>1, <2>3, <2>4
  <2> QED BY <2>1, <2>5
<1>14. Lists(nx2, pv2, f2, l2, S2, k - 1, to)
  BY <1>8, <1>9, <1>10, <1>11, <1>12, <1>13 DEF Lists
<1> QED BY <1>3, <1>5, <1>14 DEF Linked
---------------------------------------------------------------------------
(* Going through a list *)

\* A set of numbers has a least one.
LEMMA Least ==
  ASSUME NEW T \in SUBSET Nat, T # {}
  PROVE  \E x \in T : \A y \in T : x <= y
<1>1. \A x, y \in Nat : <<y, x>> \in OpToRel(<, Nat) <=> y < x  BY DEF OpToRel
<1> HIDE DEF OpToRel
<1>2. PICK x \in T : \A y \in T : ~ (<<y, x>> \in OpToRel(<, Nat))
  BY WFMin, NatLessThanWellFounded
<1>3. \A y \in T : x \in Nat /\ y \in Nat /\ ~ (y < x)  BY <1>1, <1>2
<1>4. \A y \in T : x <= y  BY <1>3
<1> QED BY <1>4

\* Induction, with a set for the predicate.
LEMMA Induction ==
  ASSUME NEW T, 0 \in T, \A n \in Nat : n \in T => n + 1 \in T
  PROVE  \A n \in Nat : n \in T
<1> DEFINE B == {n \in Nat : n \notin T}
<1> SUFFICES ASSUME B # {} PROVE FALSE  OBVIOUS
<1>1. B \in SUBSET Nat  OBVIOUS
<1>2. PICK x \in B : \A y \in B : x <= y
  <2> HIDE DEF B
  <2> QED BY <1>1, Least
<1>3. x \in Nat /\ x # 0 /\ x \notin T  OBVIOUS
<1>4. x - 1 \in Nat /\ (x - 1) + 1 = x /\ ~ (x <= x - 1)  BY <1>3
<1>5. x - 1 \in T  BY <1>2, <1>4
<1> QED BY <1>3, <1>4, <1>5

\* A list of different members is not longer than all of them.
LEMMA ListFits ==
  ASSUME NEW N \in Nat, NEW k \in Nat, NEW at, \A i \in 1 .. k : at[i] \in 1 .. N,
         \A i, j \in 1 .. k : at[i] = at[j] => i = j
  PROVE  k <= N
<1>1. IsFiniteSet(1 .. N) /\ Cardinality(1 .. N) = N
  <2>1. IsFiniteSet(1 .. N) /\ Cardinality(1 .. N) = IF 1 > N THEN 0 ELSE N - 1 + 1
    BY FS_Interval
  <2> QED BY <2>1
<1>2. IsFiniteSet(1 .. k) /\ Cardinality(1 .. k) = k
  <2>1. IsFiniteSet(1 .. k) /\ Cardinality(1 .. k) = IF 1 > k THEN 0 ELSE k - 1 + 1
    BY FS_Interval
  <2> QED BY <2>1
<1>3. SUFFICES ASSUME k > N PROVE FALSE  OBVIOUS
<1>4. Cardinality(1 .. N) < Cardinality(1 .. k)  BY <1>1, <1>2, <1>3
<1> DEFINE to == [i \in 1 .. k |-> at[i]]
<1>5. to \in [1 .. k -> 1 .. N]  OBVIOUS
<1> HIDE DEF to
<1>6. \E i, j \in 1 .. k : i # j /\ to[i] = to[j]  BY <1>1, <1>2, <1>4, <1>5, FS_PigeonHole
<1> QED BY <1>6 DEF to

\* There is a way from the first member to the last, and then to NULL for ever.
LEMMA WayExists ==
  ASSUME NEW nx, NEW pv, NEW f, NEW l, NEW S, Linked(nx, pv, f, l, S)
  PROVE  \E g : /\ g = [n \in Nat |-> g[n]] /\ g[0] = f
                /\ \A n \in Nat \ {0} : /\ n - 1 \in Nat /\ g[n - 1] \in S \cup {0}
                                        /\ g[n] = IF g[n - 1] = 0 THEN 0 ELSE nx[g[n - 1]]
<1>1. PICK k \in Nat : \E at : Lists(nx, pv, f, l, S, k, at)  BY DEF Linked
<1>2. PICK at : Lists(nx, pv, f, l, S, k, at)  BY <1>1
<1>3. 0 \notin S  BY DEF Linked
<1>4. \A i \in 1 .. k : at[i] # 0 /\ at[i] \in S  BY <1>2, <1>3 DEF Lists
<1> DEFINE g == [n \in Nat |-> IF n < k THEN at[n + 1] ELSE 0]
<1>5. \A n \in Nat : g[n] = IF n < k THEN at[n + 1] ELSE 0  OBVIOUS
<1>6. g = [n \in Nat |-> g[n]]  OBVIOUS
<1> HIDE DEF g
<1>7. g[0] = f
  <2>1. CASE k = 0
    <3>1. ~ (0 < k) /\ 0 + 1 = 1 /\ 0 \in Nat  BY <2>1
    <3>2. g[0] = 0  BY <1>5, <3>1
    <3>3. at[0 + 1] = 0 /\ at[1] = f  BY <1>2, <2>1 DEF Lists
    <3> QED BY <3>1, <3>2, <3>3
  <2>2. CASE k # 0
    <3>1. 0 < k /\ 0 + 1 = 1 /\ 0 \in Nat  BY <2>2
    <3> QED BY <1>2, <1>5, <3>1 DEF Lists
  <2> QED BY <2>1, <2>2
<1>8. ASSUME NEW n \in Nat \ {0}
      PROVE  /\ n - 1 \in Nat /\ g[n - 1] \in S \cup {0}
             /\ g[n] = IF g[n - 1] = 0 THEN 0 ELSE nx[g[n - 1]]
  <2>1. n \in Nat /\ n - 1 \in Nat /\ (n - 1) + 1 = n  OBVIOUS
  <2>2. g[n - 1] = IF n - 1 < k THEN at[n] ELSE 0  BY <1>5, <2>1
  <2>3. g[n] = IF n < k THEN at[n + 1] ELSE 0  BY <1>5, <2>1
  <2>4. CASE n - 1 < k
    <3>1. n \in 1 .. k  BY <2>4
    <3>2. nx[at[n]] = at[n + 1] /\ (n = k => at[n + 1] = 0)  BY <1>2, <3>1 DEF Lists
    <3>3. n < k <=> n # k  BY <3>1
    <3> QED BY <1>4, <2>1, <2>2, <2>3, <2>4, <3>1, <3>2, <3>3
  <2>5. CASE ~ (n - 1 < k)
    <3>1. ~ (n < k)  BY <2>5
    <3> QED BY <2>1, <2>2, <2>3, <2>5, <3>1
  <2> QED BY <2>4, <2>5
<1> QED BY <1>6, <1>7, <1>8

\* h starts at f and follows the links of S.
Follows(h, nx, f, S) ==
  /\ h[0] = f
  /\ \A n \in Nat \ {0} : /\ h[n - 1] = 0 => h[n] = 0
                          /\ h[n - 1] \in S => h[n] = nx[h[n - 1]]

\* Within N steps it is at every member, and then at NULL.
Covers(h, N, S) ==
  /\ \A n \in 0 .. N : h[n] \in S \cup {0}
  /\ \A x \in S \cup {0} : \E n \in 0 .. N : h[n] = x

\* A way that follows the links goes through all members within as many steps.
LEMMA Reaches ==
  ASSUME NEW nx, NEW pv, NEW f, NEW l, NEW S, Linked(nx, pv, f, l, S),
         NEW N \in Nat, S \subseteq 1 .. N, NEW h, Follows(h, nx, f, S)
  PROVE  Covers(h, N, S)
<1>1. PICK k \in Nat : \E at : Lists(nx, pv, f, l, S, k, at)  BY DEF Linked
<1>2. PICK at : Lists(nx, pv, f, l, S, k, at)  BY <1>1
<1>3. \A i \in 1 .. k : at[i] \in S /\ nx[at[i]] = at[i + 1]  BY <1>2 DEF Lists
<1>4. k <= N
  <2>1. \A i \in 1 .. k : at[i] \in 1 .. N  BY <1>3
  <2>2. \A i, j \in 1 .. k : at[i] = at[j] => i = j  BY <1>2 DEF Lists
  <2> QED BY <2>1, <2>2, ListFits
<1> DEFINE T == {n \in Nat : h[n] = IF n < k THEN at[n + 1] ELSE 0}
<1>5. 0 \in T
  <2>1. 0 \in Nat /\ 0 + 1 = 1 /\ (0 < k <=> k # 0)  OBVIOUS
  <2>2. at[1] = f /\ at[k + 1] = 0  BY <1>2 DEF Lists
  <2>3. k = 0 => at[1] = 0  BY <2>1, <2>2
  <2> QED BY <2>1, <2>2, <2>3 DEF Follows
<1>6. ASSUME NEW n \in Nat, n \in T PROVE n + 1 \in T
  <2>1. n + 1 \in Nat \ {0} /\ (n + 1) - 1 = n  OBVIOUS
  <2>2. /\ h[(n + 1) - 1] = 0 => h[n + 1] = 0
        /\ h[(n + 1) - 1] \in S => h[n + 1] = nx[h[(n + 1) - 1]]
    BY <2>1 DEF Follows
  <2>3. (h[n] = 0 => h[n + 1] = 0) /\ (h[n] \in S => h[n + 1] = nx[h[n]])
    BY <2>1, <2>2
  <2>4. CASE n < k
    <3>1. n + 1 \in 1 .. k /\ (n + 1 < k <=> n + 1 # k)  BY <2>4
    <3>2. h[n] = at[n + 1]  BY <1>6, <2>4
    <3>3. h[n + 1] = at[(n + 1) + 1]  BY <1>3, <2>3, <3>1, <3>2
    <3>4. n + 1 = k => at[(n + 1) + 1] = 0  BY <1>2 DEF Lists
    <3> QED BY <2>1, <3>1, <3>3, <3>4
  <2>5. CASE ~ (n < k)
    <3>1. ~ (n + 1 < k) /\ h[n] = 0  BY <1>6, <2>5
    <3> QED BY <2>1, <2>3, <3>1
  <2> QED BY <2>4, <2>5
<1> HIDE DEF T
<1>7. \A n \in Nat : n \in T  BY <1>5, <1>6, Induction
<1>8. \A n \in Nat : h[n] = IF n < k THEN at[n + 1] ELSE 0  BY <1>7 DEF T
<1>9. ASSUME NEW n \in 0 .. N PROVE h[n] \in S \cup {0}
  <2>1. n \in Nat /\ (n < k => n + 1 \in 1 .. k)  OBVIOUS
  <2> QED BY <1>3, <1>8, <2>1
<1>10. ASSUME NEW x \in S \cup {0} PROVE \E n \in 0 .. N : h[n] = x
  <2>1. CASE x = 0
    <3>1. k \in 0 .. N /\ ~ (k < k)  BY <1>4
    <3> QED BY <1>8, <2>1, <3>1
  <2>2. CASE x \in S
    <3>1. PICK i \in 1 .. k : at[i] = x  BY <1>2, <2>2 DEF Lists
    <3>2. i - 1 \in 0 .. N /\ i - 1 \in Nat /\ i - 1 < k /\ (i - 1) + 1 = i  BY <1>4
    <3> QED BY <1>8, <3>1, <3>2
  <2> QED BY <2>1, <2>2
<1> QED BY <1>9, <1>10 DEF Covers
---------------------------------------------------------------------------
(* The chains of the hash table *)

Cell == [addr : 0 .. MaxAddr, in_use : BOOLEAN, peer : Clients \cup {0},
         prev : Link, next : Link, nexthash : Link]
Pools == [m : [Members -> Cell], hash : [Buckets -> Link],
          free : [BOOLEAN -> [first : Link, last : Link]]]

NextHash(P) == [x \in Members |-> P.m[x].nexthash]

\* Each bucket has a list of its own, of the members B[b].
Chains(P, B) ==
  /\ \A b \in Buckets : \E pv, l : Linked(NextHash(P), pv, P.hash[b], l, B[b])
  /\ \A b \in Buckets : B[b] \subseteq Members
  /\ \A b, c \in Buckets : b # c => B[b] \cap B[c] = {}

\* Nothing but the hash table is different.
SameMembers(P, Q) ==
  /\ Q.free = P.free
  /\ \A x \in Members : /\ Q.m[x].addr = P.m[x].addr /\ Q.m[x].in_use = P.m[x].in_use
                        /\ Q.m[x].peer = P.m[x].peer
                        /\ Q.m[x].prev = P.m[x].prev /\ Q.m[x].next = P.m[x].next

\* NULL is no member.
LEMMA LinkIs ==
  ASSUME ConstAssumption
  PROVE  /\ Dyn + Stat \in Nat /\ Link = Members \cup {0} /\ 0 \notin Members
         /\ Members \subseteq Nat
         /\ \A a \in Nat : Hash(a) \in Buckets
BY DEF ConstAssumption, Link, Members, Hash, Buckets

\* An entry of the hash table or a link of a chain is set.
HashSet(P, b, v) == [P EXCEPT !.hash[b] = v]
NextHashSet(P, t, v) == [P EXCEPT !.m[t].nexthash = v]

\* A bucket gets another first member.
LEMMA SetHash ==
  ASSUME NEW P \in Pools, NEW b \in Buckets, NEW v \in Link, NEW Q, Q = HashSet(P, b, v)
  PROVE  /\ Q \in Pools /\ Q.m = P.m /\ SameMembers(P, Q)
         /\ \A c \in Buckets : Q.hash[c] = IF c = b THEN v ELSE P.hash[c]
BY DEF Pools, SameMembers, HashSet

\* A member gets another successor in its chain.
LEMMA SetNextHash ==
  ASSUME NEW P \in Pools, NEW t \in Members, NEW v \in Link, NEW Q,
         Q = NextHashSet(P, t, v)
  PROVE  /\ Q \in Pools /\ Q.hash = P.hash /\ SameMembers(P, Q)
         /\ \A x \in Members : Q.m[x].nexthash = IF x = t THEN v ELSE P.m[x].nexthash
<1>1. P.m \in [Members -> Cell]  BY DEF Pools
<1>2. Q = [P EXCEPT !.m = [P.m EXCEPT ![t] = [P.m[t] EXCEPT !.nexthash = v]]]
  BY DEF NextHashSet
<1>3. [P.m[t] EXCEPT !.nexthash = v] \in Cell  BY <1>1 DEF Cell
<1>4. Q.m = [P.m EXCEPT ![t] = [P.m[t] EXCEPT !.nexthash = v]]  BY <1>2 DEF Pools
<1>5. Q \in Pools /\ Q.hash = P.hash /\ Q.free = P.free  BY <1>1, <1>2, <1>3 DEF Pools
<1>6. \A x \in Members : P.m[x] \in Cell
        /\ Q.m[x] = IF x = t THEN [P.m[x] EXCEPT !.nexthash = v] ELSE P.m[x]
  BY <1>1, <1>4
<1>7. \A x \in Members : Q.m[x].nexthash = IF x = t THEN v ELSE P.m[x].nexthash
  BY <1>6 DEF Cell
<1>8. SameMembers(P, Q)  BY <1>5, <1>6 DEF Cell, SameMembers
<1> QED BY <1>5, <1>7, <1>8

\* Chain is the list of a bucket.
LEMMA ChainIs ==
  ASSUME ConstAssumption, NEW P, NEW a, NEW pv, NEW l, NEW S \in SUBSET Members,
         Linked(NextHash(P), pv, P.hash[Hash(a)], l, S)
  PROVE  Chain(P, a) = S
<1> DEFINE nx == NextHash(P)
           f == P.hash[Hash(a)]
           F(h) == [n \in Nat |-> IF n = 0 THEN f
                                  ELSE IF h[n - 1] = 0 THEN 0 ELSE P.m[h[n - 1]].nexthash]
<1>1. \A x \in S : nx[x] = P.m[x].nexthash /\ x # 0  BY LinkIs DEF NextHash
<1>2. Nth(P, a) = CHOOSE h : h = F(h)  BY DEF Nth
<1>3. Linked(nx, pv, f, l, S)  OBVIOUS
<1> HIDE DEF nx, f
<1>4. PICK g : /\ g = [n \in Nat |-> g[n]] /\ g[0] = f
               /\ \A n \in Nat \ {0} : /\ n - 1 \in Nat /\ g[n - 1] \in S \cup {0}
                                       /\ g[n] = IF g[n - 1] = 0 THEN 0 ELSE nx[g[n - 1]]
  BY <1>3, WayExists
<1>5. g = F(g)
  <2>1. \A n \in Nat : g[n] = IF n = 0 THEN f
                              ELSE IF g[n - 1] = 0 THEN 0 ELSE P.m[g[n - 1]].nexthash
    BY <1>1, <1>4
  <2> QED BY <1>4, <2>1
<1> DEFINE h == Nth(P, a)
<1>6. h = F(h)
  <2> HIDE DEF F
  <2> QED BY <1>2, <1>5
<1> HIDE DEF h
<1>7. h[0] = f  BY <1>6
<1>8. ASSUME NEW n \in Nat \ {0}
      PROVE  (h[n - 1] = 0 => h[n] = 0) /\ (h[n - 1] \in S => h[n] = nx[h[n - 1]])
  <2>1. h[n] = IF h[n - 1] = 0 THEN 0 ELSE P.m[h[n - 1]].nexthash  BY <1>6
  <2> QED BY <1>1, <2>1
<1> DEFINE N == Dyn + Stat
<1>9. N \in Nat /\ S \subseteq 1 .. N /\ Members = 1 .. N  BY LinkIs DEF Members
<1> HIDE DEF N
<1>10. Covers(h, N, S)
  <2>1. Follows(h, nx, f, S)  BY <1>7, <1>8 DEF Follows
  <2> QED BY <1>3, <1>9, <2>1, Reaches
<1>11. Cardinality(Members) = N
  <2>1. Cardinality(1 .. N) = IF 1 > N THEN 0 ELSE N - 1 + 1  BY <1>9, FS_Interval
  <2> QED BY <1>9, <2>1
<1> QED BY <1>1, <1>10, <1>11 DEF Chain, Covers, h

\* m joins the list of bucket b, or leaves it.
Joined(B2, B, b, m) == \A c \in Buckets : B2[c] = IF c = b THEN B[c] \cup {m} ELSE B[c]
Parted(B2, B, b, m) == \A c \in Buckets : B2[c] = IF c = b THEN B[c] \ {m} ELSE B[c]
InNone(B, m) == \A c \in Buckets : m \notin B[c]

\* The links of the members in no list are kept.
OthersKept(P, Q, B) == \A x \in Members : InNone(B, x) => Q.m[x].nexthash = P.m[x].nexthash

\* HashAdd puts a member at the end of the chain of its address.
LEMMA HashAddIs ==
  ASSUME ConstAssumption, NEW P \in Pools, NEW B, Chains(P, B), NEW m \in Members,
         P.m[m].nexthash = 0, InNone(B, m),
         NEW B2, Joined(B2, B, Hash(P.m[m].addr), m), NEW Q, Q = HashAdd(P, m)
  PROVE  Q \in Pools /\ SameMembers(P, Q) /\ Chains(Q, B2) /\ OthersKept(P, Q, B)
<1> USE DEF Joined, InNone, OthersKept
<1> DEFINE a == P.m[m].addr
           b == Hash(a)
           nx == NextHash(P)
<1>0. \A c \in Buckets : B2[c] = IF c = b THEN B[c] \cup {m} ELSE B[c]  OBVIOUS
<1>1. a \in Nat /\ b \in Buckets /\ m \in Link /\ m # 0
  <2>1. P.m[m] \in Cell  BY DEF Pools
  <2>2. a \in 0 .. MaxAddr /\ MaxAddr \in Nat  BY <2>1 DEF Cell, ConstAssumption
  <2> QED BY <2>2, LinkIs
<1>2. PICK pv, l : Linked(nx, pv, P.hash[b], l, B[b])  BY <1>1 DEF Chains
<1>3. B[b] \in SUBSET Members /\ 0 \notin B[b]  BY <1>1, LinkIs DEF Chains
<1>4. Chain(P, a) = B[b]  BY <1>2, <1>3, ChainIs
<1>5. \A x \in Members : nx[x] = P.m[x].nexthash  BY DEF NextHash
<1> DEFINE pv2 == [x \in Members |-> IF x = m THEN l ELSE pv[x]]
<1>6. /\ \A c \in Buckets : B2[c] \subseteq Members
      /\ \A c, d \in Buckets : c # d => B2[c] \cap B2[d] = {}
  <2>1. \A c \in Buckets : B[c] \subseteq Members  BY DEF Chains
  <2>2. \A c, d \in Buckets : c # d => \A x \in B[c] : x \notin B[d]  BY DEF Chains
  <2> HIDE DEF b
  <2>3. \A c \in Buckets : \A x \in B2[c] : x \in B[c] \/ (c = b /\ x = m)  BY <1>0
  <2>4. \A c, d \in Buckets : c # d => \A x \in B2[c] : x \notin B2[d]
    BY <2>2, <2>3
  <2> QED BY <2>1, <2>3, <2>4
<1>7. CASE B[b] = {}
  <2>1. Q = HashSet(P, b, m)  BY <1>4, <1>7 DEF HashAdd, HashSet
  <2> HIDE DEF nx, pv2, b
  <2>2. /\ Q \in Pools /\ Q.m = P.m /\ SameMembers(P, Q)
        /\ \A c \in Buckets : Q.hash[c] = IF c = b THEN m ELSE P.hash[c]
    BY <1>1, <2>1, SetHash
  <2>3. NextHash(Q) = nx  BY <2>2 DEF NextHash, nx
  <2>4. Linked(nx, pv2, m, m, B2[b])
    <3>1. l = 0  BY <1>2, <1>7, Ends
    <3>2. nx[m] = 0 /\ pv2[m] = l  BY <1>5 DEF pv2
    <3>3. /\ m \notin B[b]
          /\ \A x \in B[b] : nx[x] = (IF x = l THEN m ELSE nx[x]) /\ pv2[x] = pv[x]
      BY <1>7
    <3>4. m = (IF l = 0 THEN m ELSE P.hash[b]) /\ B2[b] = B[b] \cup {m}  BY <1>0, <1>1, <3>1
    <3>5. LinkedAfter(nx, pv, l, B[b], m, nx, pv2)
      BY <1>1, <3>2, <3>3 DEF LinkedAfter
    <3> QED BY <1>2, <3>4, <3>5, Appended
  <2>5. ASSUME NEW c \in Buckets
        PROVE  \E q, e : Linked(NextHash(Q), q, Q.hash[c], e, B2[c])
    <3>1. CASE c = b  BY <1>0, <2>2, <2>3, <2>4, <3>1
    <3>2. CASE c # b  BY <1>0, <2>2, <2>3, <3>2 DEF Chains, nx
    <3> QED BY <3>1, <3>2
  <2>6. Chains(Q, B2)  BY <1>6, <2>5 DEF Chains
  <2> QED BY <2>2, <2>6
<1>8. CASE B[b] # {}
  <2>1. l \in B[b] /\ l # 0 /\ \A x \in B[b] : nx[x] = 0 <=> x = l  BY <1>2, <1>3, <1>8, Ends
  <2>2. l \in Members /\ (CHOOSE p \in B[b] : P.m[p].nexthash = 0) = l
    <3>1. \A x \in B[b] : P.m[x].nexthash = 0 <=> x = l  BY <1>3, <1>5, <2>1
    <3> QED BY <1>3, <2>1, <3>1
  <2>3. Q = NextHashSet(P, l, m)  BY <1>4, <1>8, <2>2 DEF HashAdd, NextHashSet
  <2> HIDE DEF nx, pv2, b
  <2>4. /\ Q \in Pools /\ Q.hash = P.hash /\ SameMembers(P, Q)
        /\ \A x \in Members : Q.m[x].nexthash = IF x = l THEN m ELSE P.m[x].nexthash
    BY <1>1, <2>2, <2>3, SetNextHash
  <2> DEFINE ny == NextHash(Q)
  <2>5. \A x \in Members : ny[x] = IF x = l THEN m ELSE nx[x]  BY <1>5, <2>4 DEF NextHash
  <2> HIDE DEF ny
  <2>6. Linked(ny, pv2, P.hash[b], m, B2[b])
    <3>1. m \notin B[b] /\ l # m  BY <1>1, <2>1
    <3>2. ny[m] = 0 /\ pv2[m] = l  BY <1>5, <2>5, <3>1 DEF pv2
    <3>3. \A x \in B[b] : ny[x] = (IF x = l THEN m ELSE nx[x]) /\ pv2[x] = pv[x]
      BY <1>3, <2>5, <3>1 DEF pv2
    <3>4. P.hash[b] = (IF l = 0 THEN m ELSE P.hash[b]) /\ B2[b] = B[b] \cup {m}
      BY <1>0, <1>1, <2>1
    <3>5. LinkedAfter(nx, pv, l, B[b], m, ny, pv2)
      BY <1>1, <3>1, <3>2, <3>3 DEF LinkedAfter
    <3> QED BY <1>2, <3>4, <3>5, Appended
  <2>7. ASSUME NEW c \in Buckets
        PROVE  \E q, e : Linked(ny, q, Q.hash[c], e, B2[c])
    <3>1. CASE c = b  BY <1>0, <2>4, <2>6, <3>1
    <3>2. CASE c # b
      <4>1. PICK q, e : Linked(nx, q, P.hash[c], e, B[c])  BY DEF Chains, nx
      <4>2. B[c] \subseteq Members /\ l \notin B[c]  BY <1>1, <2>1, <3>2 DEF Chains
      <4>3. \A x \in B[c] : ny[x] = nx[x] /\ q[x] = q[x]  BY <2>5, <4>2
      <4>4. Linked(ny, q, P.hash[c], e, B[c])  BY <4>1, <4>3, SameLinks
      <4> QED BY <1>0, <2>4, <3>2, <4>4
    <3> QED BY <3>1, <3>2
  <2>8. Chains(Q, B2)  BY <1>6, <2>7 DEF Chains, ny
  <2> QED BY <1>1, <2>1, <2>4, <2>8
<1> QED BY <1>7, <1>8

\* HashDel takes a member out of the chain of its address.
LEMMA HashDelIs ==
  ASSUME ConstAssumption, NEW P \in Pools, NEW B, Chains(P, B), NEW m \in Members,
         m \in B[Hash(P.m[m].addr)],
         NEW B2, Parted(B2, B, Hash(P.m[m].addr), m), NEW Q, Q = HashDel(P, m)
  PROVE  Q \in Pools /\ SameMembers(P, Q) /\ Chains(Q, B2) /\ OthersKept(P, Q, B)
<1> USE DEF Parted, InNone, OthersKept
<1> DEFINE a == P.m[m].addr
           b == Hash(a)
           nx == NextHash(P)
           n == P.m[m].nexthash
<1>0. \A c \in Buckets : B2[c] = IF c = b THEN B[c] \ {m} ELSE B[c]  OBVIOUS
<1>1. a \in Nat /\ b \in Buckets /\ m # 0 /\ n \in Link
  <2>1. P.m[m] \in Cell  BY DEF Pools
  <2>2. a \in 0 .. MaxAddr /\ MaxAddr \in Nat  BY <2>1 DEF Cell, ConstAssumption
  <2> QED BY <2>1, <2>2, LinkIs DEF Cell
<1>2. PICK pv, l : Linked(nx, pv, P.hash[b], l, B[b])  BY <1>1 DEF Chains
<1>3. B[b] \in SUBSET Members /\ 0 \notin B[b] /\ m \in B[b]  BY <1>1, LinkIs DEF Chains
<1>4. Chain(P, a) = B[b]  BY <1>2, <1>3, ChainIs
<1>5. \A x \in Members : nx[x] = P.m[x].nexthash  BY DEF NextHash
<1> DEFINE pv2 == [x \in Members |-> IF x = nx[m] THEN pv[m] ELSE pv[x]]
           before == {p \in Chain(P, a) : P.m[p].nexthash = m}
<1>6. pv[m] \in B[b] \cup {0} /\ before = IF pv[m] = 0 THEN {} ELSE {pv[m]}
  <2>1. /\ pv[m] \in B[b] \cup {0}
        /\ pv[m] # 0 => nx[pv[m]] = m
        /\ \A x \in B[b] : nx[x] # 0 => pv[nx[x]] = x
    BY <1>2, <1>3, Ends
  <2>2. \A x \in B[b] : nx[x] = m <=> (pv[m] # 0 /\ x = pv[m])  BY <1>1, <1>3, <2>1
  <2>3. \A x \in B[b] : P.m[x].nexthash = m <=> (pv[m] # 0 /\ x = pv[m])  BY <1>3, <1>5, <2>2
  <2> QED BY <1>4, <2>1, <2>3
<1>7. Linked(nx, pv, P.hash[b], l, B[b]) /\ nx[m] = n  BY <1>2, <1>5
<1>8. /\ \A c \in Buckets : B2[c] \subseteq Members
      /\ \A c, d \in Buckets : c # d => B2[c] \cap B2[d] = {}
  <2>1. \A c \in Buckets : B[c] \subseteq Members  BY DEF Chains
  <2>2. \A c, d \in Buckets : c # d => \A x \in B[c] : x \notin B[d]  BY DEF Chains
  <2> HIDE DEF b
  <2>3. \A c \in Buckets : \A x \in B2[c] : x \in B[c]  BY <1>0
  <2>4. \A c, d \in Buckets : c # d => \A x \in B2[c] : x \notin B2[d]
    BY <2>2, <2>3
  <2> QED BY <2>1, <2>3, <2>4
<1>9. CASE pv[m] = 0
  <2>1. Q = HashSet(P, b, n)  BY <1>6, <1>9 DEF HashDel, HashSet
  <2> HIDE DEF nx, pv2, n, b
  <2>2. /\ Q \in Pools /\ Q.m = P.m /\ SameMembers(P, Q)
        /\ \A c \in Buckets : Q.hash[c] = IF c = b THEN n ELSE P.hash[c]
    BY <1>1, <2>1, SetHash
  <2>3. NextHash(Q) = nx  BY <2>2 DEF NextHash, nx
  <2> DEFINE e2 == IF n = 0 THEN pv[m] ELSE l
  <2>4. Linked(nx, pv2, n, e2, B2[b])
    <3>1. \A x \in B[b] \ {m} : /\ nx[x] = IF x = pv[m] THEN nx[m] ELSE nx[x]
                                /\ pv2[x] = IF x = nx[m] THEN pv[m] ELSE pv[x]
      BY <1>3, <1>9 DEF pv2
    <3>2. /\ n = IF pv[m] = 0 THEN nx[m] ELSE P.hash[b]
          /\ e2 = IF nx[m] = 0 THEN pv[m] ELSE l
          /\ B2[b] = B[b] \ {m}
      BY <1>0, <1>1, <1>7, <1>9
    <3> HIDE DEF e2
    <3>3. LinkedPast(nx, pv, B[b], m, nx, pv2)  BY <1>3, <3>1 DEF LinkedPast
    <3>4. Linked(nx, pv, P.hash[b], l, B[b])  BY <1>7
    <3> QED BY <3>2, <3>3, <3>4, Unlinked
  <2>5. ASSUME NEW c \in Buckets
        PROVE  \E q, e : Linked(NextHash(Q), q, Q.hash[c], e, B2[c])
    <3>1. CASE c = b  BY <1>0, <2>2, <2>3, <2>4, <3>1
    <3>2. CASE c # b  BY <1>0, <2>2, <2>3, <3>2 DEF Chains, nx
    <3> QED BY <3>1, <3>2
  <2>6. Chains(Q, B2)  BY <1>8, <2>5 DEF Chains
  <2> QED BY <2>2, <2>6
<1>10. CASE pv[m] # 0
  <2> DEFINE p == pv[m]
  <2>1. p \in Members /\ p \in B[b] /\ p # m /\ (CHOOSE q \in before : TRUE) = p
    <3>1. p \in B[b] /\ p # m  BY <1>3, <1>7, <1>10, Ends
    <3>2. before = {p}  BY <1>6, <1>10
    <3> QED BY <1>3, <3>1, <3>2
  <2>2. Q = NextHashSet(P, p, n)  BY <1>6, <1>10, <2>1 DEF HashDel, NextHashSet
  <2> HIDE DEF nx, pv2, n, p, b
  <2>3. /\ Q \in Pools /\ Q.hash = P.hash /\ SameMembers(P, Q)
        /\ \A x \in Members : Q.m[x].nexthash = IF x = p THEN n ELSE P.m[x].nexthash
    BY <1>1, <2>1, <2>2, SetNextHash
  <2> DEFINE ny == NextHash(Q)
  <2>4. \A x \in Members : ny[x] = IF x = p THEN n ELSE nx[x]  BY <1>5, <2>3 DEF NextHash
  <2> HIDE DEF ny
  <2> DEFINE e2 == IF n = 0 THEN p ELSE l
  <2>5. Linked(ny, pv2, P.hash[b], e2, B2[b])
    <3>1. \A x \in B[b] \ {m} : /\ ny[x] = IF x = pv[m] THEN nx[m] ELSE nx[x]
                                /\ pv2[x] = IF x = nx[m] THEN pv[m] ELSE pv[x]
      BY <1>3, <1>7, <2>4 DEF pv2, p
    <3>2. /\ P.hash[b] = IF pv[m] = 0 THEN nx[m] ELSE P.hash[b]
          /\ e2 = IF nx[m] = 0 THEN pv[m] ELSE l
          /\ B2[b] = B[b] \ {m}
      BY <1>0, <1>1, <1>7, <1>10 DEF p
    <3> HIDE DEF e2
    <3>3. LinkedPast(nx, pv, B[b], m, ny, pv2)  BY <1>3, <3>1 DEF LinkedPast
    <3> QED BY <1>7, <3>2, <3>3, Unlinked
  <2>6. ASSUME NEW c \in Buckets
        PROVE  \E q, e : Linked(ny, q, Q.hash[c], e, B2[c])
    <3>1. CASE c = b  BY <1>0, <2>3, <2>5, <3>1
    <3>2. CASE c # b
      <4>1. PICK q, e : Linked(nx, q, P.hash[c], e, B[c])  BY DEF Chains, nx
      <4>2. B[c] \subseteq Members /\ p \notin B[c]  BY <1>1, <2>1, <3>2 DEF Chains
      <4>3. \A x \in B[c] : ny[x] = nx[x] /\ q[x] = q[x]  BY <2>4, <4>2
      <4>4. Linked(ny, q, P.hash[c], e, B[c])  BY <4>1, <4>3, SameLinks
      <4> QED BY <1>0, <2>3, <3>2, <4>4
    <3> QED BY <3>1, <3>2
  <2>7. Chains(Q, B2)  BY <1>8, <2>6 DEF Chains, ny
  <2> QED BY <1>1, <2>1, <2>3, <2>7
<1> QED BY <1>9, <1>10
---------------------------------------------------------------------------
(* The lists of free members *)

NextOf(P) == [x \in Members |-> P.m[x].next]
PrevOf(P) == [x \in Members |-> P.m[x].prev]
FreeOf(P, k) == {x \in Members : IsStatic(x) = k /\ ~P.m[x].in_use}

\* The free members are linked both ways, a member in use leads nowhere.
FreeSound(P) ==
  /\ P \in Pools
  /\ \A k \in BOOLEAN :
       Linked(NextOf(P), PrevOf(P), P.free[k].first, P.free[k].last, FreeOf(P, k))
  /\ \A x \in Members : P.m[x].in_use => P.m[x].next = 0

\* Nothing but the free lists and what is in use is different.
SameHash(P, Q) ==
  /\ Q.hash = P.hash
  /\ \A x \in Members : Q.m[x].addr = P.m[x].addr /\ Q.m[x].nexthash = P.m[x].nexthash

\* A member or the ends of a list are set.
CellSet(P, t, v) == [P EXCEPT !.m[t] = v]
FreeSet(P, k, v) == [P EXCEPT !.free[k] = v]

\* One member is replaced, and nothing else.
LEMMA SetCell ==
  ASSUME NEW P \in Pools, NEW t \in Members, NEW v \in Cell, NEW Q, Q = CellSet(P, t, v)
  PROVE  /\ Q \in Pools /\ Q.hash = P.hash /\ Q.free = P.free
         /\ \A x \in Members : Q.m[x] = IF x = t THEN v ELSE P.m[x]
BY DEF Pools, CellSet

\* The ends of one list are replaced, and nothing else.
LEMMA SetFree ==
  ASSUME NEW P \in Pools, NEW k \in BOOLEAN, NEW v \in [first : Link, last : Link],
         NEW Q, Q = FreeSet(P, k, v)
  PROVE  /\ Q \in Pools /\ Q.hash = P.hash /\ Q.m = P.m
         /\ \A j \in BOOLEAN : Q.free[j] = IF j = k THEN v ELSE P.free[j]
BY DEF Pools, FreeSet

\* The parts of a pool.
LEMMA PoolParts ==
  ASSUME NEW P \in Pools
  PROVE  /\ \A x \in Members : P.m[x] \in Cell
         /\ \A k \in BOOLEAN : P.free[k] \in [first : Link, last : Link]
BY DEF Pools

\* The fields that Take and GiveBack set at the end, one after the other.
LEMMA TakenFields ==
  ASSUME NEW P \in Pools, NEW m \in Members
  PROVE  [P EXCEPT !.m[m].next = 0, !.m[m].prev = 0, !.m[m].in_use = TRUE]
           = CellSet(P, m, [P.m[m] EXCEPT !.next = 0, !.prev = 0, !.in_use = TRUE])
BY PoolParts, ZenonT(40) DEF CellSet, Pools, Cell

Given(P, m, k, l) ==
  [P EXCEPT !.m[m].prev = l, !.free[k].last = m, !.m[m].in_use = FALSE, !.m[m].peer = 0]

LastIs(v, m) == [v EXCEPT !.last = m]
GivenCell(v, l) == [v EXCEPT !.prev = l, !.in_use = FALSE, !.peer = 0]

\* They are one member and the ends of one list, replaced at once.
LEMMA GivenFields ==
  ASSUME NEW P \in Pools, NEW m \in Members, NEW k \in BOOLEAN, NEW l \in Link
  PROVE  Given(P, m, k, l)
           = CellSet(FreeSet(P, k, LastIs(P.free[k], m)), m, GivenCell(P.m[m], l))
<1> DEFINE c == GivenCell(P.m[m], l)
           F == FreeSet(P, k, LastIs(P.free[k], m))
           G == Given(P, m, k, l)
<1>1. /\ P.m \in [Members -> Cell] /\ P.free \in [BOOLEAN -> [first : Link, last : Link]]
      /\ P = [m |-> P.m, hash |-> P.hash, free |-> P.free]
  BY DEF Pools
<1>2. G \in [m : {G.m}, hash : {P.hash}, free : {G.free}]
  BY <1>1 DEF Given
<1>3. G.free = [P.free EXCEPT ![k].last = m]
  BY <1>1 DEF Given
<1>4. DOMAIN G.m = Members /\ \A x \in Members : x # m => G.m[x] = P.m[x]
  BY <1>1 DEF Given
<1>5. G.m[m] = [[[P.m[m] EXCEPT !.prev = l] EXCEPT !.in_use = FALSE] EXCEPT !.peer = 0]
  BY <1>1 DEF Given
<1>6. G.m[m] = c
  BY <1>1, <1>5 DEF GivenCell, Cell
<1>7. F = [m |-> P.m, hash |-> P.hash, free |-> [P.free EXCEPT ![k].last = m]]
  BY <1>1 DEF FreeSet, LastIs
<1>8. G.m = [P.m EXCEPT ![m] = c]
  <2>1. G.m = [x \in Members |-> G.m[x]]   BY <1>1 DEF Given
  <2> HIDE DEF G, c
  <2> QED BY <1>1, <1>4, <1>6, <2>1
<1>9. G = [m |-> G.m, hash |-> P.hash, free |-> G.free]
  <2> HIDE DEF G
  <2> QED BY <1>2
<1> HIDE DEF G, c, F
<1> QED BY <1>3, <1>7, <1>8, <1>9 DEF CellSet, G, c, F

\* What Take does to the members and to the ends of the lists.
LEMMA TakeCells ==
  ASSUME ConstAssumption, NEW P \in Pools, NEW m \in Members,
         P.m[m].prev # m, P.m[m].next # m, NEW Q, Q = Take(P, m)
  PROVE  /\ Q \in Pools /\ SameHash(P, Q)
         /\ \A x \in Members :
              /\ Q.m[x].peer = P.m[x].peer
              /\ Q.m[x].in_use = (P.m[x].in_use \/ x = m)
              /\ Q.m[x].next = IF x = m THEN 0
                               ELSE IF x = P.m[m].prev THEN P.m[m].next ELSE P.m[x].next
              /\ Q.m[x].prev = IF x = m THEN 0
                               ELSE IF x = P.m[m].next THEN P.m[m].prev ELSE P.m[x].prev
         /\ \A j \in BOOLEAN :
              /\ Q.free[j].first = IF j = IsStatic(m) /\ P.m[m].prev = 0 THEN P.m[m].next
                                   ELSE P.free[j].first
              /\ Q.free[j].last = IF j = IsStatic(m) /\ P.m[m].next = 0 THEN P.m[m].prev
                                  ELSE P.free[j].last
<1> DEFINE k == IsStatic(m)
           prev == P.m[m].prev
           next == P.m[m].next
           P1 == IF prev # 0 THEN [P EXCEPT !.m[prev].next = next]
                 ELSE [P EXCEPT !.free[k].first = next]
           P2 == IF next # 0 THEN [P1 EXCEPT !.m[next].prev = prev]
                 ELSE [P1 EXCEPT !.free[k].last = prev]
           c == [P2.m[m] EXCEPT !.next = 0, !.prev = 0, !.in_use = TRUE]
<1>1. k \in BOOLEAN /\ prev \in Link /\ next \in Link /\ prev # m /\ next # m
      /\ 0 \in Link /\ Link = Members \cup {0} /\ 0 \notin Members
  BY PoolParts, LinkIs DEF IsStatic, Cell
<1>2. Q = [P2 EXCEPT !.m[m].next = 0, !.m[m].prev = 0, !.m[m].in_use = TRUE]
  BY DEF Take
<1> HIDE DEF k, prev, next
<1>3. /\ P1 \in Pools /\ P1.hash = P.hash
      /\ \A x \in Members : P1.m[x] = IF x = prev THEN [P.m[x] EXCEPT !.next = next] ELSE P.m[x]
      /\ \A j \in BOOLEAN :
           P1.free[j] = IF j = k /\ prev = 0 THEN [P.free[j] EXCEPT !.first = next]
                        ELSE P.free[j]
  <2>1. CASE prev # 0
    <3> DEFINE v == [P.m[prev] EXCEPT !.next = next]
    <3>1. prev \in Members /\ v \in Cell  BY <1>1, <2>1, PoolParts DEF Cell
    <3>2. P1 = CellSet(P, prev, v)  BY <2>1 DEF CellSet
    <3> HIDE DEF P1, P2, v
    <3>3. /\ P1 \in Pools /\ P1.hash = P.hash /\ P1.free = P.free
          /\ \A x \in Members : P1.m[x] = IF x = prev THEN v ELSE P.m[x]
      BY <3>1, <3>2, SetCell
    <3> QED BY <2>1, <3>3 DEF v
  <2>2. CASE prev = 0
    <3> DEFINE v == [P.free[k] EXCEPT !.first = next]
    <3>1. v \in [first : Link, last : Link]  BY <1>1, PoolParts
    <3>2. P1 = FreeSet(P, k, v)  BY <2>2 DEF FreeSet
    <3> HIDE DEF P1, P2, v
    <3>3. /\ P1 \in Pools /\ P1.hash = P.hash /\ P1.m = P.m
          /\ \A j \in BOOLEAN : P1.free[j] = IF j = k THEN v ELSE P.free[j]
      BY <1>1, <3>1, <3>2, SetFree
    <3> QED BY <1>1, <2>2, <3>3 DEF v
  <2> QED BY <2>1, <2>2
<1> HIDE DEF P1
<1>4. /\ P2 \in Pools /\ P2.hash = P1.hash
      /\ \A x \in Members :
           P2.m[x] = IF x = next THEN [P1.m[x] EXCEPT !.prev = prev] ELSE P1.m[x]
      /\ \A j \in BOOLEAN :
           P2.free[j] = IF j = k /\ next = 0 THEN [P1.free[j] EXCEPT !.last = prev]
                        ELSE P1.free[j]
  <2>1. CASE next # 0
    <3> DEFINE v == [P1.m[next] EXCEPT !.prev = prev]
    <3>1. next \in Members /\ v \in Cell  BY <1>1, <1>3, <2>1, PoolParts DEF Cell
    <3>2. P2 = CellSet(P1, next, v)  BY <2>1 DEF CellSet
    <3> HIDE DEF P2, v
    <3>3. /\ P2 \in Pools /\ P2.hash = P1.hash /\ P2.free = P1.free
          /\ \A x \in Members : P2.m[x] = IF x = next THEN v ELSE P1.m[x]
      BY <1>3, <3>1, <3>2, SetCell
    <3> QED BY <2>1, <3>3 DEF v
  <2>2. CASE next = 0
    <3> DEFINE v == [P1.free[k] EXCEPT !.last = prev]
    <3>1. v \in [first : Link, last : Link]  BY <1>1, <1>3, PoolParts
    <3>2. P2 = FreeSet(P1, k, v)  BY <2>2 DEF FreeSet
    <3> HIDE DEF P2, v
    <3>3. /\ P2 \in Pools /\ P2.hash = P1.hash /\ P2.m = P1.m
          /\ \A j \in BOOLEAN : P2.free[j] = IF j = k THEN v ELSE P1.free[j]
      BY <1>1, <1>3, <3>1, <3>2, SetFree
    <3> QED BY <1>1, <2>2, <3>3 DEF v
  <2> QED BY <2>1, <2>2
<1> HIDE DEF P2
<1>5. P2.m[m] = P.m[m] /\ P.m[m] \in Cell  BY <1>1, <1>3, <1>4, PoolParts
<1>6. c = [P.m[m] EXCEPT !.next = 0, !.prev = 0, !.in_use = TRUE] /\ c \in Cell
  BY <1>1, <1>5 DEF Cell
<1>7. Q = CellSet(P2, m, c)  BY <1>2, <1>4, TakenFields
<1> HIDE DEF c
<1>8. /\ Q \in Pools /\ Q.hash = P2.hash /\ Q.free = P2.free
      /\ \A x \in Members : Q.m[x] = IF x = m THEN c ELSE P2.m[x]
  BY <1>4, <1>6, <1>7, SetCell
<1>9. \A x \in Members : P.m[x] \in Cell  BY PoolParts
<1>10. ASSUME NEW x \in Members
       PROVE  /\ Q.m[x].addr = P.m[x].addr /\ Q.m[x].nexthash = P.m[x].nexthash
              /\ Q.m[x].peer = P.m[x].peer
              /\ Q.m[x].in_use = (P.m[x].in_use \/ x = m)
              /\ Q.m[x].next = IF x = m THEN 0 ELSE IF x = prev THEN next ELSE P.m[x].next
              /\ Q.m[x].prev = IF x = m THEN 0 ELSE IF x = next THEN prev ELSE P.m[x].prev
  <2>1. CASE x = m  BY <1>6, <1>8, <1>9, <2>1 DEF Cell
  <2>2. CASE x # m
    <3>1. Q.m[x] = P2.m[x] /\ P.m[x] \in Cell /\ P1.m[x] \in Cell
      BY <1>3, <1>8, <1>9, <2>2, PoolParts
    <3>2. /\ P1.m[x].addr = P.m[x].addr /\ P1.m[x].nexthash = P.m[x].nexthash
          /\ P1.m[x].peer = P.m[x].peer /\ P1.m[x].in_use = P.m[x].in_use
          /\ P1.m[x].next = IF x = prev THEN next ELSE P.m[x].next
          /\ P1.m[x].prev = P.m[x].prev
      <4>1. CASE x = prev  BY <1>3, <3>1, <4>1 DEF Cell
      <4>2. CASE x # prev  BY <1>3, <4>2
      <4> QED BY <4>1, <4>2
    <3>3. /\ P2.m[x].addr = P1.m[x].addr /\ P2.m[x].nexthash = P1.m[x].nexthash
          /\ P2.m[x].peer = P1.m[x].peer /\ P2.m[x].in_use = P1.m[x].in_use
          /\ P2.m[x].next = P1.m[x].next
          /\ P2.m[x].prev = IF x = next THEN prev ELSE P1.m[x].prev
      <4>1. CASE x = next  BY <1>4, <3>1, <4>1 DEF Cell
      <4>2. CASE x # next  BY <1>4, <4>2
      <4> QED BY <4>1, <4>2
    <3>4. P.m[x].in_use \in BOOLEAN  BY <3>1 DEF Cell
    <3> QED BY <2>2, <3>1, <3>2, <3>3, <3>4
  <2> QED BY <2>1, <2>2
<1>11. ASSUME NEW j \in BOOLEAN
       PROVE  /\ Q.free[j].first = IF j = k /\ prev = 0 THEN next ELSE P.free[j].first
              /\ Q.free[j].last = IF j = k /\ next = 0 THEN prev ELSE P.free[j].last
  <2>1. P.free[j] \in [first : Link, last : Link]  BY PoolParts
  <2>2. /\ P1.free[j] = IF j = k /\ prev = 0 THEN [P.free[j] EXCEPT !.first = next]
                        ELSE P.free[j]
        /\ Q.free[j] = IF j = k /\ next = 0 THEN [P1.free[j] EXCEPT !.last = prev]
                       ELSE P1.free[j]
    BY <1>3, <1>4, <1>8
  <2>3. CASE j = k  BY <2>1, <2>2, <2>3
  <2>4. CASE j # k  BY <2>2, <2>4
  <2> QED BY <2>3, <2>4
<1> QED BY <1>3, <1>4, <1>8, <1>10, <1>11 DEF SameHash, k, prev, next

\* What GiveBack does.
LEMMA GiveBackCells ==
  ASSUME ConstAssumption, NEW P \in Pools, NEW m \in Members,
         P.free[IsStatic(m)].last # m, NEW Q, Q = GiveBack(P, m)
  PROVE  /\ Q \in Pools /\ SameHash(P, Q)
         /\ \A x \in Members :
              /\ Q.m[x].peer = IF x = m THEN 0 ELSE P.m[x].peer
              /\ Q.m[x].in_use = (P.m[x].in_use /\ x # m)
              /\ Q.m[x].next = IF x = P.free[IsStatic(m)].last THEN m ELSE P.m[x].next
              /\ Q.m[x].prev = IF x = m THEN P.free[IsStatic(m)].last ELSE P.m[x].prev
         /\ \A j \in BOOLEAN :
              /\ Q.free[j].first = IF j = IsStatic(m) /\ P.free[j].last = 0 THEN m
                                   ELSE P.free[j].first
              /\ Q.free[j].last = IF j = IsStatic(m) THEN m ELSE P.free[j].last
<1> DEFINE k == IsStatic(m)
           l == P.free[k].last
           P1 == IF l # 0 THEN [P EXCEPT !.m[l].next = m] ELSE [P EXCEPT !.free[k].first = m]
           c == GivenCell(P1.m[m], l)
           e == LastIs(P1.free[k], m)
           P2 == FreeSet(P1, k, e)
<1>1. k \in BOOLEAN /\ l \in Link /\ l # m /\ m \in Link
      /\ 0 \in Link /\ Link = Members \cup {0} /\ 0 \notin Members
  <2>1. k \in BOOLEAN  BY DEF IsStatic
  <2> HIDE DEF k
  <2>2. P.free[k] \in [first : Link, last : Link]  BY <2>1, PoolParts
  <2> QED BY <2>1, <2>2, LinkIs DEF k
<1> HIDE DEF k
<1>2. Q = Given(P1, m, k, l)  BY DEF GiveBack, Given, k
<1> HIDE DEF l
<1>3. /\ P1 \in Pools /\ P1.hash = P.hash
      /\ \A x \in Members : P1.m[x] = IF x = l THEN [P.m[x] EXCEPT !.next = m] ELSE P.m[x]
      /\ \A j \in BOOLEAN : P1.free[j] = IF j = k /\ l = 0 THEN [P.free[j] EXCEPT !.first = m]
                                         ELSE P.free[j]
  <2>1. CASE l # 0
    <3> DEFINE v == [P.m[l] EXCEPT !.next = m]
    <3>1. l \in Members /\ v \in Cell  BY <1>1, <2>1, PoolParts DEF Cell
    <3>2. P1 = CellSet(P, l, v)  BY <2>1 DEF CellSet
    <3> HIDE DEF P1, P2, v, c, e
    <3>3. /\ P1 \in Pools /\ P1.hash = P.hash /\ P1.free = P.free
          /\ \A x \in Members : P1.m[x] = IF x = l THEN v ELSE P.m[x]
      BY <3>1, <3>2, SetCell
    <3> QED BY <2>1, <3>3 DEF v
  <2>2. CASE l = 0
    <3> DEFINE v == [P.free[k] EXCEPT !.first = m]
    <3>1. v \in [first : Link, last : Link]  BY <1>1, PoolParts
    <3>2. P1 = FreeSet(P, k, v)  BY <2>2 DEF FreeSet
    <3> HIDE DEF P1, P2, v, c, e
    <3>3. /\ P1 \in Pools /\ P1.hash = P.hash /\ P1.m = P.m
          /\ \A j \in BOOLEAN : P1.free[j] = IF j = k THEN v ELSE P.free[j]
      BY <1>1, <3>1, <3>2, SetFree
    <3> QED BY <1>1, <2>2, <3>3 DEF v
  <2> QED BY <2>1, <2>2
<1> HIDE DEF P1
<1>4. e \in [first : Link, last : Link]  BY <1>1, <1>3, PoolParts DEF LastIs
<1>5. P2 = FreeSet(P1, k, e) /\ Q = CellSet(P2, m, c)
  <2>1. P1 \in Pools /\ k \in BOOLEAN /\ l \in Link  BY <1>1, <1>3
  <2>2. Given(P1, m, k, l) = CellSet(P2, m, c)  BY <2>1, GivenFields
  <2> QED BY <1>2, <2>2
<1> HIDE DEF P2, e
<1>6. /\ P2 \in Pools /\ P2.hash = P1.hash /\ P2.m = P1.m
      /\ \A j \in BOOLEAN : P2.free[j] = IF j = k THEN e ELSE P1.free[j]
  BY <1>1, <1>3, <1>4, <1>5, SetFree
<1>7. P1.m[m] = P.m[m] /\ P.m[m] \in Cell  BY <1>1, <1>3, PoolParts
<1>8. c = [P.m[m] EXCEPT !.prev = l, !.in_use = FALSE, !.peer = 0] /\ c \in Cell
  BY <1>1, <1>7 DEF Cell, GivenCell
<1> HIDE DEF c
<1>9. /\ Q \in Pools /\ Q.hash = P2.hash /\ Q.free = P2.free
       /\ \A x \in Members : Q.m[x] = IF x = m THEN c ELSE P2.m[x]
  BY <1>5, <1>6, <1>8, SetCell
<1>10. \A x \in Members : P.m[x] \in Cell  BY PoolParts
<1>11. ASSUME NEW x \in Members
       PROVE  /\ Q.m[x].addr = P.m[x].addr /\ Q.m[x].nexthash = P.m[x].nexthash
              /\ Q.m[x].peer = IF x = m THEN 0 ELSE P.m[x].peer
              /\ Q.m[x].in_use = (P.m[x].in_use /\ x # m)
              /\ Q.m[x].next = IF x = l THEN m ELSE P.m[x].next
              /\ Q.m[x].prev = IF x = m THEN l ELSE P.m[x].prev
  <2>1. CASE x = m  BY <1>1, <1>8, <1>9, <1>10, <2>1 DEF Cell
  <2>2. CASE x # m
    <3>1. Q.m[x] = P1.m[x] /\ P.m[x] \in Cell  BY <1>6, <1>9, <1>10, <2>2
    <3>2. /\ P1.m[x].addr = P.m[x].addr /\ P1.m[x].nexthash = P.m[x].nexthash
          /\ P1.m[x].peer = P.m[x].peer /\ P1.m[x].in_use = P.m[x].in_use
          /\ P1.m[x].next = IF x = l THEN m ELSE P.m[x].next
          /\ P1.m[x].prev = P.m[x].prev
      <4>1. CASE x = l  BY <1>3, <3>1, <4>1 DEF Cell
      <4>2. CASE x # l  BY <1>3, <4>2
      <4> QED BY <4>1, <4>2
    <3>3. P.m[x].in_use \in BOOLEAN  BY <3>1 DEF Cell
    <3> QED BY <2>2, <3>1, <3>2, <3>3
  <2> QED BY <2>1, <2>2
<1>12. ASSUME NEW j \in BOOLEAN
       PROVE  /\ Q.free[j].first = IF j = k /\ P.free[j].last = 0 THEN m ELSE P.free[j].first
              /\ Q.free[j].last = IF j = k THEN m ELSE P.free[j].last
  <2>1. P.free[j] \in [first : Link, last : Link]  BY PoolParts
  <2>2. /\ P1.free[j] = IF j = k /\ l = 0 THEN [P.free[j] EXCEPT !.first = m] ELSE P.free[j]
        /\ Q.free[j] = IF j = k THEN [P1.free[j] EXCEPT !.last = m] ELSE P1.free[j]
    BY <1>3, <1>6, <1>9 DEF e, LastIs
  <2>3. CASE j = k  BY <2>1, <2>2, <2>3 DEF l
  <2>4. CASE j # k  BY <2>2, <2>4
  <2> QED BY <2>3, <2>4
<1> QED BY <1>3, <1>6, <1>9, <1>11, <1>12 DEF SameHash, k, l
\* The free lists depend on links, ends and what is in use.
SameFree(P, Q) ==
  /\ Q.free = P.free
  /\ \A x \in Members : /\ Q.m[x].in_use = P.m[x].in_use
                        /\ Q.m[x].prev = P.m[x].prev /\ Q.m[x].next = P.m[x].next

\* What leaves these alone leaves the lists alone.
LEMMA FreeSame ==
  ASSUME NEW P, FreeSound(P), NEW Q \in Pools, SameFree(P, Q)
  PROVE  FreeSound(Q)
<1>1. NextOf(Q) = NextOf(P) /\ PrevOf(Q) = PrevOf(P)  BY DEF NextOf, PrevOf, SameFree
<1>2. \A k \in BOOLEAN : FreeOf(Q, k) = FreeOf(P, k)  BY DEF FreeOf, SameFree
<1>3. Q.free = P.free  BY DEF SameFree
<1>4. \A x \in Members : Q.m[x].in_use => Q.m[x].next = 0  BY DEF FreeSound, SameFree
<1> QED BY <1>1, <1>2, <1>3, <1>4 DEF FreeSound

\* A free member's neighbours are free members of its list, and not the member itself.
LEMMA FreeLinks ==
  ASSUME NEW P, FreeSound(P), NEW m \in Members, ~P.m[m].in_use
  PROVE  /\ P.m[m].prev # m /\ P.m[m].next # m
         /\ P.m[m].prev \in FreeOf(P, IsStatic(m)) \cup {0}
         /\ P.m[m].next \in FreeOf(P, IsStatic(m)) \cup {0}
<1> DEFINE k == IsStatic(m)
           S == FreeOf(P, k)
<1>1. k \in BOOLEAN /\ m \in S  BY DEF IsStatic, FreeOf
<1> HIDE DEF k, S
<1>2. Linked(NextOf(P), PrevOf(P), P.free[k].first, P.free[k].last, S)
  BY <1>1 DEF FreeSound, S
<1>3. /\ NextOf(P)[m] \in S \cup {0} /\ PrevOf(P)[m] \in S \cup {0}
      /\ NextOf(P)[m] # m /\ PrevOf(P)[m] # m
  BY <1>1, <1>2, Ends
<1> QED BY <1>3 DEF NextOf, PrevOf, S, k

\* Take takes a free member out of its list.
LEMMA TakeFree ==
  ASSUME ConstAssumption, NEW P, FreeSound(P), NEW m \in Members, ~P.m[m].in_use,
         NEW Q, Q = Take(P, m)
  PROVE  FreeSound(Q)
<1>1. P \in Pools  BY DEF FreeSound
<1> DEFINE k == IsStatic(m)
           prev == P.m[m].prev
           next == P.m[m].next
           S == FreeOf(P, k)
<1>2. prev # m /\ next # m /\ prev \in S \cup {0} /\ next \in S \cup {0}  BY FreeLinks
<1>3. /\ Q \in Pools
      /\ \A x \in Members :
              /\ Q.m[x].in_use = (P.m[x].in_use \/ x = m)
              /\ Q.m[x].next = IF x = m THEN 0 ELSE IF x = prev THEN next ELSE P.m[x].next
              /\ Q.m[x].prev = IF x = m THEN 0 ELSE IF x = next THEN prev ELSE P.m[x].prev
      /\ \A j \in BOOLEAN :
              /\ Q.free[j].first = IF j = k /\ prev = 0 THEN next ELSE P.free[j].first
              /\ Q.free[j].last = IF j = k /\ next = 0 THEN prev ELSE P.free[j].last
  BY <1>1, <1>2, TakeCells
<1>4. k \in BOOLEAN /\ m \in S /\ S \subseteq Members /\ 0 \notin Members
  BY LinkIs DEF IsStatic, FreeOf
<1>5. \A j \in BOOLEAN : FreeOf(Q, j) = IF j = k THEN S \ {m} ELSE FreeOf(P, j)
  <2>1. ASSUME NEW j \in BOOLEAN, NEW x \in Members
        PROVE  IsStatic(x) = j /\ ~Q.m[x].in_use <=> IsStatic(x) = j /\ ~P.m[x].in_use /\ x # m
    BY <1>3
  <2>2. ASSUME NEW j \in BOOLEAN PROVE FreeOf(Q, j) = FreeOf(P, j) \ {m}  BY <2>1 DEF FreeOf
  <2>3. ASSUME NEW j \in BOOLEAN, j # k PROVE m \notin FreeOf(P, j)  BY <2>3 DEF FreeOf
  <2> QED BY <2>2, <2>3
<1>6. \A j \in BOOLEAN : j # k => S \cap FreeOf(P, j) = {}  BY DEF FreeOf
<1> HIDE DEF k, prev, next, S
<1>7. NextOf(P)[m] = next /\ PrevOf(P)[m] = prev  BY DEF NextOf, PrevOf, next, prev
<1>8. ASSUME NEW j \in BOOLEAN
      PROVE  Linked(NextOf(Q), PrevOf(Q), Q.free[j].first, Q.free[j].last, FreeOf(Q, j))
  <2>1. CASE j = k
    <3>1. Linked(NextOf(P), PrevOf(P), P.free[k].first, P.free[k].last, S)
      BY <1>4 DEF FreeSound, S
    <3>2. LinkedPast(NextOf(P), PrevOf(P), S, m, NextOf(Q), PrevOf(Q))
      BY <1>3, <1>4, <1>7 DEF LinkedPast, NextOf, PrevOf
    <3>3. /\ Q.free[j].first = IF PrevOf(P)[m] = 0 THEN NextOf(P)[m] ELSE P.free[k].first
          /\ Q.free[j].last = IF NextOf(P)[m] = 0 THEN PrevOf(P)[m] ELSE P.free[k].last
          /\ FreeOf(Q, j) = S \ {m}
      BY <1>3, <1>5, <1>7, <2>1
    <3> QED BY <3>1, <3>2, <3>3, Unlinked
  <2>2. CASE j # k
    <3>1. Linked(NextOf(P), PrevOf(P), P.free[j].first, P.free[j].last, FreeOf(P, j))
      BY DEF FreeSound
    <3>2. FreeOf(P, j) \subseteq Members  BY DEF FreeOf
    <3>3. \A x \in FreeOf(P, j) : x # m /\ x # prev /\ x # next
      BY <1>2, <1>4, <1>6, <2>2, <3>2
    <3>4. \A x \in FreeOf(P, j) :
            NextOf(Q)[x] = NextOf(P)[x] /\ PrevOf(Q)[x] = PrevOf(P)[x]
      BY <1>3, <3>2, <3>3 DEF NextOf, PrevOf
    <3>5. Linked(NextOf(Q), PrevOf(Q), P.free[j].first, P.free[j].last, FreeOf(P, j))
      BY <3>1, <3>4, SameLinks
    <3> QED BY <1>3, <1>5, <2>2, <3>5
  <2> QED BY <2>1, <2>2
<1>9. ASSUME NEW x \in Members, Q.m[x].in_use PROVE Q.m[x].next = 0
  <2>1. CASE x = m  BY <1>3, <2>1
  <2>2. CASE x # m
    <3>1. P.m[x].in_use  BY <1>3, <1>9, <2>2
    <3>2. P.m[x].next = 0  BY <3>1 DEF FreeSound
    <3>3. x \notin S  BY <3>1 DEF S, FreeOf
    <3>4. x # 0  BY <1>4
    <3>5. x # prev  BY <1>2, <3>3, <3>4
    <3> QED BY <1>3, <2>2, <3>2, <3>5
  <2> QED BY <2>1, <2>2
<1> QED BY <1>3, <1>8, <1>9 DEF FreeSound

\* The last member of a list is free.
LEMMA LastIsFree ==
  ASSUME NEW P, FreeSound(P), NEW k \in BOOLEAN
  PROVE  P.free[k].last \in FreeOf(P, k) \cup {0} /\ P.free[k].first \in FreeOf(P, k) \cup {0}
<1>1. Linked(NextOf(P), PrevOf(P), P.free[k].first, P.free[k].last, FreeOf(P, k))
  BY DEF FreeSound
<1> QED BY <1>1, Ends

\* GiveBack puts a member that is in use at the end of its list.
LEMMA GiveBackFree ==
  ASSUME ConstAssumption, NEW P, FreeSound(P), NEW m \in Members, P.m[m].in_use,
         NEW Q, Q = GiveBack(P, m)
  PROVE  FreeSound(Q) /\ P.free[IsStatic(m)].last # m
<1>1. P \in Pools  BY DEF FreeSound
<1> DEFINE k == IsStatic(m)
           l == P.free[k].last
           S == FreeOf(P, k)
<1>2. k \in BOOLEAN /\ m \notin S /\ S \subseteq Members /\ 0 \notin Members
  BY LinkIs DEF IsStatic, FreeOf
<1>3. l # m /\ l \in S \cup {0}
  <2> HIDE DEF k
  <2>1. l \in S \cup {0}  BY <1>2, LastIsFree
  <2> QED BY <1>2, <2>1
<1>4. /\ Q \in Pools
      /\ \A x \in Members :
              /\ Q.m[x].in_use = (P.m[x].in_use /\ x # m)
              /\ Q.m[x].next = IF x = l THEN m ELSE P.m[x].next
              /\ Q.m[x].prev = IF x = m THEN l ELSE P.m[x].prev
      /\ \A j \in BOOLEAN :
              /\ Q.free[j].first = IF j = k /\ P.free[j].last = 0 THEN m ELSE P.free[j].first
              /\ Q.free[j].last = IF j = k THEN m ELSE P.free[j].last
  BY <1>1, <1>3, GiveBackCells
<1>5. \A j \in BOOLEAN : FreeOf(Q, j) = IF j = k THEN S \cup {m} ELSE FreeOf(P, j)
  <2>1. ASSUME NEW j \in BOOLEAN, NEW x \in Members
        PROVE  IsStatic(x) = j /\ ~Q.m[x].in_use
                 <=> IsStatic(x) = j /\ (~P.m[x].in_use \/ x = m)
    BY <1>4
  <2>2. ASSUME NEW j \in BOOLEAN, j = k PROVE FreeOf(Q, j) = S \cup {m}
    BY <2>1, <2>2 DEF FreeOf
  <2>3. ASSUME NEW j \in BOOLEAN, j # k PROVE FreeOf(Q, j) = FreeOf(P, j)
    BY <2>1, <2>3 DEF FreeOf
  <2> QED BY <2>2, <2>3
<1>6. \A j \in BOOLEAN : j # k => S \cap FreeOf(P, j) = {}  BY DEF FreeOf
<1>7. P.m[m].next = 0  BY DEF FreeSound
<1>8. P.free[k].last = l  OBVIOUS
<1> HIDE DEF k, l, S
<1>9. ASSUME NEW j \in BOOLEAN
      PROVE  Linked(NextOf(Q), PrevOf(Q), Q.free[j].first, Q.free[j].last, FreeOf(Q, j))
  <2>1. CASE j = k
    <3>1. Linked(NextOf(P), PrevOf(P), P.free[k].first, l, S)
      BY <1>2, <1>8 DEF FreeSound, S
    <3>2. LinkedAfter(NextOf(P), PrevOf(P), l, S, m, NextOf(Q), PrevOf(Q))
      BY <1>2, <1>3, <1>4, <1>7 DEF LinkedAfter, NextOf, PrevOf
    <3>3. /\ Q.free[j].first = IF l = 0 THEN m ELSE P.free[k].first
          /\ Q.free[j].last = m
          /\ FreeOf(Q, j) = S \cup {m}
      BY <1>4, <1>5, <1>8, <2>1
    <3> QED BY <3>1, <3>2, <3>3, Appended
  <2>2. CASE j # k
    <3>1. Linked(NextOf(P), PrevOf(P), P.free[j].first, P.free[j].last, FreeOf(P, j))
      BY DEF FreeSound
    <3>2. FreeOf(P, j) \subseteq Members /\ m \notin FreeOf(P, j)  BY DEF FreeOf
    <3>3. \A x \in FreeOf(P, j) : x # m /\ x # l
      BY <1>2, <1>3, <1>6, <2>2, <3>2
    <3>4. \A x \in FreeOf(P, j) :
            NextOf(Q)[x] = NextOf(P)[x] /\ PrevOf(Q)[x] = PrevOf(P)[x]
      BY <1>4, <3>2, <3>3 DEF NextOf, PrevOf
    <3>5. Linked(NextOf(Q), PrevOf(Q), P.free[j].first, P.free[j].last, FreeOf(P, j))
      BY <3>1, <3>4, SameLinks
    <3> QED BY <1>4, <1>5, <2>2, <3>5
  <2> QED BY <2>1, <2>2
<1>10. ASSUME NEW x \in Members, Q.m[x].in_use PROVE Q.m[x].next = 0
  <2>1. P.m[x].in_use  BY <1>4, <1>10
  <2>2. P.m[x].next = 0  BY <2>1 DEF FreeSound
  <2>3. x \notin S  BY <2>1 DEF S, FreeOf
  <2>4. x # l  BY <1>2, <1>3, <2>3
  <2> QED BY <1>4, <2>2, <2>4
<1> QED BY <1>3, <1>4, <1>9, <1>10 DEF FreeSound, l, k
---------------------------------------------------------------------------
(* The pool *)

\* Dynamic members are in the hash table all the time, static ones while in use.
Hashed(P, x) == ~IsStatic(x) \/ P.m[x].in_use
BucketsOf(P) == [b \in Buckets |-> {x \in Members : Hashed(P, x) /\ Hash(P.m[x].addr) = b}]

\* The chains hold the members that are hashed, each with an address of its own.
HashSound(P) ==
  /\ P \in Pools
  /\ \A x \in 1 .. Dyn : P.m[x].addr = x
  /\ Chains(P, BucketsOf(P))
  /\ \A x \in Members : ~Hashed(P, x) => P.m[x].nexthash = 0
  /\ \A x \in Members : Hashed(P, x) => P.m[x].addr # 0
  /\ \A x, y \in Members : Hashed(P, x) /\ Hashed(P, y) /\ P.m[x].addr = P.m[y].addr => x = y

Sound(P) == FreeSound(P) /\ HashSound(P)

\* Hash is defined for the address of each member.
LEMMA AddrHash ==
  ASSUME ConstAssumption, NEW P \in Pools, NEW x \in Members
  PROVE  P.m[x].addr \in 0 .. MaxAddr /\ P.m[x].addr \in Nat /\ Hash(P.m[x].addr) \in Buckets
<1>1. P.m[x].addr \in 0 .. MaxAddr  BY PoolParts DEF Cell
<1>2. P.m[x].addr \in Nat  BY <1>1 DEF ConstAssumption
<1> QED BY <1>1, <1>2, LinkIs

\* The dynamic members are the first ones.
LEMMA DynamicIs ==
  ASSUME ConstAssumption
  PROVE  1 .. Dyn \subseteq Members /\ \A x \in Members : ~IsStatic(x) <=> x \in 1 .. Dyn
BY DEF ConstAssumption, Members, IsStatic

\* The hash table depends on addresses, chains and what is hashed.
LEMMA HashSame ==
  ASSUME ConstAssumption, NEW P, HashSound(P), NEW Q \in Pools, SameHash(P, Q),
         \A x \in Members : Hashed(Q, x) <=> Hashed(P, x)
  PROVE  HashSound(Q)
<1>1. BucketsOf(Q) = BucketsOf(P)  BY DEF BucketsOf, SameHash
<1>2. NextHash(Q) = NextHash(P) /\ Q.hash = P.hash  BY DEF NextHash, SameHash
<1>3. Chains(Q, BucketsOf(P))  BY <1>2 DEF HashSound, Chains
<1>4. \A x \in 1 .. Dyn : Q.m[x].addr = x  BY DynamicIs DEF HashSound, SameHash
<1>5. \A x \in Members : ~Hashed(Q, x) => Q.m[x].nexthash = 0  BY DEF HashSound, SameHash
<1>6. \A x \in Members : Hashed(Q, x) => Q.m[x].addr # 0  BY DEF HashSound, SameHash
<1>7. \A x, y \in Members :
        Hashed(Q, x) /\ Hashed(Q, y) /\ Q.m[x].addr = Q.m[y].addr => x = y
  BY DEF HashSound, SameHash
<1> QED BY <1>1, <1>3, <1>4, <1>5, <1>6, <1>7 DEF HashSound

\* Chain, Found and ippool_getip of a sound pool.
LEMMA ChainOf ==
  ASSUME ConstAssumption, NEW P, HashSound(P), NEW a \in Nat
  PROVE  Chain(P, a) = {x \in Members : Hashed(P, x) /\ Hash(P.m[x].addr) = Hash(a)}
<1> DEFINE S == {x \in Members : Hashed(P, x) /\ Hash(P.m[x].addr) = Hash(a)}
<1>1. Hash(a) \in Buckets  BY LinkIs
<1>2. BucketsOf(P)[Hash(a)] = S  BY <1>1 DEF BucketsOf
<1>3. \E pv, l : Linked(NextHash(P), pv, P.hash[Hash(a)], l, BucketsOf(P)[Hash(a)])
  BY <1>1 DEF HashSound, Chains
<1> HIDE DEF S
<1>4. PICK pv, l : Linked(NextHash(P), pv, P.hash[Hash(a)], l, S)  BY <1>2, <1>3
<1>5. S \in SUBSET Members  BY DEF S
<1>6. Chain(P, a) = S  BY <1>4, <1>5, ChainIs
<1> QED BY <1>6 DEF S

\* The hash table finds the one member that has an address.
LEMMA FoundIs ==
  ASSUME ConstAssumption, NEW P, HashSound(P), NEW a \in Nat
  PROVE  /\ InHash(P, a) = {x \in Members : Hashed(P, x) /\ P.m[x].addr = a}
         /\ \A x \in Members : Hashed(P, x) /\ P.m[x].addr = a => Found(P, a) = x
         /\ Found(P, a) = 0 \/ (/\ Found(P, a) \in Members /\ Hashed(P, Found(P, a))
                                /\ P.m[Found(P, a)].addr = a)
         /\ Found(P, a) = 0 => \A x \in Members : Hashed(P, x) => P.m[x].addr # a
<1>1. InHash(P, a) = {x \in Members : Hashed(P, x) /\ P.m[x].addr = a}
  BY ChainOf DEF InHash
<1>2. \A x, y \in InHash(P, a) : x = y  BY <1>1 DEF HashSound
<1>3. 0 \notin Members  BY LinkIs
<1> DEFINE I == InHash(P, a)
<1>4. CASE I = {}
  <2>1. Found(P, a) = 0  BY <1>4 DEF Found
  <2> QED BY <1>1, <1>4, <2>1
<1>5. CASE I # {}
  <2>1. Found(P, a) = CHOOSE p \in I : TRUE  BY <1>5 DEF Found
  <2>2. Found(P, a) \in I  BY <1>5, <2>1
  <2> QED BY <1>1, <1>2, <1>3, <2>2
<1> QED BY <1>4, <1>5

\* A free dynamic member is taken.
LEMMA TakeDynamic ==
  ASSUME ConstAssumption, NEW P, Sound(P), NEW m \in Members, ~IsStatic(m), ~P.m[m].in_use,
         NEW Q, Q = Take(P, m)
  PROVE  /\ Sound(Q)
         /\ \A x \in Members : /\ Q.m[x].addr = P.m[x].addr /\ Q.m[x].peer = P.m[x].peer
                               /\ Q.m[x].in_use = (P.m[x].in_use \/ x = m)
<1>1. FreeSound(P) /\ HashSound(P) /\ P \in Pools  BY DEF Sound, HashSound
<1>2. FreeSound(Q)  BY <1>1, TakeFree
<1>3. P.m[m].prev # m /\ P.m[m].next # m  BY <1>1, FreeLinks
<1>4. /\ Q \in Pools /\ SameHash(P, Q)
      /\ \A x \in Members : /\ Q.m[x].peer = P.m[x].peer
                            /\ Q.m[x].in_use = (P.m[x].in_use \/ x = m)
  BY <1>1, <1>3, TakeCells
<1>5. \A x \in Members : Hashed(Q, x) <=> Hashed(P, x)  BY <1>4 DEF Hashed
<1>6. HashSound(Q)  BY <1>1, <1>4, <1>5, HashSame
<1> QED BY <1>2, <1>4, <1>6 DEF Sound, SameHash
\* An address is written into a member.
AddrSet(P, s, a) == [P EXCEPT !.m[s].addr = a]

\* Lists and chains do not change with it.
LEMMA SetAddr ==
  ASSUME NEW P \in Pools, NEW s \in Members, NEW a \in 0 .. MaxAddr, NEW Q, Q = AddrSet(P, s, a)
  PROVE  /\ Q \in Pools /\ Q.hash = P.hash /\ SameFree(P, Q)
         /\ \A x \in Members : /\ Q.m[x].addr = IF x = s THEN a ELSE P.m[x].addr
                               /\ Q.m[x].nexthash = P.m[x].nexthash
                               /\ Q.m[x].peer = P.m[x].peer
<1> DEFINE v == [P.m[s] EXCEPT !.addr = a]
<1>1. P.m[s] \in Cell  BY PoolParts
<1>2. /\ v \in Cell /\ v.addr = a /\ v.nexthash = P.m[s].nexthash /\ v.peer = P.m[s].peer
      /\ v.in_use = P.m[s].in_use /\ v.prev = P.m[s].prev /\ v.next = P.m[s].next
  BY <1>1 DEF Cell
<1>3. Q = CellSet(P, s, v)  BY DEF AddrSet, CellSet, Pools
<1> HIDE DEF v
<1>4. /\ Q \in Pools /\ Q.hash = P.hash /\ Q.free = P.free
      /\ \A x \in Members : Q.m[x] = IF x = s THEN v ELSE P.m[x]
  BY <1>2, <1>3, SetCell
<1> QED BY <1>2, <1>4 DEF SameFree

\* A free static member is taken for an address that nobody has.
LEMMA NewStatic ==
  ASSUME ConstAssumption, NEW P, Sound(P), NEW s \in Members, IsStatic(s), ~P.m[s].in_use,
         NEW a \in 1 .. MaxAddr, \A x \in Members : Hashed(P, x) => P.m[x].addr # a,
         NEW Q, Q = HashAdd([Take(P, s) EXCEPT !.m[s].addr = a], s)
  PROVE  /\ Sound(Q)
         /\ \A x \in Members : /\ Q.m[x].addr = IF x = s THEN a ELSE P.m[x].addr
                               /\ Q.m[x].in_use = (P.m[x].in_use \/ x = s)
                               /\ Q.m[x].peer = P.m[x].peer
<1> DEFINE P1 == Take(P, s)
           P2 == AddrSet(P1, s, a)
           B == BucketsOf(P)
<1>1. FreeSound(P) /\ HashSound(P) /\ P \in Pools  BY DEF Sound, HashSound
<1>2. FreeSound(P1)  BY <1>1, TakeFree
<1>3. P.m[s].prev # s /\ P.m[s].next # s  BY <1>1, FreeLinks
<1>4. /\ P1 \in Pools /\ SameHash(P, P1)
      /\ \A x \in Members : /\ P1.m[x].peer = P.m[x].peer
                            /\ P1.m[x].in_use = (P.m[x].in_use \/ x = s)
  BY <1>1, <1>3, TakeCells
<1>5. Q = HashAdd(P2, s)  BY DEF AddrSet
<1> HIDE DEF P1
<1>6. a \in 0 .. MaxAddr /\ a \in Nat /\ a # 0  BY DEF ConstAssumption
<1> HIDE DEF P2
<1>7. /\ P2 \in Pools /\ P2.hash = P1.hash /\ SameFree(P1, P2)
      /\ \A x \in Members : /\ P2.m[x].addr = IF x = s THEN a ELSE P1.m[x].addr
                            /\ P2.m[x].nexthash = P1.m[x].nexthash
                            /\ P2.m[x].peer = P1.m[x].peer
  BY <1>4, <1>6, SetAddr DEF P2
<1>8. NextHash(P2) = NextHash(P) /\ P2.hash = P.hash
  BY <1>4, <1>7 DEF NextHash, SameHash
<1> HIDE DEF B
<1>9. Chains(P2, B)
  <2>1. Chains(P, B)  BY <1>1 DEF B, HashSound
  <2> QED BY <2>1, <1>8 DEF Chains
<1>10. ~Hashed(P, s)  BY DEF Hashed
<1>11. P2.m[s].nexthash = 0 /\ P2.m[s].addr = a
  BY <1>1, <1>4, <1>7, <1>10 DEF HashSound, SameHash
<1>12. \A x \in Members : InNone(B, x) <=> ~Hashed(P, x)
  <2>1. \A x \in Members : Hash(P.m[x].addr) \in Buckets  BY <1>1, AddrHash
  <2> QED BY <2>1 DEF B, BucketsOf, InNone
<1>13. InNone(B, s)  BY <1>10, <1>12
<1> DEFINE B2 == [c \in Buckets |-> IF c = Hash(P2.m[s].addr) THEN B[c] \cup {s} ELSE B[c]]
<1>14. Joined(B2, B, Hash(P2.m[s].addr), s)  BY DEF Joined
<1> HIDE DEF B2
<1>15. Q \in Pools /\ SameMembers(P2, Q) /\ Chains(Q, B2) /\ OthersKept(P2, Q, B)
  BY <1>5, <1>7, <1>9, <1>11, <1>13, <1>14, HashAddIs
<1>16. \A x \in Members : /\ Q.m[x].addr = IF x = s THEN a ELSE P.m[x].addr
                          /\ Q.m[x].in_use = (P.m[x].in_use \/ x = s)
                          /\ Q.m[x].peer = P.m[x].peer
  BY <1>4, <1>7, <1>15 DEF SameMembers, SameHash, SameFree
<1>17. \A x \in Members : Hashed(Q, x) <=> (Hashed(P, x) \/ x = s)
  BY <1>16 DEF Hashed
<1>18. \A c \in Buckets : BucketsOf(Q)[c] = B2[c]
  <2> SUFFICES ASSUME NEW c \in Buckets PROVE BucketsOf(Q)[c] = B2[c]  OBVIOUS
  <2>1. BucketsOf(Q)[c] = {x \in Members : Hashed(Q, x) /\ Hash(Q.m[x].addr) = c}
    BY DEF BucketsOf
  <2>2. B[c] = {x \in Members : Hashed(P, x) /\ Hash(P.m[x].addr) = c}  BY DEF B, BucketsOf
  <2>3. \A x \in Members : x \in BucketsOf(Q)[c] <=> (x \in B[c] \/ (x = s /\ Hash(a) = c))
    BY <2>1, <2>2, <1>10, <1>16, <1>17
  <2>4. BucketsOf(Q)[c] \subseteq Members /\ B2[c] \subseteq Members
    BY <2>1, <2>2, <1>14 DEF Joined
  <2>5. \A x \in Members : x \in B2[c] <=> (x \in B[c] \/ (x = s /\ Hash(a) = c))
    BY <1>11, <1>14 DEF Joined
  <2> QED BY <2>3, <2>4, <2>5
<1>19. Chains(Q, BucketsOf(Q))  BY <1>15, <1>18 DEF Chains
<1>20. FreeSound(Q)
  <2>1. SameFree(P1, Q)  BY <1>7, <1>15 DEF SameFree, SameMembers
  <2> QED BY <1>2, <1>15, <2>1, FreeSame
<1>21. HashSound(Q)
  <2>1. \A x \in 1 .. Dyn : Q.m[x].addr = x  BY <1>1, <1>16, DynamicIs DEF HashSound
  <2>2. \A x \in Members : ~Hashed(Q, x) => Q.m[x].nexthash = 0
    BY <1>1, <1>4, <1>7, <1>12, <1>15, <1>17 DEF HashSound, SameHash, OthersKept
  <2>3. \A x \in Members : Hashed(Q, x) => Q.m[x].addr # 0
    BY <1>1, <1>6, <1>16, <1>17 DEF HashSound
  <2>4. \A x, y \in Members :
          Hashed(Q, x) /\ Hashed(Q, y) /\ Q.m[x].addr = Q.m[y].addr => x = y
    BY <1>1, <1>16, <1>17 DEF HashSound
  <2> QED BY <1>15, <1>19, <2>1, <2>2, <2>3, <2>4 DEF HashSound
<1> QED BY <1>16, <1>20, <1>21 DEF Sound
\* What GiveBack does to who has a member.
GivenBack(P, Q, m) ==
  \A x \in Members : /\ Q.m[x].peer = IF x = m THEN 0 ELSE P.m[x].peer
                     /\ Q.m[x].in_use = (P.m[x].in_use /\ x # m)

\* GiveBack keeps the lists and the hash table.
LEMMA GiveBackIs ==
  ASSUME ConstAssumption, NEW P, FreeSound(P), NEW m \in Members, P.m[m].in_use,
         NEW Q, Q = GiveBack(P, m)
  PROVE  FreeSound(Q) /\ Q \in Pools /\ SameHash(P, Q) /\ GivenBack(P, Q, m)
<1>1. FreeSound(Q) /\ P.free[IsStatic(m)].last # m  BY GiveBackFree
<1>2. P \in Pools  BY DEF FreeSound
<1> QED BY <1>1, <1>2, GiveBackCells DEF GivenBack

\* A dynamic member that is in use is given back.
LEMMA GiveBackDynamic ==
  ASSUME ConstAssumption, NEW P, Sound(P), NEW m \in Members, ~IsStatic(m), P.m[m].in_use,
         NEW Q, Q = GiveBack(P, m)
  PROVE  /\ Sound(Q)
         /\ \A x \in Members : /\ Q.m[x].addr = P.m[x].addr
                               /\ Q.m[x].peer = IF x = m THEN 0 ELSE P.m[x].peer
                               /\ Q.m[x].in_use = (P.m[x].in_use /\ x # m)
<1>1. FreeSound(P) /\ HashSound(P) /\ P \in Pools  BY DEF Sound, HashSound
<1>2. FreeSound(Q)  BY <1>1, GiveBackIs
<1>3. Q \in Pools /\ SameHash(P, Q) /\ GivenBack(P, Q, m)  BY <1>1, GiveBackIs
<1> USE DEF GivenBack
<1>4. \A x \in Members : Hashed(Q, x) <=> Hashed(P, x)  BY <1>3 DEF Hashed
<1>5. HashSound(Q)  BY <1>1, <1>3, <1>4, HashSame
<1> QED BY <1>2, <1>3, <1>5 DEF Sound, SameHash

\* A member's address and chain link are cleared.
Cleared(P, m) == [P EXCEPT !.m[m].addr = 0, !.m[m].nexthash = 0]

\* Lists and hash entries do not change with them.
LEMMA ClearedIs ==
  ASSUME ConstAssumption, NEW P \in Pools, NEW m \in Members, NEW Q, Q = Cleared(P, m)
  PROVE  /\ Q \in Pools /\ Q.hash = P.hash /\ SameFree(P, Q)
         /\ \A x \in Members : /\ Q.m[x].addr = IF x = m THEN 0 ELSE P.m[x].addr
                               /\ Q.m[x].nexthash = IF x = m THEN 0 ELSE P.m[x].nexthash
                               /\ Q.m[x].peer = P.m[x].peer
<1> DEFINE v == [P.m[m] EXCEPT !.addr = 0, !.nexthash = 0]
<1>1. P.m[m] \in Cell  BY PoolParts
<1>2. 0 \in 0 .. MaxAddr /\ 0 \in Link  BY DEF ConstAssumption, Link
<1>3. /\ v \in Cell /\ v.addr = 0 /\ v.nexthash = 0 /\ v.peer = P.m[m].peer
      /\ v.in_use = P.m[m].in_use /\ v.prev = P.m[m].prev /\ v.next = P.m[m].next
  BY <1>1, <1>2 DEF Cell
<1>4. Q = CellSet(P, m, v)  BY DEF Cleared, CellSet, Pools
<1> HIDE DEF v
<1>5. /\ Q \in Pools /\ Q.hash = P.hash /\ Q.free = P.free
      /\ \A x \in Members : Q.m[x] = IF x = m THEN v ELSE P.m[x]
  BY <1>3, <1>4, SetCell
<1> QED BY <1>3, <1>5 DEF SameFree

\* A static member that is in use is given back: out of its chain, to the end of its list.
LEMMA GiveBackStatic ==
  ASSUME ConstAssumption, NEW P, Sound(P), NEW m \in Members, IsStatic(m), P.m[m].in_use,
         NEW Q, Q = Cleared(GiveBack(HashDel(P, m), m), m)
  PROVE  /\ Sound(Q)
         /\ \A x \in Members : /\ Q.m[x].addr = IF x = m THEN 0 ELSE P.m[x].addr
                               /\ Q.m[x].peer = IF x = m THEN 0 ELSE P.m[x].peer
                               /\ Q.m[x].in_use = (P.m[x].in_use /\ x # m)
<1> DEFINE P1 == HashDel(P, m)
           P2 == GiveBack(P1, m)
           B == BucketsOf(P)
           b == Hash(P.m[m].addr)
<1>1. FreeSound(P) /\ HashSound(P) /\ P \in Pools  BY DEF Sound, HashSound
<1>2. \A x \in Members : Hash(P.m[x].addr) \in Buckets  BY <1>1, AddrHash
<1>3. \A x \in Members : InNone(B, x) <=> ~Hashed(P, x)  BY <1>2 DEF B, BucketsOf, InNone
<1>4. m \in B[b]  BY <1>2 DEF B, BucketsOf, Hashed
<1> DEFINE B2 == [c \in Buckets |-> IF c = b THEN B[c] \ {m} ELSE B[c]]
<1>5. Parted(B2, B, b, m)  BY DEF Parted
<1>6. Chains(P, B)  BY <1>1 DEF HashSound
<1>7. Q = Cleared(P2, m) /\ P2 = GiveBack(P1, m)  OBVIOUS
<1> HIDE DEF B2, B, P2
<1>8. P1 \in Pools /\ SameMembers(P, P1) /\ Chains(P1, B2) /\ OthersKept(P, P1, B)
  BY <1>1, <1>4, <1>5, <1>6, HashDelIs
<1> HIDE DEF P1
<1>9. FreeSound(P1) /\ P1.m[m].in_use
  <2>1. SameFree(P, P1)  BY <1>8 DEF SameFree, SameMembers
  <2> QED BY <1>1, <1>8, <2>1, FreeSame DEF SameMembers
<1>10. FreeSound(P2)  BY <1>7, <1>9, GiveBackIs
<1>11. P2 \in Pools /\ SameHash(P1, P2) /\ GivenBack(P1, P2, m)
  BY <1>7, <1>9, GiveBackIs
<1>12. /\ Q \in Pools /\ Q.hash = P2.hash /\ SameFree(P2, Q)
       /\ \A x \in Members : /\ Q.m[x].addr = IF x = m THEN 0 ELSE P2.m[x].addr
                             /\ Q.m[x].nexthash = IF x = m THEN 0 ELSE P2.m[x].nexthash
                             /\ Q.m[x].peer = P2.m[x].peer
  BY <1>7, <1>11, ClearedIs
<1>13. FreeSound(Q)  BY <1>10, <1>12, FreeSame
<1>14. \A x \in Members : /\ Q.m[x].addr = IF x = m THEN 0 ELSE P.m[x].addr
                          /\ Q.m[x].peer = IF x = m THEN 0 ELSE P.m[x].peer
                          /\ Q.m[x].in_use = (P.m[x].in_use /\ x # m)
  BY <1>8, <1>11, <1>12 DEF SameMembers, SameHash, SameFree, GivenBack
<1>15. \A x \in Members : Hashed(Q, x) <=> (Hashed(P, x) /\ x # m)  BY <1>14 DEF Hashed
<1>16. \A x \in Members : Q.m[x].nexthash = IF x = m THEN 0 ELSE P1.m[x].nexthash
  BY <1>11, <1>12 DEF SameHash
<1>17. \A c \in Buckets : BucketsOf(Q)[c] = B2[c]
  <2> SUFFICES ASSUME NEW c \in Buckets PROVE BucketsOf(Q)[c] = B2[c]  OBVIOUS
  <2>1. BucketsOf(Q)[c] = {x \in Members : Hashed(Q, x) /\ Hash(Q.m[x].addr) = c}
    BY DEF BucketsOf
  <2>2. B[c] = {x \in Members : Hashed(P, x) /\ Hash(P.m[x].addr) = c}  BY DEF B, BucketsOf
  <2>3. \A x \in Members : x \in BucketsOf(Q)[c] <=> (x \in B[c] /\ x # m)
    BY <2>1, <2>2, <1>14, <1>15
  <2>4. c # b => m \notin B[c]  BY <2>2
  <2>5. \A x \in Members : x \in B2[c] <=> (x \in B[c] /\ x # m)
    BY <2>4, <1>5 DEF Parted
  <2>6. BucketsOf(Q)[c] \subseteq Members /\ B2[c] \subseteq Members
    BY <2>1, <2>2, <1>5 DEF Parted
  <2> QED BY <2>3, <2>5, <2>6
<1>18. Chains(Q, BucketsOf(Q))
  <2>1. Q.hash = P1.hash  BY <1>11, <1>12 DEF SameHash
  <2>2. \A x \in Members : x # m => NextHash(Q)[x] = NextHash(P1)[x]  BY <1>16 DEF NextHash
  <2>3. ASSUME NEW c \in Buckets
        PROVE  \E pv, l : Linked(NextHash(Q), pv, Q.hash[c], l, B2[c])
    <3>1. PICK pv, l : Linked(NextHash(P1), pv, P1.hash[c], l, B2[c])  BY <1>8 DEF Chains
    <3>2. B2[c] \subseteq Members /\ m \notin B2[c]
      <4>1. ~Hashed(Q, m) /\ BucketsOf(Q)[c] \subseteq Members  BY <1>15 DEF BucketsOf
      <4>2. m \notin BucketsOf(Q)[c]  BY <4>1 DEF BucketsOf
      <4> QED BY <4>1, <4>2, <1>17
    <3>3. \A x \in B2[c] : NextHash(Q)[x] = NextHash(P1)[x] /\ pv[x] = pv[x]  BY <2>2, <3>2
    <3>4. Linked(NextHash(Q), pv, P1.hash[c], l, B2[c])  BY <3>1, <3>3, SameLinks
    <3> QED BY <2>1, <3>4
  <2> QED BY <1>8, <1>17, <2>3 DEF Chains
<1>19. HashSound(Q)
  <2>1. \A x \in 1 .. Dyn : Q.m[x].addr = x  BY <1>1, <1>14, DynamicIs DEF HashSound
  <2>2. \A x \in Members : ~Hashed(Q, x) => Q.m[x].nexthash = 0
    BY <1>1, <1>3, <1>8, <1>15, <1>16 DEF HashSound, OthersKept
  <2>3. \A x \in Members : Hashed(Q, x) => Q.m[x].addr # 0
    BY <1>1, <1>14, <1>15 DEF HashSound
  <2>4. \A x, y \in Members :
          Hashed(Q, x) /\ Hashed(Q, y) /\ Q.m[x].addr = Q.m[y].addr => x = y
    BY <1>1, <1>14, <1>15 DEF HashSound
  <2> QED BY <1>12, <1>18, <2>1, <2>2, <2>3, <2>4 DEF HashSound
<1> QED BY <1>13, <1>14, <1>19 DEF Sound

\* A member that is freed is not in use, and nothing else of the others is different.
Freed(P, Q, m) ==
  \A x \in Members : /\ Q.m[x].in_use = (P.m[x].in_use /\ x # m)
                     /\ x # m => Q.m[x].addr = P.m[x].addr /\ Q.m[x].peer = P.m[x].peer

\* ippool_freeip of any member.
LEMMA FreeIs ==
  ASSUME ConstAssumption, NEW P, Sound(P), NEW m \in Members, NEW Q, Q = ippool_freeip(P, m)
  PROVE  Sound(Q) /\ Freed(P, Q, m)
<1>1. FreeSound(P) /\ HashSound(P) /\ P \in Pools  BY DEF Sound, HashSound
<1>2. CASE ~P.m[m].in_use
  <2>1. Q = P  BY <1>2 DEF ippool_freeip
  <2>2. \A x \in Members : P.m[x].in_use \in BOOLEAN  BY <1>1, PoolParts DEF Cell
  <2> QED BY <1>2, <2>1, <2>2 DEF Freed
<1>3. CASE P.m[m].in_use /\ IsStatic(m)
  <2>1. m \in Chain(P, P.m[m].addr)
    <3>1. P.m[m].addr \in Nat  BY <1>1, AddrHash
    <3> QED BY <1>1, <1>3, <3>1, ChainOf DEF Hashed
  <2>2. Q = Cleared(GiveBack(HashDel(P, m), m), m)
    BY <1>3, <2>1 DEF ippool_freeip, Cleared
  <2> QED BY <1>3, <2>2, GiveBackStatic DEF Freed
<1>4. CASE P.m[m].in_use /\ ~IsStatic(m)
  <2>1. Q = GiveBack(P, m)  BY <1>4 DEF ippool_freeip
  <2> QED BY <1>4, <2>1, GiveBackDynamic DEF Freed
<1> QED BY <1>2, <1>3, <1>4
\* A member's connection is set.
PeerSet(P, m, c) == [P EXCEPT !.m[m].peer = c]

\* The pool is none the worse for it.
LEMMA SetPeer ==
  ASSUME ConstAssumption, NEW P, Sound(P), NEW m \in Members, NEW c \in Clients \cup {0},
         NEW Q, Q = PeerSet(P, m, c)
  PROVE  /\ Sound(Q)
         /\ \A x \in Members : /\ Q.m[x].addr = P.m[x].addr /\ Q.m[x].in_use = P.m[x].in_use
                               /\ Q.m[x].peer = IF x = m THEN c ELSE P.m[x].peer
<1> DEFINE v == [P.m[m] EXCEPT !.peer = c]
<1>1. FreeSound(P) /\ HashSound(P) /\ P \in Pools  BY DEF Sound, HashSound
<1>2. P.m[m] \in Cell  BY <1>1, PoolParts
<1>3. /\ v \in Cell /\ v.addr = P.m[m].addr /\ v.nexthash = P.m[m].nexthash /\ v.peer = c
      /\ v.in_use = P.m[m].in_use /\ v.prev = P.m[m].prev /\ v.next = P.m[m].next
  BY <1>2 DEF Cell
<1>4. Q = CellSet(P, m, v)  BY <1>1 DEF PeerSet, CellSet, Pools
<1> HIDE DEF v
<1>5. /\ Q \in Pools /\ Q.hash = P.hash /\ Q.free = P.free
      /\ \A x \in Members : Q.m[x] = IF x = m THEN v ELSE P.m[x]
  BY <1>1, <1>3, <1>4, SetCell
<1>6. \A x \in Members : /\ Q.m[x].addr = P.m[x].addr /\ Q.m[x].in_use = P.m[x].in_use
                         /\ Q.m[x].peer = IF x = m THEN c ELSE P.m[x].peer
  BY <1>3, <1>5
<1>7. SameFree(P, Q) /\ SameHash(P, Q)  BY <1>3, <1>5 DEF SameFree, SameHash
<1>8. \A x \in Members : Hashed(Q, x) <=> Hashed(P, x)  BY <1>6 DEF Hashed
<1>9. FreeSound(Q)  BY <1>1, <1>5, <1>7, FreeSame
<1>10. HashSound(Q)  BY <1>1, <1>5, <1>7, <1>8, HashSame
<1> QED BY <1>6, <1>9, <1>10 DEF Sound

\* Member m of Q is given out: in use, the rest as in P.
GivenOut(P, Q, m) ==
  \A x \in Members : /\ Q.m[x].in_use = (P.m[x].in_use \/ x = m)
                     /\ Q.m[x].peer = P.m[x].peer
                     /\ x # m => Q.m[x].addr = P.m[x].addr

\* What newip gives: nothing, or a member in a sound pool; a fixed address is the one asked
\* for, and a member that was in use already is given for a fixed address and uamanyip only.
NewipGives(P, a, statip, r) ==
  \/ r.m = 0 /\ r.pool = P
  \/ /\ r.m \in Members /\ Sound(r.pool) /\ GivenOut(P, r.pool, r.m)
     /\ a # 0 /\ statip => r.pool.m[r.m].addr = a
     /\ P.m[r.m].in_use => statip /\ Anyip /\ r.pool = P
     /\ ~statip => ~IsStatic(r.m)

\* ippool_newip, for the first free member or for an address.
LEMMA NewipIs ==
  ASSUME ConstAssumption, NEW P, Sound(P), NEW a \in 0 .. MaxAddr, NEW statip \in BOOLEAN,
         NEW r, r = ippool_newip(P, a, statip)
  PROVE  NewipGives(P, a, statip, r)
<1> DEFINE allowed == IF a # 0 /\ statip THEN Anyip \/ a \in StatAddrs ELSE Dyn > 0
           found == IF a # 0 THEN Found(P, a) ELSE 0
           usable == IF ~statip /\ found # 0 /\ P.m[found].in_use THEN 0 ELSE found
           p2 == IF usable = 0 /\ ~statip THEN P.free[FALSE].first ELSE usable
           s == P.free[TRUE].first
<1>1. r = IF ~allowed THEN Failed(P)
          ELSE IF statip /\ Anyip /\ found # 0 /\ IsStatic(found) THEN [m |-> found, pool |-> P]
          ELSE IF p2 # 0 THEN IF P.m[p2].in_use \/ IsStatic(p2) THEN Failed(P)
                              ELSE [m |-> p2, pool |-> Take(P, p2)]
          ELSE IF a = 0 \/ ~statip \/ s = 0 THEN Failed(P)
          ELSE [m |-> s, pool |-> HashAdd([Take(P, s) EXCEPT !.m[s].addr = a], s)]
  BY DEF ippool_newip
<1> HIDE DEF allowed
<1>2. FreeSound(P) /\ HashSound(P) /\ P \in Pools  BY DEF Sound, HashSound
<1>3. a \in Nat /\ 0 \notin Members  BY LinkIs DEF ConstAssumption
<1>4. found # 0 => /\ a # 0 /\ found = Found(P, a) /\ found \in Members
                   /\ Hashed(P, found) /\ P.m[found].addr = a
  BY <1>2, <1>3, FoundIs
<1>5. a # 0 /\ found = 0 => \A x \in Members : Hashed(P, x) => P.m[x].addr # a
  BY <1>2, <1>3, FoundIs
<1>6. p2 # 0 => p2 \in Members /\ (statip => p2 = found)
  BY <1>2, <1>4, LastIsFree DEF FreeOf
<1>7. s # 0 => s \in Members /\ IsStatic(s) /\ ~P.m[s].in_use
  BY <1>2, LastIsFree DEF FreeOf
<1>8. p2 = 0 /\ statip => found = 0  OBVIOUS
<1>9. \A x \in Members : P.m[x].in_use \in BOOLEAN  BY <1>2, PoolParts DEF Cell
<1> HIDE DEF found, p2, s
<1>10. CASE r = Failed(P)  BY <1>10 DEF Failed, NewipGives
<1>11. CASE statip /\ Anyip /\ found # 0 /\ IsStatic(found) /\ r = [m |-> found, pool |-> P]
  <2>1. r = [m |-> found, pool |-> P]  BY <1>11
  <2>2. r.m = found /\ r.pool = P  BY <2>1
  <2>3. P.m[found].in_use /\ found \in Members /\ P.m[found].addr = a
    BY <1>4, <1>11 DEF Hashed
  <2>4. GivenOut(P, P, found)  BY <1>9, <2>3 DEF GivenOut
  <2> QED BY <1>11, <2>2, <2>3, <2>4 DEF NewipGives
<1>12. CASE /\ p2 # 0 /\ ~P.m[p2].in_use /\ ~IsStatic(p2)
            /\ r = [m |-> p2, pool |-> Take(P, p2)]
  <2>1. r.m = p2 /\ r.pool = Take(P, p2) /\ p2 \in Members  BY <1>6, <1>12
  <2>2. /\ Sound(r.pool)
        /\ \A x \in Members : /\ r.pool.m[x].addr = P.m[x].addr
                              /\ r.pool.m[x].peer = P.m[x].peer
                              /\ r.pool.m[x].in_use = (P.m[x].in_use \/ x = p2)
    BY <1>12, <2>1, TakeDynamic
  <2>3. GivenOut(P, r.pool, p2)  BY <2>2 DEF GivenOut
  <2>4. a # 0 /\ statip => r.pool.m[p2].addr = a  BY <1>4, <1>6, <1>12, <2>1, <2>2
  <2> QED BY <1>12, <2>1, <2>2, <2>3, <2>4 DEF NewipGives
<1>13. CASE /\ p2 = 0 /\ a # 0 /\ statip /\ s # 0
            /\ r = [m |-> s, pool |-> HashAdd([Take(P, s) EXCEPT !.m[s].addr = a], s)]
  <2> DEFINE R == HashAdd([Take(P, s) EXCEPT !.m[s].addr = a], s)
  <2>0. r = [m |-> s, pool |-> R]  BY <1>13
  <2> HIDE DEF R
  <2>1. r.m = s /\ r.pool = R /\ s \in Members /\ IsStatic(s) /\ ~P.m[s].in_use
    BY <2>0, <1>7, <1>13
  <2>2. \A x \in Members : Hashed(P, x) => P.m[x].addr # a  BY <1>5, <1>8, <1>13
  <2>3. a \in 1 .. MaxAddr  BY <1>13
  <2>4. /\ Sound(r.pool)
        /\ \A x \in Members : /\ r.pool.m[x].addr = IF x = s THEN a ELSE P.m[x].addr
                              /\ r.pool.m[x].in_use = (P.m[x].in_use \/ x = s)
                              /\ r.pool.m[x].peer = P.m[x].peer
    BY <2>1, <2>2, <2>3, NewStatic DEF R
  <2>5. GivenOut(P, r.pool, s)  BY <2>4 DEF GivenOut
  <2> QED BY <1>13, <2>1, <2>4, <2>5 DEF NewipGives
<1> QED BY <1>1, <1>10, <1>11, <1>12, <1>13
---------------------------------------------------------------------------
(* The pool at the start *)

\* n members after the first base ones are linked in their order.
InOrderFrom(nx, pv, base, n) ==
  \A x \in base + 1 .. base + n : /\ nx[x] = IF x = base + n THEN 0 ELSE x + 1
                                  /\ pv[x] = IF x = base + 1 THEN 0 ELSE x - 1

\* Such members make a list.
LEMMA RangeLinked ==
  ASSUME NEW base \in Nat, NEW n \in Nat, NEW nx, NEW pv, InOrderFrom(nx, pv, base, n),
         NEW f, f = IF n = 0 THEN 0 ELSE base + 1,
         NEW l, l = IF n = 0 THEN 0 ELSE base + n,
         NEW S, S = base + 1 .. base + n
  PROVE  Linked(nx, pv, f, l, S)
<1> DEFINE at == [i \in 0 .. n + 1 |-> IF i = 0 \/ i = n + 1 THEN 0 ELSE base + i]
<1>1. at[0] = 0 /\ at[n + 1] = 0 /\ \A i \in 1 .. n : at[i] = base + i  OBVIOUS
<1> HIDE DEF at
<1>2. at[1] = f
  <2>1. CASE n = 0
    <3>1. n + 1 = 1  BY <2>1
    <3> QED BY <1>1, <2>1, <3>1
  <2>2. CASE n # 0  BY <1>1, <2>2
  <2> QED BY <2>1, <2>2
<1>3. at[n] = l
  <2>1. CASE n = 0  BY <1>1, <2>1
  <2>2. CASE n # 0
    <3>1. n \in 1 .. n  BY <2>2
    <3> QED BY <1>1, <2>2, <3>1
  <2> QED BY <2>1, <2>2
<1>4. ASSUME NEW i \in 1 .. n
      PROVE  at[i] \in S /\ nx[at[i]] = at[i + 1] /\ pv[at[i]] = at[i - 1]
  <2>1. at[i] = base + i /\ base + i \in base + 1 .. base + n  BY <1>1
  <2>2. nx[at[i]] = at[i + 1]
    <3>1. CASE i = n  BY <1>1, <2>1, <3>1 DEF InOrderFrom
    <3>2. CASE i # n
      <4>1. i + 1 \in 1 .. n /\ base + i # base + n /\ base + (i + 1) = base + i + 1  BY <3>2
      <4> QED BY <1>1, <2>1, <4>1 DEF InOrderFrom
    <3> QED BY <3>1, <3>2
  <2>3. pv[at[i]] = at[i - 1]
    <3>1. CASE i = 1  BY <1>1, <2>1, <3>1 DEF InOrderFrom
    <3>2. CASE i # 1
      <4>1. i - 1 \in 1 .. n /\ base + i # base + 1 /\ base + (i - 1) = (base + i) - 1
        BY <3>2
      <4> QED BY <1>1, <2>1, <4>1 DEF InOrderFrom
    <3> QED BY <3>1, <3>2
  <2> QED BY <2>1, <2>2, <2>3
<1>5. ASSUME NEW x \in S PROVE \E i \in 1 .. n : at[i] = x
  <2>1. x - base \in 1 .. n /\ base + (x - base) = x  OBVIOUS
  <2> QED BY <1>1, <2>1
<1>6. \A i, j \in 1 .. n : at[i] = at[j] => i = j  BY <1>1
<1>7. Lists(nx, pv, f, l, S, n, at)  BY <1>1, <1>2, <1>3, <1>4, <1>5, <1>6 DEF Lists
<1>8. 0 \notin S  OBVIOUS
<1> QED BY <1>7, <1>8 DEF Linked

\* The pool before anything is hashed (the names of ippool_new).
Listed(lo, hi, m) == [addr |-> IF m <= Dyn THEN m ELSE 0, in_use |-> FALSE, peer |-> 0,
                      prev |-> IF m = lo THEN 0 ELSE m - 1,
                      next |-> IF m = hi THEN 0 ELSE m + 1, nexthash |-> 0]
Empty == [m |-> [m \in Members |-> IF m <= Dyn THEN Listed(1, Dyn, m)
                                   ELSE Listed(Dyn + 1, Dyn + Stat, m)],
          hash |-> [b \in Buckets |-> 0],
          free |-> [k \in BOOLEAN |->
                     IF k THEN [first |-> IF Stat = 0 THEN 0 ELSE Dyn + 1,
                                last |-> IF Stat = 0 THEN 0 ELSE Dyn + Stat]
                     ELSE [first |-> IF Dyn = 0 THEN 0 ELSE 1, last |-> Dyn]]]

\* All its members are free.
LEMMA EmptyFields ==
  ASSUME ConstAssumption
  PROVE  /\ Empty \in Pools
         /\ \A x \in Members :
              /\ Empty.m[x].addr = (IF x <= Dyn THEN x ELSE 0) /\ ~Empty.m[x].in_use
              /\ Empty.m[x].nexthash = 0 /\ Empty.m[x].peer = 0
              /\ Empty.m[x].prev = IF x = 1 \/ x = Dyn + 1 THEN 0 ELSE x - 1
              /\ Empty.m[x].next = IF x = Dyn \/ x = Dyn + Stat THEN 0 ELSE x + 1
         /\ \A b \in Buckets : Empty.hash[b] = 0
         /\ Empty.free[FALSE].first = (IF Dyn = 0 THEN 0 ELSE 1) /\ Empty.free[FALSE].last = Dyn
         /\ Empty.free[TRUE].first = IF Stat = 0 THEN 0 ELSE Dyn + 1
         /\ Empty.free[TRUE].last = IF Stat = 0 THEN 0 ELSE Dyn + Stat
<1> DEFINE cell(m) == IF m <= Dyn THEN Listed(1, Dyn, m) ELSE Listed(Dyn + 1, Dyn + Stat, m)
<1>0. Dyn \in Nat /\ Stat \in Nat /\ MaxAddr \in Nat /\ Dyn <= MaxAddr  BY DEF ConstAssumption
<1>1. ASSUME NEW x \in Members
      PROVE  /\ cell(x) \in Cell
             /\ cell(x).addr = (IF x <= Dyn THEN x ELSE 0) /\ ~cell(x).in_use
             /\ cell(x).nexthash = 0 /\ cell(x).peer = 0
             /\ cell(x).prev = IF x = 1 \/ x = Dyn + 1 THEN 0 ELSE x - 1
             /\ cell(x).next = IF x = Dyn \/ x = Dyn + Stat THEN 0 ELSE x + 1
  <2>1. x \in 1 .. Dyn + Stat  BY DEF Members
  <2>2. CASE x <= Dyn
    <3>1. cell(x) = Listed(1, Dyn, x)  BY <2>2
    <3>2. x \in 0 .. MaxAddr /\ 0 \in Link /\ (x # 1 => x - 1 \in Link)
          /\ (x # Dyn => x + 1 \in Link)
      BY <1>0, <2>1, <2>2 DEF Link
    <3>3. x = Dyn + Stat => x = Dyn  BY <1>0, <2>2
    <3>4. x # Dyn + 1  BY <1>0, <2>2
    <3> HIDE DEF cell
    <3> QED BY <2>2, <3>1, <3>2, <3>3, <3>4 DEF Listed, Cell
  <2>3. CASE ~(x <= Dyn)
    <3>1. cell(x) = Listed(Dyn + 1, Dyn + Stat, x)  BY <2>3
    <3>2. 0 \in 0 .. MaxAddr /\ 0 \in Link /\ (x # Dyn + 1 => x - 1 \in Link)
          /\ (x # Dyn + Stat => x + 1 \in Link)
      BY <1>0, <2>1, <2>3 DEF Link
    <3>3. x = 1 => x = Dyn + 1  BY <1>0, <2>3
    <3>4. x # Dyn  BY <1>0, <2>3
    <3> HIDE DEF cell
    <3> QED BY <2>3, <3>1, <3>2, <3>3, <3>4 DEF Listed, Cell
  <2> QED BY <2>2, <2>3
<1>2. \A x \in Members : Empty.m[x] = cell(x)  BY DEF Empty
<1>3. Empty.m \in [Members -> Cell]
  <2>1. Empty.m = [x \in Members |-> cell(x)]  BY DEF Empty
  <2> HIDE DEF cell
  <2> QED BY <1>1, <2>1
<1>4. Empty.hash \in [Buckets -> Link] /\ \A b \in Buckets : Empty.hash[b] = 0
  BY <1>0 DEF Empty, Link
<1>5. /\ Empty.free[FALSE] = [first |-> IF Dyn = 0 THEN 0 ELSE 1, last |-> Dyn]
      /\ Empty.free[TRUE] = [first |-> IF Stat = 0 THEN 0 ELSE Dyn + 1,
                             last |-> IF Stat = 0 THEN 0 ELSE Dyn + Stat]
      /\ Empty.free = [k \in BOOLEAN |-> Empty.free[k]]
  BY DEF Empty
<1>6. Empty.free \in [BOOLEAN -> [first : Link, last : Link]]
  <2>1. Empty.free[FALSE] \in [first : Link, last : Link]  BY <1>0, <1>5 DEF Link
  <2>2. Empty.free[TRUE] \in [first : Link, last : Link]  BY <1>0, <1>5 DEF Link
  <2> QED BY <1>5, <2>1, <2>2
<1>7. /\ Empty.free[FALSE].first = (IF Dyn = 0 THEN 0 ELSE 1) /\ Empty.free[FALSE].last = Dyn
      /\ Empty.free[TRUE].first = IF Stat = 0 THEN 0 ELSE Dyn + 1
      /\ Empty.free[TRUE].last = IF Stat = 0 THEN 0 ELSE Dyn + Stat
  BY <1>5
<1>8. Empty = [m |-> Empty.m, hash |-> Empty.hash, free |-> Empty.free]  BY DEF Empty
<1>9. Empty \in Pools  BY <1>3, <1>4, <1>6, <1>8 DEF Pools
<1> HIDE DEF cell
<1> QED BY <1>1, <1>2, <1>4, <1>7, <1>9

\* Its lists are the ones of the dynamic and of the static members.
LEMMA EmptyFree == ASSUME ConstAssumption PROVE FreeSound(Empty)
<1>0. Dyn \in Nat /\ Stat \in Nat /\ Members = 1 .. Dyn + Stat  BY DEF ConstAssumption, Members
<1>1. \A x \in Members : /\ NextOf(Empty)[x] = Empty.m[x].next
                         /\ PrevOf(Empty)[x] = Empty.m[x].prev
  BY DEF NextOf, PrevOf
<1>2. Linked(NextOf(Empty), PrevOf(Empty), Empty.free[FALSE].first, Empty.free[FALSE].last,
             FreeOf(Empty, FALSE))
  <2>1. FreeOf(Empty, FALSE) = 0 + 1 .. 0 + Dyn
    BY <1>0, EmptyFields DEF FreeOf, IsStatic
  <2>2. \A x \in 0 + 1 .. 0 + Dyn : /\ x \in Members /\ x # Dyn + 1
                                    /\ x = Dyn + Stat => x = Dyn
    BY <1>0
  <2>3. InOrderFrom(NextOf(Empty), PrevOf(Empty), 0, Dyn)
    BY <1>0, <1>1, <2>2, EmptyFields DEF InOrderFrom
  <2>4. /\ Empty.free[FALSE].first = IF Dyn = 0 THEN 0 ELSE 0 + 1
        /\ Empty.free[FALSE].last = IF Dyn = 0 THEN 0 ELSE 0 + Dyn
    <3>1. Empty.free[FALSE].first = (IF Dyn = 0 THEN 0 ELSE 1) /\ Empty.free[FALSE].last = Dyn
      BY EmptyFields
    <3>2. 0 + 1 = 1 /\ 0 + Dyn = Dyn  BY <1>0
    <3> QED BY <3>1, <3>2
  <2> QED BY <1>0, <2>1, <2>3, <2>4, RangeLinked
<1>3. Linked(NextOf(Empty), PrevOf(Empty), Empty.free[TRUE].first, Empty.free[TRUE].last,
             FreeOf(Empty, TRUE))
  <2>1. FreeOf(Empty, TRUE) = Dyn + 1 .. Dyn + Stat
    BY <1>0, EmptyFields DEF FreeOf, IsStatic
  <2>2. \A x \in Dyn + 1 .. Dyn + Stat : /\ x \in Members /\ x # Dyn
                                         /\ x = 1 => x = Dyn + 1
    BY <1>0
  <2>3. InOrderFrom(NextOf(Empty), PrevOf(Empty), Dyn, Stat)
    BY <1>0, <1>1, <2>2, EmptyFields DEF InOrderFrom
  <2>4. /\ Empty.free[TRUE].first = IF Stat = 0 THEN 0 ELSE Dyn + 1
        /\ Empty.free[TRUE].last = IF Stat = 0 THEN 0 ELSE Dyn + Stat
    BY <1>0, EmptyFields
  <2> QED BY <1>0, <2>1, <2>3, <2>4, RangeLinked
<1>4. \A x \in Members : ~Empty.m[x].in_use  BY EmptyFields
<1> QED BY <1>2, <1>3, <1>4, EmptyFields DEF FreeSound
\* What ippool_new does one member after the other: g[i] is the pool with the first i hashed.
Fills(g, n) ==
  /\ g = [i \in 0 .. n |-> g[i]]
  /\ g[0] = Empty
  /\ \A i \in 1 .. n : g[i] = HashAdd(g[i - 1], i)

\* The loop can be run as long as there are members.
LEMMA FillsExist == ASSUME NEW n \in Nat PROVE \E g : Fills(g, n)
<1> DEFINE T == {k \in Nat : \E g : Fills(g, k)}
<1>1. 0 \in T
  <2> DEFINE g == [i \in 0 .. 0 |-> Empty]
  <2>1. Fills(g, 0)  BY DEF Fills
  <2> HIDE DEF g
  <2> QED BY <2>1
<1>2. ASSUME NEW k \in Nat, k \in T PROVE k + 1 \in T
  <2>1. PICK g : Fills(g, k)  BY <1>2
  <2> DEFINE h == [i \in 0 .. k + 1 |-> IF i = k + 1 THEN HashAdd(g[k], k + 1) ELSE g[i]]
  <2>2. h = [i \in 0 .. k + 1 |-> h[i]] /\ h[k + 1] = HashAdd(g[k], k + 1)  OBVIOUS
  <2>3. \A i \in 0 .. k : h[i] = g[i]
    <3>1. \A i \in 0 .. k : i \in 0 .. k + 1 /\ i # k + 1  OBVIOUS
    <3> QED BY <3>1
  <2> HIDE DEF h
  <2>4. h[0] = Empty  BY <2>1, <2>3 DEF Fills
  <2>5. ASSUME NEW i \in 1 .. k + 1 PROVE h[i] = HashAdd(h[i - 1], i)
    <3>1. i - 1 \in 0 .. k  OBVIOUS
    <3>2. CASE i = k + 1
      <4>1. i - 1 = k  BY <3>2
      <4> QED BY <2>2, <2>3, <3>1, <3>2, <4>1
    <3>3. CASE i # k + 1
      <4>1. i \in 1 .. k /\ i \in 0 .. k  BY <3>3
      <4> QED BY <2>1, <2>3, <3>1, <4>1 DEF Fills
    <3> QED BY <3>2, <3>3
  <2>6. Fills(h, k + 1)  BY <2>2, <2>4, <2>5 DEF Fills
  <2> QED BY <2>6
<1> HIDE DEF T
<1>3. \A k \in Nat : k \in T  BY <1>1, <1>2, Induction
<1> QED BY <1>3 DEF T

\* ippool_new is the last one.
LEMMA NewIs ==
  ASSUME ConstAssumption
  PROVE  \E g : Fills(g, Dyn) /\ ippool_new = g[Dyn]
<1>0. Dyn \in Nat  BY DEF ConstAssumption
<1> DEFINE F(f) == [i \in 0 .. Dyn |-> IF i = 0 THEN Empty ELSE HashAdd(f[i - 1], i)]
           h == CHOOSE f : f = F(f)
<1>1. ippool_new = h[Dyn]  BY DEF ippool_new, Empty, Listed
<1>2. PICK g : Fills(g, Dyn)  BY <1>0, FillsExist
<1>3. g = F(g)
  <2>1. \A i \in 0 .. Dyn : g[i] = IF i = 0 THEN Empty ELSE HashAdd(g[i - 1], i)
    <3>1. \A i \in 0 .. Dyn : i # 0 => i \in 1 .. Dyn  BY <1>0
    <3> QED BY <1>2, <3>1 DEF Fills
  <2>2. g = [i \in 0 .. Dyn |-> g[i]]  BY <1>2 DEF Fills
  <2> QED BY <2>1, <2>2
<1>4. h = F(h)
  <2> HIDE DEF F
  <2> QED BY <1>3
<1> HIDE DEF h
<1>5. Fills(h, Dyn)
  <2>1. h = [i \in 0 .. Dyn |-> h[i]]  BY <1>4
  <2>2. h[0] = Empty  BY <1>0, <1>4
  <2>3. \A i \in 1 .. Dyn : i \in 0 .. Dyn /\ i # 0  BY <1>0
  <2>4. \A i \in 1 .. Dyn : h[i] = HashAdd(h[i - 1], i)  BY <1>4, <2>3
  <2> QED BY <2>1, <2>2, <2>4 DEF Fills
<1> QED BY <1>1, <1>5

\* The pool with the first i dynamic members in the hash table.
UpTo(i) == [b \in Buckets |-> {x \in 1 .. i : Hash(x) = b}]
Filled(P, i) ==
  /\ P \in Pools /\ SameMembers(Empty, P) /\ Chains(P, UpTo(i))
  /\ \A x \in Members : x > i => P.m[x].nexthash = 0

\* Nothing is hashed at first.
LEMMA EmptyFilled == ASSUME ConstAssumption PROVE Filled(Empty, 0)
<1>1. Empty \in Pools /\ SameMembers(Empty, Empty)  BY EmptyFields DEF SameMembers
<1>2. \A b \in Buckets : UpTo(0)[b] = {}
  <2>1. 1 .. 0 = {}  OBVIOUS
  <2> QED BY <2>1 DEF UpTo
<1>3. ASSUME NEW b \in Buckets
      PROVE  \E pv, l : Linked(NextHash(Empty), pv, Empty.hash[b], l, UpTo(0)[b])
  <2>1. Linked(NextHash(Empty), NextHash(Empty), 0, 0, {})  BY NoneLinked
  <2>2. Empty.hash[b] = 0  BY EmptyFields
  <2> QED BY <1>2, <2>1, <2>2
<1>4. Chains(Empty, UpTo(0))  BY <1>2, <1>3 DEF Chains
<1> QED BY <1>1, <1>4, EmptyFields DEF Filled

\* HashAdd puts in the next one.
LEMMA FillOne ==
  ASSUME ConstAssumption, NEW i \in 1 .. Dyn, NEW P, Filled(P, i - 1), NEW Q, Q = HashAdd(P, i)
  PROVE  Filled(Q, i)
<1>0. Dyn \in Nat /\ Stat \in Nat  BY DEF ConstAssumption
<1>1. i \in Members /\ i \in Nat /\ i <= Dyn /\ i > i - 1 /\ i - 1 \in Nat
  BY <1>0 DEF Members
<1>2. P \in Pools /\ SameMembers(Empty, P) /\ Chains(P, UpTo(i - 1))  BY DEF Filled
<1>3. P.m[i].nexthash = 0  BY <1>1 DEF Filled
<1>4. P.m[i].addr = i  BY <1>1, <1>2, EmptyFields DEF SameMembers
<1>5. \A x \in 1 .. i - 1 : x # i  OBVIOUS
<1>6. InNone(UpTo(i - 1), i)  BY <1>5 DEF InNone, UpTo
<1>7. Joined(UpTo(i), UpTo(i - 1), Hash(P.m[i].addr), i)
  <2>1. \A x : x \in 1 .. i <=> (x \in 1 .. i - 1 \/ x = i)  BY <1>1
  <2>2. ASSUME NEW c \in Buckets
        PROVE  UpTo(i)[c] = IF c = Hash(i) THEN UpTo(i - 1)[c] \cup {i} ELSE UpTo(i - 1)[c]
    <3>1. UpTo(i)[c] = {x \in 1 .. i : Hash(x) = c}  BY DEF UpTo
    <3>2. UpTo(i - 1)[c] = {x \in 1 .. i - 1 : Hash(x) = c}  BY DEF UpTo
    <3> QED BY <2>1, <3>1, <3>2
  <2> QED BY <1>4, <2>2 DEF Joined
<1>8. Q \in Pools /\ SameMembers(P, Q) /\ Chains(Q, UpTo(i)) /\ OthersKept(P, Q, UpTo(i - 1))
  BY <1>1, <1>2, <1>3, <1>6, <1>7, HashAddIs
<1>9. SameMembers(Empty, Q)  BY <1>2, <1>8 DEF SameMembers
<1>10. ASSUME NEW x \in Members, x > i PROVE Q.m[x].nexthash = 0
  <2>1. x > i - 1 /\ x \notin 1 .. i - 1  BY <1>1, <1>10 DEF Members
  <2>2. InNone(UpTo(i - 1), x)  BY <2>1 DEF InNone, UpTo
  <2>3. P.m[x].nexthash = 0  BY <2>1 DEF Filled
  <2> QED BY <1>8, <2>2, <2>3 DEF OthersKept
<1> QED BY <1>8, <1>9, <1>10 DEF Filled

\* The pool of ippool_new is sound, and nothing of it is in use.
LEMMA NewSound ==
  ASSUME ConstAssumption
  PROVE  Sound(ippool_new) /\ \A x \in Members : ~ippool_new.m[x].in_use
<1>0. Dyn \in Nat /\ Stat \in Nat  BY DEF ConstAssumption
<1>1. PICK g : Fills(g, Dyn) /\ ippool_new = g[Dyn]  BY NewIs
<1> DEFINE T == {k \in Nat : k <= Dyn => Filled(g[k], k)}
<1>2. 0 \in T  BY <1>1, EmptyFilled DEF Fills
<1>3. ASSUME NEW k \in Nat, k \in T PROVE k + 1 \in T
  <2>1. SUFFICES ASSUME k + 1 <= Dyn PROVE Filled(g[k + 1], k + 1)  OBVIOUS
  <2>2. k + 1 \in 1 .. Dyn /\ (k + 1) - 1 = k /\ k <= Dyn  BY <1>0, <2>1
  <2>3. g[k + 1] = HashAdd(g[k], k + 1)  BY <1>1, <2>2 DEF Fills
  <2>4. Filled(g[k], (k + 1) - 1)  BY <1>3, <2>2
  <2> QED BY <2>2, <2>3, <2>4, FillOne
<1> DEFINE Q == ippool_new
<1>4. Filled(Q, Dyn)
  <2> HIDE DEF T
  <2>1. Dyn \in T  BY <1>0, <1>2, <1>3, Induction
  <2> QED BY <1>0, <1>1, <2>1 DEF T
<1> HIDE DEF Q
<1>5. Q \in Pools /\ SameMembers(Empty, Q) /\ Chains(Q, UpTo(Dyn))  BY <1>4 DEF Filled
<1>6. \A x \in Members : ~Q.m[x].in_use /\ Q.m[x].addr = IF x <= Dyn THEN x ELSE 0
  BY <1>5, EmptyFields DEF SameMembers
<1>7. FreeSound(Q)
  <2>1. SameFree(Empty, Q)  BY <1>5 DEF SameMembers, SameFree
  <2> QED BY <1>5, <2>1, EmptyFree, FreeSame
<1>8. \A x \in Members : Hashed(Q, x) <=> x \in 1 .. Dyn  BY <1>6, DynamicIs DEF Hashed
<1>9. \A x \in 1 .. Dyn : x \in Members /\ Q.m[x].addr = x /\ x # 0
  BY <1>0, <1>6 DEF Members
<1>10. \A b \in Buckets : BucketsOf(Q)[b] = UpTo(Dyn)[b]  BY <1>8, <1>9 DEF BucketsOf, UpTo
<1>11. Chains(Q, BucketsOf(Q))  BY <1>5, <1>10 DEF Chains
<1>12. \A x \in Members : ~Hashed(Q, x) => Q.m[x].nexthash = 0
  <2>1. \A x \in Members : x \notin 1 .. Dyn => x > Dyn  BY <1>0 DEF Members
  <2> QED BY <1>4, <1>8, <2>1 DEF Filled
<1>13. HashSound(Q)  BY <1>5, <1>8, <1>9, <1>11, <1>12 DEF HashSound
<1> QED BY <1>6, <1>7, <1>13 DEF Sound, Q
---------------------------------------------------------------------------
(* Connections *)

\* A dynamic member is found under its own number.
LEMMA DynamicFound ==
  ASSUME ConstAssumption, NEW P, Sound(P), NEW n \in 1 .. Dyn
  PROVE  ippool_getip(P, n) = IF P.m[n].in_use THEN n ELSE 0
<1>1. HashSound(P) /\ P.m[n].addr = n  BY DEF Sound, HashSound
<1>2. n \in Members /\ n \in Nat /\ n # 0 /\ Hashed(P, n)  BY DynamicIs DEF Hashed
<1>3. Found(P, n) = n  BY <1>1, <1>2, FoundIs
<1> QED BY <1>2, <1>3 DEF ippool_getip

\* Disconnected frees a connection's members and nothing else.
TakenBack(P, Q, m, nat) ==
  \A x \in Members :
    /\ Q.m[x].in_use = (P.m[x].in_use /\ x # m /\ ~(Anyip /\ x = nat))
    /\ x # m /\ ~(Anyip /\ x = nat) => Q.m[x].addr = P.m[x].addr /\ Q.m[x].peer = P.m[x].peer

\* What Disconnected leaves of the pool.
LEMMA DisconnectedIs ==
  ASSUME ConstAssumption, NEW P, Sound(P), NEW m \in Members, NEW nat \in 0 .. Dyn,
         NEW Q, Q = Disconnected(P, m, nat)
  PROVE  Sound(Q) /\ TakenBack(P, Q, m, nat)
<1> DEFINE n == IF ~Anyip \/ nat = 0 THEN 0 ELSE ippool_getip(P, nat)
           P1 == IF n = 0 THEN P ELSE ippool_freeip(P, n)
<1>1. Q = IF P1.m[m].in_use THEN ippool_freeip(P1, m) ELSE P1  BY DEF Disconnected
<1>2. P \in Pools /\ \A x \in Members : P.m[x].in_use \in BOOLEAN
  BY PoolParts DEF Sound, HashSound, Cell
<1>3. 0 \notin Members /\ (nat # 0 => nat \in 1 .. Dyn /\ nat \in Members)
  BY LinkIs, DynamicIs DEF ConstAssumption
<1>4. /\ n # 0 => Anyip /\ n = nat /\ nat \in Members
      /\ n = 0 => \A x \in Members : Anyip /\ x = nat => ~P.m[x].in_use
  BY <1>3, DynamicFound
<1> HIDE DEF n
<1>5. /\ Sound(P1)
      /\ \A x \in Members :
           /\ P1.m[x].in_use = (P.m[x].in_use /\ ~(Anyip /\ x = nat))
           /\ ~(Anyip /\ x = nat) => P1.m[x].addr = P.m[x].addr /\ P1.m[x].peer = P.m[x].peer
  <2>1. CASE n = 0
    <3>1. P1 = P  BY <2>1
    <3> QED BY <1>2, <1>4, <2>1, <3>1
  <2>2. CASE n # 0
    <3>1. P1 = ippool_freeip(P, nat) /\ nat \in Members /\ Anyip  BY <1>4, <2>2
    <3> HIDE DEF P1
    <3>2. Sound(P1) /\ Freed(P, P1, nat)  BY <3>1, FreeIs
    <3> QED BY <3>1, <3>2 DEF Freed
  <2> QED BY <2>1, <2>2
<1> HIDE DEF P1
<1>6. CASE P1.m[m].in_use
  <2>1. Sound(Q) /\ Freed(P1, Q, m)  BY <1>1, <1>5, <1>6, FreeIs
  <2> QED BY <1>5, <2>1 DEF Freed, TakenBack
<1>7. CASE ~P1.m[m].in_use
  <2>1. Q = P1  BY <1>1, <1>7
  <2> QED BY <1>2, <1>5, <1>7, <2>1 DEF TakenBack
<1> QED BY <1>6, <1>7

\* What newip of chilli.c gives to a client that gets an address: a member of its own,
\* or, with uamanyip only, one that somebody has already.
LEMMA GotIs ==
  ASSUME ConstAssumption, Sound(pool), NEW a \in 0 .. MaxAddr,
         NEW got, got = newip(a), got.m # 0
  PROVE  /\ got.m \in Members /\ Sound(got.pool) /\ GivenOut(pool, got.pool, got.m)
         /\ pool.m[got.m].in_use => Anyip
<1> DEFINE fixed == ippool_newip(pool, a, TRUE)
<1>1. got = IF fixed.m # 0 THEN fixed ELSE ippool_newip(fixed.pool, a, FALSE)  BY DEF newip
<1>2. NewipGives(pool, a, TRUE, fixed)  BY NewipIs
<1> HIDE DEF fixed
<1>3. CASE fixed.m # 0  BY <1>1, <1>2, <1>3 DEF NewipGives
<1>4. CASE fixed.m = 0
  <2>1. 0 \notin Members  BY LinkIs
  <2>2. fixed.pool = pool  BY <1>2, <1>4, <2>1 DEF NewipGives
  <2>3. got = ippool_newip(pool, a, FALSE)  BY <1>1, <1>4, <2>2
  <2>4. NewipGives(pool, a, FALSE, got)  BY <2>3, NewipIs
  <2> QED BY <2>4 DEF NewipGives
<1> QED BY <1>3, <1>4

---------------------------------------------------------------------------
(* The invariant *)

\* A member in use is the one of a connection, or the one its packets are translated to.
Held == \A m \in Members : pool.m[m].in_use => \E c \in Clients : m = uplink[c] \/ m = natip[c]

PoolInv ==
  /\ Sound(pool)
  /\ uplink \in [Clients -> Link] /\ hisip \in [Clients -> 0 .. MaxAddr]
  /\ natip \in [Clients -> 0 .. Dyn]
  /\ \A c \in Clients : natip[c] # 0 => uplink[c] # 0 /\ Anyip
  /\ Held

\* Nobody is connected at the start.
LEMMA InitInv == ASSUME ConstAssumption, Init PROVE PoolInv
<1>1. Sound(pool) /\ \A x \in Members : ~pool.m[x].in_use  BY NewSound DEF Init
<1>2. 0 \in Link /\ 0 \in 0 .. MaxAddr /\ 0 \in 0 .. Dyn  BY DEF ConstAssumption, Link
<1>3. /\ uplink = [c \in Clients |-> 0] /\ hisip = [c \in Clients |-> 0]
      /\ natip = [c \in Clients |-> 0]
  BY DEF Init
<1> QED BY <1>1, <1>2, <1>3 DEF PoolInv, Held

\* session_disconnect: both members of the connection are given back.
LEMMA DisconnectInv ==
  ASSUME ConstAssumption, PoolInv, NEW c \in Clients, session_disconnect(c)
  PROVE  PoolInv'
<1> DEFINE u == uplink[c]
           n == natip[c]
<1>1. u \in Members /\ n \in 0 .. Dyn /\ Sound(pool) /\ (n # 0 => Anyip)
  BY LinkIs DEF PoolInv, session_disconnect
<1>2. /\ uplink' = [uplink EXCEPT ![c] = 0] /\ hisip' = [hisip EXCEPT ![c] = 0]
      /\ natip' = [natip EXCEPT ![c] = 0] /\ pool' = Disconnected(pool, u, n)
  BY DEF session_disconnect
<1>3. Sound(pool') /\ TakenBack(pool, pool', u, n)
  <2> HIDE DEF u, n
  <2> QED BY <1>1, <1>2, DisconnectedIs
<1>4. 0 \in Link /\ 0 \in 0 .. MaxAddr /\ 0 \in 0 .. Dyn  BY DEF ConstAssumption, Link
<1>5. /\ uplink' \in [Clients -> Link] /\ hisip' \in [Clients -> 0 .. MaxAddr]
      /\ natip' \in [Clients -> 0 .. Dyn]
      /\ \A d \in Clients : natip'[d] # 0 => uplink'[d] # 0 /\ Anyip
  BY <1>2, <1>4 DEF PoolInv
<1>6. ASSUME NEW m \in Members, pool'.m[m].in_use
      PROVE  \E d \in Clients : m = uplink'[d] \/ m = natip'[d]
  <2>1. pool.m[m].in_use /\ m # u /\ ~(Anyip /\ m = n)  BY <1>3, <1>6 DEF TakenBack
  <2>2. m # 0  BY LinkIs
  <2>3. PICK d \in Clients : m = uplink[d] \/ m = natip[d]  BY <2>1 DEF PoolInv, Held
  <2>4. d # c  BY <1>1, <2>1, <2>2, <2>3
  <2> QED BY <1>2, <2>3, <2>4 DEF PoolInv
<1>7. Held'  BY <1>6 DEF Held
<1> QED BY <1>3, <1>5, <1>7 DEF PoolInv

\* cb_dhcp_request: with an address, with a second one for SNAT, or refused for want of it.
LEMMA RequestInv ==
  ASSUME ConstAssumption, PoolInv,
         NEW c \in Clients, NEW a \in 0 .. MaxAddr, cb_dhcp_request(c, a)
  PROVE  PoolInv'
<1> DEFINE got == newip(a)
           his == got.pool.m[got.m].addr
           mine == PeerSet(got.pool, got.m, c)
           nat == ippool_newip(mine, 0, FALSE)
<1>0. /\ uplink[c] = 0 /\ got.m # 0
      /\ \/ /\ pool' = mine
            /\ uplink' = [uplink EXCEPT ![c] = got.m]
            /\ hisip' = [hisip EXCEPT ![c] = his]
            /\ UNCHANGED natip
         \/ /\ pool' = Disconnected(mine, got.m, 0)
            /\ UNCHANGED <<uplink, hisip, natip>>
         \/ /\ nat.m # 0 /\ NeedsNat(his)
            /\ pool' = PeerSet(nat.pool, nat.m, c)
            /\ uplink' = [uplink EXCEPT ![c] = got.m]
            /\ hisip' = [hisip EXCEPT ![c] = his]
            /\ natip' = [natip EXCEPT ![c] = mine.m[nat.m].addr]
  BY DEF cb_dhcp_request, PeerSet
<1>1. /\ Sound(pool) /\ uplink \in [Clients -> Link] /\ hisip \in [Clients -> 0 .. MaxAddr]
      /\ natip \in [Clients -> 0 .. Dyn]
      /\ \A d \in Clients : natip[d] # 0 => uplink[d] # 0 /\ Anyip
  BY DEF PoolInv
<1>2. 0 \notin Members /\ Members \subseteq Link /\ natip[c] = 0  BY <1>0, <1>1, LinkIs
<1> HIDE DEF got
<1>3. got.m \in Members /\ Sound(got.pool) /\ GivenOut(pool, got.pool, got.m)
  BY <1>0, <1>1, GotIs DEF got
<1> HIDE DEF mine
<1>4. /\ Sound(mine)
      /\ \A x \in Members : /\ mine.m[x].addr = got.pool.m[x].addr
                            /\ mine.m[x].in_use = got.pool.m[x].in_use
  BY <1>3, SetPeer DEF mine
<1>5. \A x \in Members : mine.m[x].in_use => (pool.m[x].in_use \/ x = got.m)
  BY <1>3, <1>4 DEF GivenOut
<1>6. his \in 0 .. MaxAddr
  <2>1. got.pool \in Pools  BY <1>3 DEF Sound, HashSound
  <2> QED BY <1>3, <2>1, AddrHash
<1> HIDE DEF his
<1>7. \A x \in Members : pool.m[x].in_use => \E d \in Clients : x = uplink[d] \/ x = natip[d]
  BY DEF PoolInv, Held
<1>8. CASE /\ pool' = mine
           /\ uplink' = [uplink EXCEPT ![c] = got.m]
           /\ hisip' = [hisip EXCEPT ![c] = his]
           /\ UNCHANGED natip
  <2>1. uplink' \in [Clients -> Link] /\ hisip' \in [Clients -> 0 .. MaxAddr]
    BY <1>1, <1>2, <1>3, <1>6, <1>8
  <2>2. \A d \in Clients : natip'[d] # 0 => uplink'[d] # 0 /\ Anyip
    BY <1>1, <1>2, <1>3, <1>8
  <2>3. ASSUME NEW x \in Members, pool'.m[x].in_use
        PROVE  \E d \in Clients : x = uplink'[d] \/ x = natip'[d]
    <3>1. CASE x = got.m  BY <1>1, <1>8, <3>1
    <3>2. CASE x # got.m
      <4>1. PICK d \in Clients : x = uplink[d] \/ x = natip[d]
        BY <1>5, <1>7, <1>8, <2>3, <3>2
      <4>2. x # 0  BY <1>2
      <4>3. d = c => FALSE  BY <1>0, <1>2, <4>1, <4>2
      <4> QED BY <1>1, <1>8, <4>1, <4>3
    <3> QED BY <3>1, <3>2
  <2>4. Held'  BY <2>3 DEF Held
  <2> QED BY <1>1, <1>4, <1>8, <2>1, <2>2, <2>4 DEF PoolInv
<1>9. CASE /\ pool' = Disconnected(mine, got.m, 0)
           /\ UNCHANGED <<uplink, hisip, natip>>
  <2>1. 0 \in 0 .. Dyn  BY DEF ConstAssumption
  <2>2. Sound(pool') /\ TakenBack(mine, pool', got.m, 0)
    BY <1>3, <1>4, <1>9, <2>1, DisconnectedIs
  <2>3. \A x \in Members : pool'.m[x].in_use => pool.m[x].in_use
    BY <1>5, <2>2 DEF TakenBack
  <2>4. Held'  BY <1>7, <1>9, <2>3 DEF Held
  <2> QED BY <1>1, <1>9, <2>2, <2>4 DEF PoolInv
<1>10. CASE /\ nat.m # 0 /\ NeedsNat(his)
            /\ pool' = PeerSet(nat.pool, nat.m, c)
            /\ uplink' = [uplink EXCEPT ![c] = got.m]
            /\ hisip' = [hisip EXCEPT ![c] = his]
            /\ natip' = [natip EXCEPT ![c] = mine.m[nat.m].addr]
  <2>1. NewipGives(mine, 0, FALSE, nat)
    <3>1. 0 \in 0 .. MaxAddr  BY DEF ConstAssumption
    <3> QED BY <1>4, <3>1, NewipIs
  <2> HIDE DEF nat
  <2>2. /\ nat.m \in Members /\ Sound(nat.pool)
        /\ GivenOut(mine, nat.pool, nat.m) /\ ~IsStatic(nat.m)
    BY <1>10, <2>1 DEF NewipGives
  <2>3. mine.m[nat.m].addr = nat.m /\ nat.m \in 0 .. Dyn
    <3>1. nat.m \in 1 .. Dyn  BY <2>2, DynamicIs
    <3> QED BY <1>4, <3>1 DEF Sound, HashSound
  <2>4. /\ Sound(pool')
        /\ \A x \in Members : pool'.m[x].in_use = nat.pool.m[x].in_use
    BY <1>10, <2>2, SetPeer
  <2>5. \A x \in Members : pool'.m[x].in_use => pool.m[x].in_use \/ x = got.m \/ x = nat.m
    BY <1>5, <2>2, <2>4 DEF GivenOut
  <2>6. uplink' \in [Clients -> Link] /\ hisip' \in [Clients -> 0 .. MaxAddr]
        /\ natip' \in [Clients -> 0 .. Dyn]
    BY <1>1, <1>2, <1>3, <1>6, <1>10, <2>3
  <2>7. \A d \in Clients : natip'[d] # 0 => uplink'[d] # 0 /\ Anyip
    BY <1>1, <1>2, <1>3, <1>10 DEF NeedsNat
  <2>8. ASSUME NEW x \in Members, pool'.m[x].in_use
        PROVE  \E d \in Clients : x = uplink'[d] \/ x = natip'[d]
    <3>1. CASE x = got.m  BY <1>1, <1>10, <3>1
    <3>2. CASE x = nat.m  BY <1>1, <1>10, <2>3, <3>2
    <3>3. CASE x # got.m /\ x # nat.m
      <4>1. PICK d \in Clients : x = uplink[d] \/ x = natip[d]  BY <1>7, <2>5, <2>8, <3>3
      <4>2. x # 0  BY <1>2
      <4>3. d = c => FALSE  BY <1>0, <1>2, <4>1, <4>2
      <4> QED BY <1>1, <1>10, <4>1, <4>3
    <3> QED BY <3>1, <3>2, <3>3
  <2>9. Held'  BY <2>8 DEF Held
  <2> QED BY <2>4, <2>6, <2>7, <2>9 DEF PoolInv
<1> QED BY <1>0, <1>8, <1>9, <1>10

\* Every step keeps the invariant.
LEMMA NextInv == ASSUME ConstAssumption, PoolInv, [Next]_vars PROVE PoolInv'
<1>1. CASE Next  BY <1>1, RequestInv, DisconnectInv DEF Next
<1>2. CASE UNCHANGED vars  BY <1>2 DEF vars, PoolInv, Held
<1> QED BY <1>1, <1>2
---------------------------------------------------------------------------
(* What the invariant says *)

\* The list of the free members goes through all of them.
LEMMA ListIs ==
  ASSUME ConstAssumption, Sound(pool), NEW k \in BOOLEAN
  PROVE  ListOf(k) = Free(k) \cup {0}
<1> DEFINE nx == NextOf(pool)
           f == pool.free[k].first
           S == Free(k)
           F(h) == [n \in Nat |-> IF n = 0 THEN f
                                  ELSE IF h[n - 1] = 0 THEN 0 ELSE pool.m[h[n - 1]].next]
           h == CHOOSE g : g = F(g)
           N == Dyn + Stat
<1>1. ListOf(k) = {h[n] : n \in 0 .. N}  BY DEF ListOf
<1>2. S = FreeOf(pool, k) /\ S \in SUBSET Members  BY DEF Free, FreeOf
<1>3. PICK pv, l : Linked(nx, pv, f, l, S)  BY <1>2 DEF Sound, FreeSound
<1>4. \A x \in S : nx[x] = pool.m[x].next /\ x # 0  BY <1>2, LinkIs DEF NextOf
<1> HIDE DEF nx, f, S
<1>5. PICK g : /\ g = [n \in Nat |-> g[n]] /\ g[0] = f
               /\ \A n \in Nat \ {0} : /\ n - 1 \in Nat /\ g[n - 1] \in S \cup {0}
                                       /\ g[n] = IF g[n - 1] = 0 THEN 0 ELSE nx[g[n - 1]]
  BY <1>3, WayExists
<1>6. g = F(g)
  <2>1. \A n \in Nat : g[n] = IF n = 0 THEN f
                              ELSE IF g[n - 1] = 0 THEN 0 ELSE pool.m[g[n - 1]].next
    BY <1>4, <1>5
  <2> QED BY <1>5, <2>1
<1>7. h = F(h)
  <2> HIDE DEF F
  <2> QED BY <1>6
<1> HIDE DEF h
<1>8. h[0] = f  BY <1>7
<1>9. ASSUME NEW n \in Nat \ {0}
      PROVE  (h[n - 1] = 0 => h[n] = 0) /\ (h[n - 1] \in S => h[n] = nx[h[n - 1]])
  <2>1. h[n] = IF h[n - 1] = 0 THEN 0 ELSE pool.m[h[n - 1]].next  BY <1>7
  <2> QED BY <1>4, <2>1
<1>10. N \in Nat /\ S \subseteq 1 .. N  BY <1>2, LinkIs DEF Members
<1> HIDE DEF N
<1>11. Covers(h, N, S)
  <2>1. Follows(h, nx, f, S)  BY <1>8, <1>9 DEF Follows
  <2> QED BY <1>3, <1>10, <2>1, Reaches
<1>12. {h[n] : n \in 0 .. N} = S \cup {0}  BY <1>11 DEF Covers
<1> QED BY <1>1, <1>12 DEF S

\* The lists hold the free members, linked both ways.
LEMMA FreeListsHold == ASSUME ConstAssumption, Sound(pool) PROVE FreeListsOK
<1>1. ASSUME NEW k \in BOOLEAN
      PROVE  /\ ListOf(k) = Free(k) \cup {0}
             /\ pool.free[k].first = 0 <=> pool.free[k].last = 0
             /\ \A m \in Free(k) :
                  /\ pool.m[m].next = 0 <=> m = pool.free[k].last
                  /\ pool.m[m].next # 0 => pool.m[pool.m[m].next].prev = m
  <2>1. Free(k) = FreeOf(pool, k) /\ Free(k) \subseteq Members  BY DEF Free, FreeOf
  <2>2. Linked(NextOf(pool), PrevOf(pool), pool.free[k].first, pool.free[k].last, Free(k))
    BY <2>1 DEF Sound, FreeSound
  <2>3. ASSUME NEW m \in Free(k)
        PROVE  /\ NextOf(pool)[m] \in Free(k) \cup {0}
               /\ NextOf(pool)[m] = 0 <=> m = pool.free[k].last
               /\ NextOf(pool)[m] # 0 => PrevOf(pool)[NextOf(pool)[m]] = m
    BY <2>2, Ends
  <2>4. \A m \in Members : /\ NextOf(pool)[m] = pool.m[m].next
                           /\ PrevOf(pool)[m] = pool.m[m].prev
    BY DEF NextOf, PrevOf
  <2>5. pool.free[k].first = 0 <=> pool.free[k].last = 0  BY <2>2, Ends
  <2>6. \A m \in Free(k) : /\ pool.m[m].next = 0 <=> m = pool.free[k].last
                           /\ pool.m[m].next # 0 => pool.m[pool.m[m].next].prev = m
    BY <2>1, <2>3, <2>4
  <2> QED BY <2>5, <2>6, ListIs
<1> QED BY <1>1 DEF FreeListsOK

\* A member is in the chain of its address, and alone with it.
LEMMA HashHolds == ASSUME ConstAssumption, Sound(pool) PROVE HashOK
<1>1. HashSound(pool) /\ pool \in Pools  BY DEF Sound, HashSound
<1>2. ASSUME NEW m \in Members
      PROVE  (m \in Chain(pool, pool.m[m].addr)) <=> (~IsStatic(m) \/ pool.m[m].in_use)
  <2>1. pool.m[m].addr \in Nat  BY <1>1, AddrHash
  <2>2. Chain(pool, pool.m[m].addr)
          = {x \in Members : Hashed(pool, x) /\ Hash(pool.m[x].addr) = Hash(pool.m[m].addr)}
    BY <1>1, <2>1, ChainOf
  <2> QED BY <2>2 DEF Hashed
<1>3. ASSUME NEW a \in 1 .. MaxAddr PROVE Cardinality(InHash(pool, a)) <= 1
  <2>1. a \in Nat  BY DEF ConstAssumption
  <2>2. InHash(pool, a) = {x \in Members : Hashed(pool, x) /\ pool.m[x].addr = a}
    BY <1>1, <2>1, FoundIs
  <2>3. \A x, y \in InHash(pool, a) : x = y  BY <1>1, <2>2 DEF HashSound
  <2>4. CASE InHash(pool, a) = {}
    <3>1. Cardinality(InHash(pool, a)) = 0  BY <2>4, FS_EmptySet
    <3> QED BY <3>1
  <2>5. CASE InHash(pool, a) # {}
    <3>1. PICK x : InHash(pool, a) = {x}  BY <2>3, <2>5
    <3>2. Cardinality({x}) = 1  BY FS_Singleton
    <3> QED BY <3>1, <3>2
  <2> QED BY <2>4, <2>5
<1> QED BY <1>2, <1>3 DEF HashOK

\* The invariant implies what is promised.
LEMMA InvMeans == ASSUME ConstAssumption, PoolInv PROVE PoolOK
<1>1. Sound(pool)  BY DEF PoolInv
<1>2. TypeOK
  <2>1. /\ pool \in Pools
        /\ \A m \in 1 .. Dyn : pool.m[m].addr = m
    BY <1>1 DEF Sound, HashSound
  <2> QED BY <2>1 DEF PoolInv, TypeOK, Pools, Cell
<1>3. InUseIsHeld
  <2>1. SUFFICES ASSUME NEW m \in Members, pool.m[m].in_use
                 PROVE  \E c \in Clients :
                           m = uplink[c] \/ (natip[c] # 0 /\ m = ippool_getip(pool, natip[c]))
    BY DEF InUseIsHeld
  <2>2. PICK c \in Clients : m = uplink[c] \/ m = natip[c]  BY <2>1 DEF PoolInv, Held
  <2>3. CASE m = uplink[c]  BY <2>3
  <2>4. CASE m = natip[c]
    <3>1. m # 0  BY LinkIs
    <3>2. m \in 1 .. Dyn  BY <2>4, <3>1 DEF PoolInv, ConstAssumption
    <3>3. ippool_getip(pool, m) = m  BY <1>1, <2>1, <3>2, DynamicFound
    <3> QED BY <2>4, <3>1, <3>3
  <2> QED BY <2>2, <2>3, <2>4
<1> QED BY <1>1, <1>2, <1>3, FreeListsHold, HashHolds DEF PoolOK

\* The pool is whole (ippool.c): with any number of members, addresses and hash buckets and
\* under every sequence of requests and disconnections, uamanyip and its SNAT included, the
\* two lists hold exactly the free members, linked both ways, each member is in the one chain
\* it belongs to, no address is in the table twice, and a member in use is some connection's.
THEOREM PoolWhole == ASSUME ConstAssumption PROVE Spec => []PoolOK
<1>1. Init => PoolInv  BY InitInv
<1>2. PoolInv /\ [Next]_vars => PoolInv'  BY NextInv
<1>3. PoolInv => PoolOK  BY InvMeans
<1> QED BY <1>1, <1>2, <1>3, PTL DEF Spec

---------------------------------------------------------------------------
(* Without uamanyip *)

\* A connection's member is its own, in use, and has the address its client was given.
Owns(c) ==
  uplink[c] # 0 => /\ pool.m[uplink[c]].in_use /\ pool.m[uplink[c]].peer = c
                   /\ pool.m[uplink[c]].addr = hisip[c]

OwnInv == PoolInv /\ \A c \in Clients : Owns(c)

\* No step touches what another connection owns.
LEMMA OwnNext == ASSUME ConstAssumption, ~Anyip, OwnInv, [Next]_vars PROVE OwnInv'
<1>1. PoolInv'  BY NextInv DEF OwnInv
<1>2. /\ Sound(pool) /\ uplink \in [Clients -> Link] /\ hisip \in [Clients -> 0 .. MaxAddr]
      /\ natip \in [Clients -> 0 .. Dyn] /\ \A d \in Clients : natip[d] = 0
  BY DEF OwnInv, PoolInv
<1>3. \A d \in Clients : Owns(d)  BY DEF OwnInv
<1>4. ASSUME NEW c \in Clients, session_disconnect(c), NEW d \in Clients PROVE Owns(d)'
  <2>1. SUFFICES ASSUME uplink'[d] # 0
                 PROVE  /\ pool'.m[uplink'[d]].in_use /\ pool'.m[uplink'[d]].peer = d
                        /\ pool'.m[uplink'[d]].addr = hisip'[d]
    BY DEF Owns
  <2>2. /\ uplink[c] # 0 /\ pool' = Disconnected(pool, uplink[c], natip[c])
        /\ uplink' = [uplink EXCEPT ![c] = 0] /\ hisip' = [hisip EXCEPT ![c] = 0]
    BY <1>4 DEF session_disconnect
  <2>3. uplink[c] \in Members /\ natip[c] \in 0 .. Dyn  BY <1>2, <2>2, LinkIs
  <2>4. TakenBack(pool, pool', uplink[c], natip[c])  BY <1>2, <2>2, <2>3, DisconnectedIs
  <2>5. d # c /\ uplink'[d] = uplink[d] /\ hisip'[d] = hisip[d]  BY <1>2, <2>1, <2>2
  <2>6. uplink[d] # 0 /\ uplink[d] # uplink[c]  BY <1>3, <2>1, <2>2, <2>5 DEF Owns
  <2>7. uplink[d] \in Members  BY <1>2, <2>6, LinkIs
  <2>8. /\ pool.m[uplink[d]].in_use /\ pool.m[uplink[d]].peer = d
        /\ pool.m[uplink[d]].addr = hisip[d]
    BY <1>3, <2>6 DEF Owns
  <2>9. ~Anyip  OBVIOUS
  <2>10. /\ pool'.m[uplink[d]].in_use
         /\ pool'.m[uplink[d]].addr = pool.m[uplink[d]].addr
         /\ pool'.m[uplink[d]].peer = pool.m[uplink[d]].peer
    BY <2>4, <2>6, <2>7, <2>8, <2>9 DEF TakenBack
  <2> QED BY <2>5, <2>8, <2>10
<1>5. ASSUME NEW c \in Clients, NEW a \in 0 .. MaxAddr, cb_dhcp_request(c, a), NEW d \in Clients
      PROVE  Owns(d)'
  <2> DEFINE got == newip(a)
             his == got.pool.m[got.m].addr
             mine == PeerSet(got.pool, got.m, c)
  <2>1. /\ uplink[c] = 0 /\ got.m # 0 /\ pool' = mine
        /\ uplink' = [uplink EXCEPT ![c] = got.m] /\ hisip' = [hisip EXCEPT ![c] = his]
    BY <1>5 DEF cb_dhcp_request, NeedsNat, PeerSet
  <2> HIDE DEF got, mine
  <2>2. /\ got.m \in Members /\ Sound(got.pool) /\ GivenOut(pool, got.pool, got.m)
        /\ ~pool.m[got.m].in_use
    BY <1>2, <2>1, GotIs DEF got
  <2>3. \A x \in Members : /\ mine.m[x].addr = got.pool.m[x].addr
                           /\ mine.m[x].in_use = got.pool.m[x].in_use
                           /\ mine.m[x].peer = IF x = got.m THEN c ELSE got.pool.m[x].peer
    BY <2>2, SetPeer DEF mine
  <2>4. CASE d = c
    <3>1. uplink'[d] = got.m /\ hisip'[d] = his  BY <1>2, <2>1, <2>4
    <3> QED BY <2>1, <2>2, <2>3, <2>4, <3>1, ZenonT(40) DEF Owns, GivenOut
  <2>5. CASE d # c
    <3>1. uplink'[d] = uplink[d] /\ hisip'[d] = hisip[d]  BY <1>2, <2>1, <2>5
    <3>2. SUFFICES ASSUME uplink[d] # 0
                   PROVE  /\ pool'.m[uplink[d]].in_use /\ pool'.m[uplink[d]].peer = d
                          /\ pool'.m[uplink[d]].addr = hisip[d]
      BY <3>1 DEF Owns
    <3>3. uplink[d] \in Members /\ uplink[d] # got.m  BY <1>2, <1>3, <2>2, <3>2, LinkIs DEF Owns
    <3>4. /\ pool.m[uplink[d]].in_use /\ pool.m[uplink[d]].peer = d
          /\ pool.m[uplink[d]].addr = hisip[d]
      BY <1>3, <3>2 DEF Owns
    <3>5. /\ got.pool.m[uplink[d]].in_use /\ got.pool.m[uplink[d]].peer = d
          /\ got.pool.m[uplink[d]].addr = hisip[d]
      BY <2>2, <3>3, <3>4 DEF GivenOut
    <3> QED BY <2>1, <2>3, <3>3, <3>5
  <2> QED BY <2>4, <2>5
<1>6. CASE UNCHANGED vars
  <2>1. \A d \in Clients : Owns(d)'  BY <1>3, <1>6 DEF Owns, vars
  <2> QED BY <1>1, <2>1 DEF OwnInv
<1> QED BY <1>1, <1>4, <1>5, <1>6 DEF OwnInv, Next

\* What a connection owns is found under its address.
LEMMA OwnMeans == ASSUME ConstAssumption, OwnInv PROVE OwnAddress /\ AvailableIsFree
<1>1. ASSUME NEW c \in Clients, uplink[c] # 0
      PROVE  /\ ippool_getip(pool, hisip[c]) = uplink[c] /\ pool.m[uplink[c]].peer = c
             /\ pool.m[uplink[c]].in_use
  <2>1. /\ pool.m[uplink[c]].in_use /\ pool.m[uplink[c]].peer = c
        /\ pool.m[uplink[c]].addr = hisip[c]
    BY <1>1 DEF OwnInv, Owns
  <2>2. uplink[c] \in Members /\ hisip[c] \in Nat /\ HashSound(pool)
    BY <1>1, LinkIs DEF OwnInv, PoolInv, Sound, ConstAssumption
  <2>3. Found(pool, hisip[c]) = uplink[c]  BY <2>1, <2>2, FoundIs DEF Hashed
  <2> QED BY <1>1, <2>1, <2>3 DEF ippool_getip
<1> QED BY <1>1 DEF OwnAddress, AvailableIsFree

\* Without uamanyip a client's address leads to its member and to its connection as long as
\* the connection lasts (cb_dhcp_request, session_disconnect), so that two connections never
\* have the same one, and what is marked available is nobody's.
THEOREM AddressIsOwn ==
  ASSUME ConstAssumption, ~Anyip PROVE Spec => [](OwnAddress /\ AvailableIsFree)
<1>1. Init => OwnInv  BY InitInv DEF OwnInv, Owns, Init
<1>2. OwnInv /\ [Next]_vars => OwnInv'  BY OwnNext
<1>3. OwnInv => OwnAddress /\ AvailableIsFree  BY OwnMeans
<1> QED BY <1>1, <1>2, <1>3, PTL DEF Spec

---------------------------------------------------------------------------
(* The addresses that ippool_new gives out *)

\* Where the addresses begin; one is left out when the hotspot's own is met.
Begin == IF start <= 0 THEN 1 ELSE start
Shifted(i) == IF Begin <= uamlisten /\ uamlisten <= i + Begin THEN Begin + 1 ELSE Begin

\* The counter start of the loop in ippool_new, in closed form.
LEMMA StartAtIs ==
  ASSUME New!ConstAssumption, OneListen, New!Settings
  PROVE  \A i \in 0 .. Hosts : New!StartAt[i] = Shifted(i)
<1>0. /\ Hosts \in Nat /\ Hosts > 3 /\ start \in Nat /\ uamlisten \in Nat
      /\ dhcplisten = uamlisten /\ Begin \in Nat
  BY DEF New!ConstAssumption, New!Settings, New!Host, Begin
<1> DEFINE F(s) == [i \in 0 .. Hosts |->
                      LET before == IF i = 0 THEN (IF start <= 0 THEN 1 ELSE start) ELSE s[i - 1]
                      IN  IF New!Reserved(i + before) THEN before + 1 ELSE before]
           g == [i \in 0 .. Hosts |-> Shifted(i)]
           h == CHOOSE s : s = F(s)
<1>1. New!StartAt = h  BY DEF New!StartAt
<1>2. g = F(g)
  <2>1. ASSUME NEW i \in 0 .. Hosts
        PROVE  g[i] = LET before == IF i = 0 THEN Begin ELSE g[i - 1]
                      IN  IF New!Reserved(i + before) THEN before + 1 ELSE before
    <3>1. CASE i = 0  BY <1>0, <3>1 DEF Shifted, New!Reserved
    <3>2. CASE i # 0
      <4>1. i - 1 \in 0 .. Hosts /\ i \in Nat  BY <1>0, <3>2
      <4>2. g[i - 1] = Shifted(i - 1) /\ g[i] = Shifted(i)  BY <4>1
      <4>3. Shifted(i) = IF i + Shifted(i - 1) = uamlisten THEN Shifted(i - 1) + 1
                         ELSE Shifted(i - 1)
        BY <1>0, <3>2, <4>1 DEF Shifted
      <4> QED BY <1>0, <3>2, <4>2, <4>3 DEF New!Reserved
    <3> QED BY <3>1, <3>2
  <2> HIDE DEF g
  <2>2. g = [i \in 0 .. Hosts |-> g[i]]  BY DEF g
  <2> QED BY <2>1, <2>2 DEF Begin
<1>3. h = F(h)
  <2> HIDE DEF F, g
  <2> QED BY <1>2
<1> HIDE DEF h
<1>4. \A i \in 0 .. Hosts :
        h[i] = LET before == IF i = 0 THEN Begin ELSE h[i - 1]
               IN  IF New!Reserved(i + before) THEN before + 1 ELSE before
  <2>1. \A i \in 0 .. Hosts : h[i] = F(h)[i]  BY <1>3
  <2> QED BY <2>1 DEF Begin
<1> DEFINE T == {i \in Nat : i <= Hosts => h[i] = Shifted(i)}
<1>5. 0 \in T
  <2>1. h[0] = IF New!Reserved(0 + Begin) THEN Begin + 1 ELSE Begin  BY <1>0, <1>4
  <2> QED BY <1>0, <2>1 DEF Shifted, New!Reserved
<1>6. ASSUME NEW i \in Nat, i \in T PROVE i + 1 \in T
  <2>1. SUFFICES ASSUME i + 1 <= Hosts PROVE h[i + 1] = Shifted(i + 1)  OBVIOUS
  <2>2. i + 1 \in 0 .. Hosts /\ i + 1 # 0 /\ (i + 1) - 1 = i /\ i <= Hosts  BY <1>0, <2>1
  <2>3. h[i] = Shifted(i)  BY <1>6, <2>2
  <2>4. h[i + 1] = IF New!Reserved(i + 1 + h[i]) THEN h[i] + 1 ELSE h[i]
    BY <1>4, <2>2
  <2>5. Shifted(i + 1) = IF i + 1 + Shifted(i) = uamlisten THEN Shifted(i) + 1 ELSE Shifted(i)
    BY <1>0 DEF Shifted
  <2> QED BY <1>0, <2>3, <2>4, <2>5 DEF New!Reserved
<1>7. \A i \in Nat : i \in T
  <2> HIDE DEF T
  <2> QED BY <1>5, <1>6, Induction
<1> QED BY <1>0, <1>1, <1>7

\* A number below zero wraps to one for which there is no memory.
LEMMA Wraps ==
  ASSUME NEW U \in Nat \ {0}, NEW n \in -1 .. U - 1
  PROVE  n % U = IF n = -1 THEN U - 1 ELSE n
<1>1. n = U * (n \div U) + (n % U) /\ n % U \in 0 .. U - 1 /\ n \div U \in Int  OBVIOUS
<1> DEFINE q == n \div U
           r == n % U
<1>2. n = U * q + r /\ r \in 0 .. U - 1 /\ q \in Int  BY <1>1
<1> HIDE DEF q, r
<1>3. CASE q >= 1
  <2>1. U * q >= U  BY <1>3, <1>2
  <2> QED BY <1>2, <2>1
<1>4. CASE q <= -2
  <2>1. U * q <= U * (-2)  BY <1>4, <1>2
  <2> QED BY <1>2, <2>1
<1>5. CASE q = 0
  <2>1. n = r /\ n # -1  BY <1>2, <1>5
  <2> QED BY <2>1 DEF r
<1>6. CASE q = -1
  <2>1. n = r - U  BY <1>2, <1>6
  <2>2. n = -1 /\ r = U - 1  BY <1>2, <2>1
  <2> QED BY <2>2 DEF r
<1> QED BY <1>2, <1>3, <1>4, <1>5, <1>6

\* The last member is before the end.
LEMMA DynsizeIs ==
  ASSUME New!ConstAssumption, EndInside, New!Settings, New!Allocated
  PROVE  New!dynsize \in Nat /\ New!dynsize + Begin <= Hosts - 2
<1>0. /\ Hosts \in Nat /\ Hosts > 3 /\ UINT32 \in Nat /\ Hosts < UINT32 - 1
      /\ start \in Nat /\ start < Hosts /\ end \in Nat /\ end < Hosts - 1
      /\ start > 0 /\ end > 0 => start <= end
  BY DEF New!ConstAssumption, New!Settings, New!Host
<1> DEFINE n == IF start > 0 /\ end > 0 THEN end - start
                ELSE IF start > 0 THEN Hosts - start - 1 - 1
                ELSE IF end > 0 THEN (IF Hosts > end THEN end ELSE Hosts) - 1 - 1
                ELSE Hosts - 2 - 1
<1>1. New!dynsize = n % UINT32  BY DEF New!dynsize
<1>2. n \in Int /\ n >= -1 /\ n < UINT32 /\ n + Begin <= Hosts - 2  BY <1>0 DEF Begin
<1> HIDE DEF n
<1>3. n % UINT32 = IF n = -1 THEN UINT32 - 1 ELSE n
  <2>1. UINT32 \in Nat \ {0} /\ n \in -1 .. UINT32 - 1  BY <1>0, <1>2
  <2> QED BY <2>1, Wraps
<1>4. CASE n = -1
  <2>1. n % UINT32 = UINT32 - 1  BY <1>4, <1>3
  <2> QED BY <1>0, <1>1, <2>1 DEF New!Allocated
<1>5. CASE n # -1
  <2>1. n \in 0 .. UINT32 - 1  BY <1>0, <1>2, <1>5
  <2>2. n % UINT32 = n  BY <1>5, <1>3
  <2> QED BY <1>0, <1>1, <1>2, <2>1, <2>2
<1> QED BY <1>4, <1>5

\* Each address is larger than the one before, and none is the hotspot's.
LEMMA SettingsMean ==
  ASSUME New!ConstAssumption, OneListen, EndInside, New!Settings
  PROVE  New!UsableAddresses /\ New!SkipsUamlisten
<1>0. Hosts \in Nat /\ uamlisten \in Nat /\ Begin \in Nat /\ Begin > 0
  BY DEF New!ConstAssumption, New!Settings, New!Host, Begin
<1>1. SUFFICES ASSUME New!Allocated
               PROVE  /\ New!Pool \subseteq 1 .. Hosts - 2 /\ uamlisten \notin New!Pool
                      /\ \A i, j \in 0 .. New!dynsize - 1 :
                           i # j => New!Member(i) # New!Member(j)
  BY DEF New!UsableAddresses, New!SkipsUamlisten
<1> DEFINE n == New!dynsize
<1>2. n \in Nat /\ n + Begin <= Hosts - 2  BY <1>1, DynsizeIs
<1> HIDE DEF n
<1>3. ASSUME NEW i \in 0 .. n - 1 PROVE New!Member(i) = i + Shifted(i)
  <2>1. i \in 0 .. Hosts  BY <1>0, <1>2
  <2> QED BY <2>1, StartAtIs DEF New!Member
<1>4. ASSUME NEW i \in 0 .. n - 1
      PROVE  i + Shifted(i) \in 1 .. Hosts - 2 /\ i + Shifted(i) # uamlisten
  BY <1>0, <1>2 DEF Shifted
<1>5. ASSUME NEW i \in 0 .. n - 1, NEW j \in 0 .. n - 1, i # j
      PROVE  i + Shifted(i) # j + Shifted(j)
  BY <1>0, <1>2, <1>5 DEF Shifted
<1>6. New!Pool = {New!Member(i) : i \in 0 .. n - 1}  BY DEF New!Pool, n
<1>7. ASSUME NEW i \in 0 .. n - 1
      PROVE  New!Member(i) \in 1 .. Hosts - 2 /\ New!Member(i) # uamlisten
  BY <1>3, <1>4
<1>8. New!Pool \subseteq 1 .. Hosts - 2 /\ uamlisten \notin New!Pool  BY <1>6, <1>7
<1>9. ASSUME NEW i \in 0 .. n - 1, NEW j \in 0 .. n - 1, i # j
      PROVE  New!Member(i) # New!Member(j)
  <2>1. New!Member(i) = i + Shifted(i) /\ New!Member(j) = j + Shifted(j)  BY <1>3
  <2> QED BY <1>5, <1>9, <2>1
<1> QED BY <1>8, <1>9 DEF n

\* For every size of the subnet and every setting of dhcpstart, dhcpend and uamlisten, each
\* member that ippool_new makes has an address of its own that a client can use, and none has
\* the one the hotspot listens at.  With a second such address (dhcplisten) next to the first,
\* or with dhcpend at the broadcast address, this is not so.
THEOREM RangeUsable ==
  ASSUME New!ConstAssumption, OneListen, EndInside
  PROVE  New!Spec => [](New!UsableAddresses /\ New!SkipsUamlisten)
<1>1. New!Init => New!Settings
  BY DEF New!Init, New!Settings, New!Host, New!ConstAssumption
<1>2. New!Settings /\ [New!Next]_New!vars => New!Settings'
  <2>1. CASE New!Next  BY <2>1 DEF New!Next
  <2>2. CASE UNCHANGED New!vars
    BY <2>2 DEF New!vars, New!Settings, New!Host
  <2> QED BY <2>1, <2>2
<1>3. New!Settings => New!UsableAddresses /\ New!SkipsUamlisten  BY SettingsMean
<1> QED BY <1>1, <1>2, <1>3, PTL DEF New!Spec
=============================================================================
