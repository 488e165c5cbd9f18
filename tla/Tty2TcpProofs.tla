--------------------------- MODULE Tty2TcpProofs ---------------------------
(***************************************************************************)
(* Theorems about Tty2Tcp, for every width of the indices, every size of   *)
(* the ring buffers, every kind of ends and every number of descriptors.   *)
(***************************************************************************)
EXTENDS Tty2Tcp, FiniteSetTheorems, WellFoundedInduction, TLAPS

---------------------------------------------------------------------------
(* Natural numbers *)

\* A set of natural numbers has a least one.
LEMMA Least ==
  ASSUME NEW T \in SUBSET Nat, T # {}
  PROVE  \E x \in T : \A y \in T : x <= y
<1>1. PICK x \in T : \A y \in T : ~ (<<y, x>> \in OpToRel(<, Nat))
  BY WFMin, NatLessThanWellFounded
<1>2. \A n, m \in Nat : <<m, n>> \in OpToRel(<, Nat) <=> m < n  BY DEF OpToRel
<1> HIDE DEF OpToRel
<1>3. ASSUME NEW y \in T PROVE x <= y
  <2>1. x \in Nat /\ y \in Nat  OBVIOUS
  <2>2. ~ (y < x)  BY <1>1, <1>2, <2>1
  <2> QED BY <2>1, <2>2
<1> QED BY <1>3

\* Induction up to a bound, with a set for the predicate.
LEMMA UpTo ==
  ASSUME NEW N \in Nat, NEW T, 0 \in T, \A n \in 0..N-1 : n \in T => n + 1 \in T
  PROVE  \A n \in 0..N : n \in T
<1> DEFINE B == {n \in 0..N : n \notin T}
<1> SUFFICES ASSUME B # {} PROVE FALSE  OBVIOUS
<1>1. B \in SUBSET Nat  OBVIOUS
<1>2. PICK x \in B : \A y \in B : x <= y
  <2> HIDE DEF B
  <2> QED BY <1>1, Least
<1>3. x \in 0..N /\ x # 0 /\ x \notin T  OBVIOUS
<1>4. x - 1 \in 0..N-1 /\ (x - 1) + 1 = x /\ ~ (x <= x - 1) /\ x - 1 \in 0..N  BY <1>3
<1>5. x - 1 \in T  BY <1>2, <1>4
<1> QED BY <1>3, <1>4, <1>5

\* A recursion up to a bound has a solution.
LEMMA Recursion ==
  ASSUME NEW N \in Nat, NEW a \in Nat, NEW h \in [0..N-1 -> [Nat -> Nat]]
  PROVE  \E g \in [0..N -> Nat] : g[0] = a /\ \A b \in 0..N-1 : g[b+1] = h[b][g[b]]
<1> DEFINE Solves(g, n) == g[0] = a /\ \A b \in 0..n-1 : g[b+1] = h[b][g[b]]
           T == {n \in 0..N : \E g \in [0..n -> Nat] : Solves(g, n)}
<1>1. 0 \in T
  <2> DEFINE g == [x \in 0..0 |-> a]
  <2>1. g \in [0..0 -> Nat] /\ Solves(g, 0) /\ 0 \in 0..N  OBVIOUS
  <2> HIDE DEF g, Solves
  <2>2. \E f \in [0..0 -> Nat] : Solves(f, 0)  BY <2>1
  <2> QED BY <2>1, <2>2
<1>2. ASSUME NEW n \in 0..N-1, n \in T PROVE n + 1 \in T
  <2>1. PICK g \in [0..n -> Nat] : Solves(g, n)  BY <1>2
  <2>2. n \in Nat /\ n + 1 \in 0..N /\ n \in 0..n /\ h[n] \in [Nat -> Nat] /\ (n + 1) - 1 = n
    OBVIOUS
  <2>3. g[n] \in Nat  BY <2>2
  <2>4. h[n][g[n]] \in Nat  BY <2>2, <2>3
  <2> DEFINE f == [x \in 0..n+1 |-> IF x = n + 1 THEN h[n][g[n]] ELSE g[x]]
  <2>5. \A x \in 0..n+1 : x # n + 1 => x \in 0..n /\ g[x] \in Nat  BY <2>2, SMTT(30)
  <2>6. f \in [0..n+1 -> Nat]  BY <2>4, <2>5
  <2>7. f[0] = a  BY <2>1, <2>2
  <2>8. ASSUME NEW b \in 0..n PROVE f[b+1] = h[b][f[b]]
    <3>1. f[b] = g[b] /\ b \in 0..n+1 /\ b + 1 \in 0..n+1  BY <2>2
    <3>2. CASE b = n  BY <3>1, <3>2
    <3>3. CASE b # n
      <4>1. b \in 0..n-1 /\ b + 1 # n + 1  BY <2>2, <3>3
      <4>2. f[b+1] = g[b+1]  BY <3>1, <4>1
      <4> QED BY <2>1, <3>1, <4>1, <4>2
    <3> QED BY <3>2, <3>3
  <2> HIDE DEF f
  <2>9. Solves(f, n + 1)  BY <2>2, <2>7, <2>8
  <2> QED BY <2>2, <2>6, <2>9
<1> HIDE DEF T
<1>3. N \in T
  <2>1. \A n \in 0..N : n \in T  BY <1>1, <1>2, UpTo
  <2> QED BY <2>1
<1> QED BY <1>3 DEF T

\* What Two is.
LEMMA TwoIs ==
  /\ Two \in [0..W -> Nat] /\ Two[0] = 1
  /\ \A b \in 0..W-1 : b \in 0..W /\ b + 1 \in 0..W /\ Two[b+1] = 2 * Two[b]
<1>0. W \in Nat  BY ConstAssumption
<1> DEFINE h == [b \in 0..W-1 |-> [x \in Nat |-> 2 * x]]
           F(f) == [b \in 0..W |-> IF b = 0 THEN 1 ELSE 2 * f[b - 1]]
<1>1. h \in [0..W-1 -> [Nat -> Nat]]  OBVIOUS
<1>2. PICK g \in [0..W -> Nat] : g[0] = 1 /\ \A b \in 0..W-1 : g[b+1] = h[b][g[b]]
  <2> HIDE DEF h
  <2>1. 1 \in Nat  OBVIOUS
  <2>2. \E g \in [0..W -> Nat] : g[0] = 1 /\ \A b \in 0..W-1 : g[b+1] = h[b][g[b]]
    BY <1>0, <1>1, <2>1, Recursion, ZenonT(40)
  <2> QED BY <2>2
<1>3. g = F(g)
  <2>1. ASSUME NEW b \in 0..W PROVE g[b] = IF b = 0 THEN 1 ELSE 2 * g[b - 1]
    <3>1. CASE b = 0  BY <1>2, <3>1
    <3>2. CASE b # 0
      <4>1. b - 1 \in 0..W-1 /\ (b - 1) + 1 = b /\ b - 1 \in 0..W  BY <1>0, <3>2
      <4>2. g[b] = h[b-1][g[b-1]]  BY <1>2, <4>1
      <4> QED BY <3>2, <4>1, <4>2
    <3> QED BY <3>1, <3>2
  <2>2. g = [b \in 0..W |-> g[b]]  OBVIOUS
  <2> HIDE DEF h
  <2> QED BY <2>1, <2>2
<1>4. Two = CHOOSE f : f = F(f)  BY DEF Two
<1>5. Two = F(Two)
  <2> HIDE DEF F
  <2> QED BY <1>3, <1>4
<1> HIDE DEF Two
<1>6. \A b \in 0..W : Two[b] = IF b = 0 THEN 1 ELSE 2 * Two[b-1]  BY <1>5
<1>7. DOMAIN Two = 0..W /\ Two = [b \in 0..W |-> Two[b]]  BY <1>5
<1>8. Two[0] = 1  BY <1>0, <1>6
<1>9. ASSUME NEW b \in 0..W-1 PROVE b \in 0..W /\ b + 1 \in 0..W /\ Two[b+1] = 2 * Two[b]
  <2>1. b \in 0..W /\ b + 1 \in 0..W /\ b + 1 # 0 /\ (b + 1) - 1 = b  BY <1>0
  <2> QED BY <1>6, <2>1
<1>10. \A b \in 0..W : b \in {x \in 0..W : Two[x] \in Nat}
  <2> DEFINE T == {x \in 0..W : Two[x] \in Nat}
  <2>1. 0 \in T  BY <1>0, <1>8
  <2>2. \A n \in 0..W-1 : n \in T => n + 1 \in T  BY <1>9
  <2> HIDE DEF T
  <2>3. \A n \in 0..W : n \in T  BY <1>0, <2>1, <2>2, UpTo
  <2> QED BY <2>3 DEF T
<1> QED BY <1>7, <1>8, <1>9, <1>10

\* The width of the indices; zero and W are among the exponents.
LEMMA WidthType == W \in Nat /\ 0 \in 0..W /\ W \in 0..W
BY ConstAssumption

\* Division with remainder, and that it is unique.
LEMMA Division ==
  ASSUME NEW M \in Nat \ {0}, NEW x \in Int
  PROVE  x = M * (x \div M) + (x % M) /\ x % M \in 0..M-1 /\ x \div M \in Int
OBVIOUS

LEMMA DivisionIs ==
  ASSUME NEW M \in Nat \ {0}, NEW q \in Int, NEW r \in 0..M-1
  PROVE  (M * q + r) % M = r /\ (M * q + r) \div M = q
OBVIOUS

\* A remainder moves on by n, or back by n, and at most one multiple drops out.
LEMMA ModPlus ==
  ASSUME NEW M \in Nat \ {0}, NEW x \in 0..M-1, NEW n \in 0..M
  PROVE  (x + n) % M = IF x + n < M THEN x + n ELSE x + n - M
OBVIOUS

LEMMA ModMinus ==
  ASSUME NEW M \in Nat \ {0}, NEW x \in 0..M-1, NEW y \in 0..M-1
  PROVE  (x - y) % M = IF x >= y THEN x - y ELSE x - y + M
OBVIOUS

LEMMA ModAdds ==
  ASSUME NEW M \in Nat \ {0}, NEW x \in Int, NEW y \in Int
  PROVE  ((x % M) + y) % M = (x + y) % M
<1> DEFINE q == x \div M
           r == x % M
           p == (r + y) \div M
           s == (r + y) % M
<1>1. x = M * q + r /\ r \in 0..M-1 /\ q \in Int  BY Division
<1>2. r + y \in Int  BY <1>1
<1>3. r + y = M * p + s /\ s \in 0..M-1 /\ p \in Int
  <2> HIDE DEF r
  <2> QED BY <1>2, Division
<1> HIDE DEF q, r, p, s
<1>4. x + y = M * (q + p) + s  BY <1>1, <1>3
<1>5. (M * (q + p) + s) % M = s
  <2>1. q + p \in Int  BY <1>1, <1>3
  <2> QED BY <1>3, <2>1, DivisionIs
<1>6. (x + y) % M = s  BY <1>4, <1>5
<1> QED BY <1>6 DEF r, s

\* A modulus that divides another one.
LEMMA ModMod ==
  ASSUME NEW S \in Nat \ {0}, NEW c \in Nat \ {0}, NEW x \in Int
  PROVE  (x % (S * c)) % S = x % S
<1> DEFINE M == S * c
           q == x \div M
           r == x % M
           p == r \div S
           s == r % S
<1>1. M \in Nat \ {0}  OBVIOUS
<1>2. x = M * q + r /\ r \in Int /\ q \in Int
  <2> HIDE DEF M
  <2> QED BY <1>1, Division
<1>3. r = S * p + s /\ s \in 0..S-1 /\ p \in Int
  <2> HIDE DEF r
  <2> QED BY <1>2, Division
<1> HIDE DEF q, r, p, s
<1>4. x = S * (c * q + p) + s
  <2>1. M * q = S * (c * q)  BY <1>2
  <2>2. S * (c * q + p) = S * (c * q) + S * p  BY <1>2, <1>3
  <2> HIDE DEF M
  <2>3. M * q \in Int /\ S * (c * q) \in Int /\ S * p \in Int  BY <1>1, <1>2, <1>3
  <2> QED BY <1>2, <1>3, <2>1, <2>2, <2>3
<1>5. c * q + p \in Int  BY <1>2, <1>3
<1>6. x % S = s  BY <1>3, <1>4, <1>5, DivisionIs
<1> QED BY <1>6 DEF s, r

\* A power of two divides the larger ones.
LEMMA TwoDivides ==
  ASSUME NEW k \in 0..W, NEW b \in 0..k
  PROVE  Two[b] \in Nat \ {0} /\ \E c \in Nat \ {0} : Two[k] = Two[b] * c
<1> DEFINE P == {n \in 0..W : Two[n] \in Nat \ {0}}
           D == {n \in 0..W : \A i \in 0..n : \E c \in Nat \ {0} : Two[n] = Two[i] * c}
<1>1. \A n \in 0..W : n \in P
  <2>1. 0 \in P  BY TwoIs, WidthType
  <2>2. \A n \in 0..W-1 : n \in P => n + 1 \in P  BY TwoIs
  <2> HIDE DEF P
  <2> QED BY <2>1, <2>2, UpTo, WidthType
<1>2. 0 \in D
  <2>1. \A i \in 0..0 : Two[0] = Two[i] * 1  BY TwoIs
  <2> QED BY <2>1, WidthType
<1>3. ASSUME NEW n \in 0..W-1, n \in D PROVE n + 1 \in D
  <2> SUFFICES ASSUME NEW i \in 0..n+1 PROVE \E c \in Nat \ {0} : Two[n+1] = Two[i] * c
    BY TwoIs
  <2>1. n + 1 \in 0..W /\ Two[n+1] = 2 * Two[n] /\ Two[n+1] \in Nat /\ Two[n] \in Nat
    BY TwoIs
  <2>2. CASE i = n + 1
    <3>1. Two[n+1] = Two[i] * 1  BY <2>1, <2>2
    <3> QED BY <3>1
  <2>3. CASE i # n + 1
    <3>1. i \in 0..n  BY <2>3
    <3>2. PICK c \in Nat \ {0} : Two[n] = Two[i] * c  BY <1>3, <3>1
    <3>3. Two[i] \in Nat /\ 2 * c \in Nat \ {0}
      <4>1. i \in 0..W  BY <3>1, WidthType
      <4> QED BY <4>1, TwoIs
    <3>4. 2 * (Two[i] * c) = Two[i] * (2 * c)  BY <3>3
    <3> QED BY <2>1, <3>2, <3>3, <3>4
  <2> QED BY <2>2, <2>3
<1> HIDE DEF D
<1>4. k \in D  BY <1>2, <1>3, UpTo, WidthType
<1>5. b \in 0..W  BY WidthType
<1> QED BY <1>1, <1>4, <1>5 DEF D, P
---------------------------------------------------------------------------
(* Bitwise and *)

\* AndBits adds up the bits in common.
LEMMA AndBitsIs ==
  ASSUME NEW m, NEW n
  PROVE  \E low \in [0..W -> Nat] :
           /\ low[0] = 0 /\ AndBits(m, n) = low[W]
           /\ \A b \in 0..W-1 :
                low[b+1] = low[b] + IF Bit(m, b) = 1 /\ Bit(n, b) = 1 THEN Two[b] ELSE 0
<1> DEFINE A(b) == IF Bit(m, b) = 1 /\ Bit(n, b) = 1 THEN Two[b] ELSE 0
           h == [b \in 0..W-1 |-> [x \in Nat |-> x + A(b)]]
           F(f) == [b \in 0..W |-> IF b = 0 THEN 0 ELSE f[b-1] + A(b-1)]
           low == CHOOSE f : f = F(f)
<1>1. ASSUME NEW b \in 0..W-1 PROVE A(b) \in Nat /\ b \in 0..W
  <2>1. Two[b] \in Nat /\ b \in 0..W  BY TwoIs
  <2> QED BY <2>1
<1>2. AndBits(m, n) = low[W]  BY DEF AndBits
<1> HIDE DEF A
<1>3. h \in [0..W-1 -> [Nat -> Nat]]  BY <1>1
<1>4. \E g \in [0..W -> Nat] : g[0] = 0 /\ \A b \in 0..W-1 : g[b+1] = h[b][g[b]]
  <2> HIDE DEF h
  <2>1. 0 \in Nat  OBVIOUS
  <2> QED BY <1>3, <2>1, Recursion, WidthType, ZenonT(40)
<1>5. PICK g \in [0..W -> Nat] : g[0] = 0 /\ \A b \in 0..W-1 : g[b+1] = h[b][g[b]]
  BY <1>4
<1>6. \A b \in 0..W-1 : g[b+1] = g[b] + A(b)  BY <1>1, <1>5
<1>7. g = F(g)
  <2>1. ASSUME NEW b \in 0..W PROVE g[b] = IF b = 0 THEN 0 ELSE g[b-1] + A(b-1)
    <3>1. CASE b = 0  BY <1>5, <3>1
    <3>2. CASE b # 0
      <4>1. b - 1 \in 0..W-1 /\ (b - 1) + 1 = b  BY WidthType, <3>2
      <4> QED BY <1>6, <3>2, <4>1
    <3> QED BY <3>1, <3>2
  <2>2. g = [b \in 0..W |-> g[b]]  OBVIOUS
  <2> QED BY <2>1, <2>2
<1>8. low = F(low)
  <2> HIDE DEF F
  <2> QED BY <1>7
<1> HIDE DEF low, h
<1>9. \A b \in 0..W : low[b] = IF b = 0 THEN 0 ELSE low[b-1] + A(b-1)  BY <1>8
<1>10. low[0] = 0  BY <1>9, WidthType
<1>11. ASSUME NEW b \in 0..W-1 PROVE low[b+1] = low[b] + A(b)
  <2>1. b + 1 \in 0..W /\ b + 1 # 0 /\ (b + 1) - 1 = b  BY WidthType
  <2> QED BY <1>9, <2>1
<1>12. low \in [0..W -> Nat]
  <2> DEFINE T == {b \in 0..W : low[b] \in Nat}
  <2>1. 0 \in T  BY <1>10, WidthType
  <2>2. ASSUME NEW b \in 0..W-1, b \in T PROVE b + 1 \in T
    <3>1. b + 1 \in 0..W  BY WidthType
    <3> QED BY <1>1, <1>11, <2>2, <3>1
  <2> HIDE DEF T
  <2>3. \A b \in 0..W : b \in T  BY <2>1, <2>2, UpTo, WidthType
  <2>4. low = [b \in 0..W |-> low[b]]  BY <1>8
  <2> QED BY <2>3, <2>4 DEF T
<1> QED BY <1>2, <1>10, <1>11, <1>12 DEF A

\* The masked index is a number.
LEMMA AndType == \A m, n \in Word : And(m, n) \in Nat
<1> SUFFICES ASSUME NEW m \in Word, NEW n \in Word PROVE And(m, n) \in Nat  OBVIOUS
<1>1. And(m, n) = AndBits(m, n)  BY DEF And, AndTable
<1> QED BY <1>1, AndBitsIs, WidthType

\* The lower bits of 2^k - 1 are set and the others are not.
LEMMA MaskBit ==
  ASSUME NEW k \in 0..W, NEW b \in 0..W
  PROVE  Bit(Two[k] - 1, b) = IF b < k THEN 1 ELSE 0
<1> DEFINE t == Two[b]
<1>0. k \in Nat /\ b \in Nat /\ k \in 0..W /\ t \in Nat \ {0} /\ Two[k] \in Nat \ {0}
  BY TwoDivides, WidthType
<1>1. CASE b < k
  <2>1. b \in 0..W-1 /\ b + 1 \in 0..k  BY <1>0, <1>1, WidthType
  <2>2. Two[b+1] = 2 * t  BY <2>1, TwoIs
  <2>3. PICK c \in Nat \ {0} : Two[k] = Two[b+1] * c  BY <2>1, TwoDivides
  <2> HIDE DEF t
  <2>4. Two[k] - 1 = t * (2 * c - 1) + (t - 1)
    <3>1. (2 * t) * c = t * (2 * c - 1) + t  BY <1>0
    <3>2. t * (2 * c - 1) \in Int  BY <1>0
    <3> QED BY <1>0, <2>2, <2>3, <3>1, <3>2
  <2>5. 2 * c - 1 \in Int /\ t - 1 \in 0..t-1  BY <1>0
  <2>6. (t * (2 * c - 1) + (t - 1)) \div t = 2 * c - 1  BY <1>0, <2>5, DivisionIs
  <2>7. (2 * c - 1) % 2 = 1
    <3>1. 2 * c - 1 = 2 * (c - 1) + 1  OBVIOUS
    <3>2. (2 * (c - 1) + 1) % 2 = 1  BY DivisionIs
    <3> QED BY <3>1, <3>2
  <2> QED BY <1>1, <2>4, <2>6, <2>7 DEF Bit, t
<1>2. CASE ~ (b < k)
  <2>1. k \in 0..b  BY <1>0, <1>2
  <2>2. PICK c \in Nat \ {0} : t = Two[k] * c  BY <2>1, TwoDivides
  <2> HIDE DEF t
  <2>3. Two[k] <= t  BY <1>0, <2>2
  <2>4. Two[k] - 1 = t * 0 + (Two[k] - 1) /\ Two[k] - 1 \in 0..t-1  BY <1>0, <2>3
  <2>5. (t * 0 + (Two[k] - 1)) \div t = 0  BY <1>0, <2>4, DivisionIs
  <2>6. (Two[k] - 1) \div t = 0 /\ 0 % 2 = 0  BY <2>4, <2>5
  <2> QED BY <1>2, <2>6 DEF Bit, t
<1> QED BY <1>1, <1>2

\* One more bit.
LEMMA NextBit ==
  ASSUME NEW x \in Nat, NEW t \in Nat \ {0}
  PROVE  x % (2 * t) = (x % t) + IF (x \div t) % 2 = 1 THEN t ELSE 0
<1> DEFINE q == x \div t
           r == x % t
           p == q \div 2
           e == q % 2
<1>1. x = t * q + r /\ r \in 0..t-1 /\ q \in Int  BY Division
<1>2. q = 2 * p + e /\ e \in 0..1 /\ p \in Int
  <2> HIDE DEF q
  <2> QED BY <1>1, Division
<1> HIDE DEF q, r, p, e
<1>3. 2 * t \in Nat \ {0}  OBVIOUS
<1>4. CASE e = 1
  <2>1. t * q = (2 * t) * p + t  BY <1>2, <1>4
  <2>2. (2 * t) * p \in Int /\ t * q \in Int  BY <1>1, <1>2
  <2>3. x = (2 * t) * p + (r + t) /\ r + t \in 0..(2*t)-1  BY <1>1, <2>1, <2>2
  <2>4. ((2 * t) * p + (r + t)) % (2 * t) = r + t  BY <1>2, <1>3, <2>3, DivisionIs
  <2> QED BY <1>4, <2>3, <2>4 DEF q, r, e
<1>5. CASE e = 0
  <2>1. t * q = (2 * t) * p  BY <1>2, <1>5
  <2>2. (2 * t) * p \in Int /\ t * q \in Int  BY <1>1, <1>2
  <2>3. x = (2 * t) * p + r /\ r \in 0..(2*t)-1  BY <1>1, <2>1, <2>2
  <2>4. ((2 * t) * p + r) % (2 * t) = r  BY <1>2, <1>3, <2>3, DivisionIs
  <2>5. r + 0 = r  BY <1>1
  <2> QED BY <1>5, <2>3, <2>4, <2>5 DEF q, r, e
<1> QED BY <1>2, <1>4, <1>5

\* A size that is a power of two: masking is taking the remainder.
LEMMA Mask ==
  ASSUME NEW k \in 0..W, NEW x \in Word, Two[k] - 1 \in Word
  PROVE  And(x, Two[k] - 1) = x % Two[k]
<1> DEFINE n == Two[k] - 1
<1>0. x \in Nat /\ k \in Nat  BY WidthType DEF Word
<1>1. And(x, n) = AndBits(x, n)  BY DEF And, AndTable
<1>2. PICK low \in [0..W -> Nat] :
        /\ low[0] = 0 /\ AndBits(x, n) = low[W]
        /\ \A b \in 0..W-1 :
             low[b+1] = low[b] + IF Bit(x, b) = 1 /\ Bit(n, b) = 1 THEN Two[b] ELSE 0
  <2> HIDE DEF n
  <2> QED BY AndBitsIs
<1> DEFINE C == {b \in 0..W : low[b] = IF b <= k THEN x % Two[b] ELSE x % Two[k]}
<1>3. 0 \in C
  <2>1. x % 1 = 0  BY <1>0
  <2> QED BY <1>0, <1>2, <2>1, TwoIs, WidthType
<1>4. ASSUME NEW b \in 0..W-1, b \in C PROVE b + 1 \in C
  <2>1. /\ b \in 0..W /\ b + 1 \in 0..W /\ b \in Nat
        /\ Two[b+1] = 2 * Two[b] /\ Two[b] \in Nat \ {0} /\ Two[k] \in Nat \ {0}
    <3>1. b \in 0..W /\ b + 1 \in 0..W /\ b \in Nat /\ b \in 0..b /\ k \in 0..k
      BY WidthType
    <3>2. Two[b] \in Nat \ {0}  BY <3>1, TwoDivides
    <3>3. Two[k] \in Nat \ {0}  BY <3>1, TwoDivides
    <3> QED BY <3>1, <3>2, <3>3, TwoIs
  <2>2. Bit(n, b) = IF b < k THEN 1 ELSE 0  BY <2>1, MaskBit
  <2>3. low[b+1] = low[b] + IF Bit(x, b) = 1 /\ Bit(n, b) = 1 THEN Two[b] ELSE 0  BY <1>2
  <2> HIDE DEF n
  <2>4. CASE b < k
    <3>1. b <= k /\ b + 1 <= k  BY <1>0, <2>1, <2>4
    <3>2. low[b+1] = (x % Two[b]) + IF (x \div Two[b]) % 2 = 1 THEN Two[b] ELSE 0
      BY <1>4, <2>2, <2>3, <2>4, <3>1 DEF Bit
    <3>3. low[b+1] = x % Two[b+1]  BY <1>0, <2>1, <3>2, NextBit
    <3> QED BY <2>1, <3>1, <3>3
  <2>5. CASE ~ (b < k)
    <3>1. ~ (b + 1 <= k) /\ (b <= k => b = k)  BY <1>0, <2>1, <2>5
    <3>2. low[b+1] = low[b] + 0 /\ low[b] \in Nat  BY <2>1, <2>2, <2>3, <2>5
    <3>3. low[b] = x % Two[k]  BY <1>4, <3>1
    <3> QED BY <2>1, <3>1, <3>2, <3>3
  <2> QED BY <2>4, <2>5
<1> HIDE DEF C
<1>5. W \in C  BY <1>3, <1>4, UpTo, WidthType
<1>6. low[W] = x % Two[k]
  <2>1. k <= W /\ (W <= k => W = k)  BY <1>0, WidthType
  <2> QED BY <1>5, <2>1 DEF C
<1> QED BY <1>1, <1>2, <1>6
---------------------------------------------------------------------------
(* Types *)

\* The sizes of the ring buffers fit the indices.
LEMMA SizeType ==
  /\ Wrap \in Nat \ {0} /\ Word = 0..Wrap-1
  /\ \A d \in Ends : /\ Size[d] \in Nat /\ Size[d] >= 2 /\ Size[d] < Wrap
                     /\ Size[d] - 1 \in Word /\ Tags(d) = Size[d] + 1
<1>1. Wrap \in Nat  BY TwoIs, WidthType DEF Wrap
<1>2. Word = 0..Wrap-1  BY DEF Word
<1>3. \A d \in Ends : Size[d] \in 2..Wrap-1  BY ConstAssumption
<1> HIDE DEF Wrap
<1>4. \A d \in Ends : /\ Size[d] \in Nat /\ Size[d] >= 2 /\ Size[d] < Wrap
                      /\ Size[d] - 1 \in Word  BY <1>1, <1>2, <1>3
<1>5. Wrap # 0
  <2>1. 0 \in Ends  BY DEF Ends
  <2> QED BY <1>1, <1>4, <2>1
<1> QED BY <1>1, <1>2, <1>4, <1>5 DEF Tags

\* An index that moved is an index again.
LEMMA UnsignedType == \A n \in Int : Unsigned(n) \in Word /\ Unsigned(n) \in Nat
<1> SUFFICES ASSUME NEW n \in Int PROVE Unsigned(n) \in 0..Wrap-1  BY SizeType
<1> QED BY SizeType, Division DEF Unsigned

\* The lesser of two integers.
LEMMA MinIs ==
  ASSUME NEW a \in Int, NEW b \in Int
  PROVE  Min({a, b}) = IF a <= b THEN a ELSE b
<1>1. Min({a, b}) \in {a, b} /\ \A y \in {a, b} : Min({a, b}) <= y
  <2>1. \E x \in {a, b} : \A y \in {a, b} : x <= y  OBVIOUS
  <2> QED BY <2>1 DEF Min
<1> HIDE DEF Min
<1> QED BY <1>1

\* The kernel gives a descriptor that is not open.
LEMMA NewFdIs ==
  ASSUME FreeFds # {}
  PROVE  NewFd \in 0..MaxFd /\ NewFd \notin fds
<1>1. FreeFds \in SUBSET Nat  BY ConstAssumption DEF FreeFds
<1>2. \E x \in FreeFds : \A y \in FreeFds : x <= y
  <2> HIDE DEF FreeFds
  <2> QED BY <1>1, Least
<1>3. NewFd \in FreeFds  BY <1>2 DEF NewFd, Min
<1> QED BY <1>3 DEF FreeFds

\* The byte numbers of a direction.
LEMMA PlusType == \A d \in Ends : \A t, n \in Int : Plus(d, t, n) \in 0..Size[d]
<1> SUFFICES ASSUME NEW d \in Ends, NEW t \in Int, NEW n \in Int
             PROVE  Plus(d, t, n) \in 0..Size[d]
  OBVIOUS
<1>1. Tags(d) \in Nat \ {0} /\ Tags(d) - 1 = Size[d] /\ t + n \in Int  BY SizeType
<1>2. (t + n) % Tags(d) \in 0..Tags(d)-1  BY <1>1, Division
<1> QED BY <1>1, <1>2 DEF Plus

LEMMA RunType ==
  ASSUME NEW d \in Ends, NEW t \in Int, NEW n \in Nat
  PROVE  /\ Run(d, t, n) \in Seq(0..Size[d]) /\ Len(Run(d, t, n)) = n
         /\ \A k \in 1..n : Run(d, t, n)[k] = Plus(d, t, k - 1)
<1>1. \A k \in 1..n : Plus(d, t, k - 1) \in 0..Size[d]  BY PlusType
<1> QED BY <1>1 DEF Run

\* A function on 1..u is a sequence, also when u is negative.
LEMMA OnInterval ==
  ASSUME NEW u \in Int, NEW V, NEW h \in [1..u -> V]
  PROVE  h \in Seq(V) /\ Len(h) \in Nat /\ (u \in Nat => Len(h) = u)
<1>1. PICK n \in Nat : 1..u = 1..n /\ (u \in Nat => n = u)
  <2>1. CASE u >= 0  BY <2>1
  <2>2. CASE ~ (u >= 0)
    <3>1. 1..u = 1..0 /\ 0 \in Nat  BY <2>2
    <3> QED BY <2>2, <3>1
  <2> QED BY <2>1, <2>2
<1>2. h \in [1..n -> V]  BY <1>1
<1>3. h \in Seq(V)  BY <1>2
<1>4. Len(h) = n  BY <1>2, <1>3
<1> QED BY <1>1, <1>3, <1>4
---------------------------------------------------------------------------
(* Types of the ring buffer's operations, whatever its size *)

\* A fifo's parts.
LEMMA FifoParts ==
  ASSUME NEW d \in Ends, NEW f \in Fifos(d)
  PROVE  /\ f.in \in Word /\ f.out \in Word /\ f.mask = Size[d] - 1
         /\ f.in \in Nat /\ f.out \in Nat
         /\ f.data \in [0..Size[d]-1 -> 0..Size[d] \cup {Stale}]
         /\ InOff(f) \in Nat /\ OutOff(f) \in Nat /\ Fill(f) \in Nat
         /\ kfifo_used(f) \in Int
<1>1. /\ f.in \in Word /\ f.out \in Word /\ f.mask = Size[d] - 1
      /\ f.data \in [0..Size[d]-1 -> 0..Size[d] \cup {Stale}]
  BY DEF Fifos
<1>2. f.in \in Nat /\ f.out \in Nat /\ f.mask \in Word /\ Size[d] \in Nat  BY <1>1, SizeType
<1>3. InOff(f) \in Nat /\ OutOff(f) \in Nat  BY <1>1, <1>2, AndType DEF InOff, OutOff
<1>4. Fill(f) \in Nat
  <2>1. f.in - f.out \in Int  BY <1>2
  <2> QED BY <2>1, UnsignedType DEF Fill
<1>5. kfifo_used(f) \in Int
  <2>1. f.mask + 1 - OutOff(f) \in Int  BY <1>1, <1>2, <1>3
  <2>2. Fill(f) \in Int  BY <1>4
  <2>3. Min({Fill(f), f.mask + 1 - OutOff(f)})
          = IF Fill(f) <= f.mask + 1 - OutOff(f) THEN Fill(f) ELSE f.mask + 1 - OutOff(f)
    BY <2>1, <2>2, MinIs
  <2> QED BY <2>1, <2>2, <2>3 DEF kfifo_used
<1> QED BY <1>1, <1>2, <1>3, <1>4, <1>5

LEMMA AllocType == \A d \in Ends : kfifo_alloc(d) \in Fifos(d)
<1> SUFFICES ASSUME NEW d \in Ends PROVE kfifo_alloc(d) \in Fifos(d)  OBVIOUS
<1>1. 0 \in Word /\ Size[d] \in Nat  BY SizeType
<1> QED BY <1>1 DEF kfifo_alloc, Fifos

LEMMA InType ==
  ASSUME NEW d \in Ends, NEW f \in Fifos(d), NEW t \in Int, NEW n \in Nat
  PROVE  kfifo_in(f, Run(d, t, n)) \in Fifos(d)
<1> DEFINE b == Run(d, t, n)
           i == InOff(f)
           dat == [k \in DOMAIN f.data |-> IF k \in i..i + Len(b) - 1 THEN b[k-i+1] ELSE f.data[k]]
<1>1. Len(b) = n /\ \A k \in 1..n : b[k] \in 0..Size[d]  BY RunType, PlusType
<1>2. /\ f.in \in Nat /\ i \in Nat /\ DOMAIN f.data = 0..Size[d]-1
      /\ f.data \in [0..Size[d]-1 -> 0..Size[d] \cup {Stale}]
  BY FifoParts
<1>3. Unsigned(f.in + Len(b)) \in Word
  <2>1. f.in + Len(b) \in Int  BY <1>1, <1>2
  <2> QED BY <2>1, UnsignedType
<1> HIDE DEF b, i
<1>4. dat \in [0..Size[d]-1 -> 0..Size[d] \cup {Stale}]
  <2>1. ASSUME NEW k \in 0..Size[d]-1, k \in i..i + Len(b) - 1 PROVE b[k-i+1] \in 0..Size[d]
    <3>1. k - i + 1 \in 1..n  BY <1>1, <1>2, <2>1
    <3> QED BY <1>1, <3>1
  <2> QED BY <1>2, <2>1
<1>5. kfifo_in(f, b) = [f EXCEPT !.in = Unsigned(f.in + Len(b)), !.data = dat]
  BY DEF kfifo_in, i
<1> HIDE DEF dat
<1> QED BY <1>3, <1>4, <1>5 DEF b, Fifos

LEMMA OutType ==
  ASSUME NEW d \in Ends, NEW f \in Fifos(d), NEW n \in Int
  PROVE  kfifo_out(f, n) \in Fifos(d) /\ kfifo_reset(kfifo_out(f, n)) \in Fifos(d)
<1> DEFINE Gone(k) == \E j \in 0..n-1 : k = And(Unsigned(f.out + j), f.mask)
           dat == [k \in DOMAIN f.data |-> IF Gone(k) THEN Stale ELSE f.data[k]]
<1>1. /\ DOMAIN f.data = 0..Size[d]-1 /\ f.out \in Nat
      /\ f.data \in [0..Size[d]-1 -> 0..Size[d] \cup {Stale}]
  BY FifoParts
<1>2. Unsigned(f.out + n) \in Word
  <2>1. f.out + n \in Int  BY <1>1
  <2> QED BY <2>1, UnsignedType
<1>3. kfifo_out(f, n) = [f EXCEPT !.out = Unsigned(f.out + n), !.data = dat]
  BY DEF kfifo_out
<1> HIDE DEF Gone
<1>4. dat \in [0..Size[d]-1 -> 0..Size[d] \cup {Stale}]  BY <1>1
<1> HIDE DEF dat
<1>5. kfifo_out(f, n) \in Fifos(d)  BY <1>2, <1>3, <1>4 DEF Fifos
<1>6. 0 \in Word  BY SizeType
<1> QED BY <1>5, <1>6 DEF Fifos, kfifo_reset

\* What is handed to write is a sequence.
LEMMA ChunkType ==
  ASSUME NEW d \in Ends, NEW f \in Fifos(d)
  PROVE  Len(Chunk(f)) \in Nat
<1> DEFINE u == kfifo_used(f)
           i == InOff(f)
           first == [k \in 1..u |-> f.data[OutOff(f) + k - 1]]
           wrap  == [k \in 1..i |-> f.data[k - 1]]
           V == {first[k] : k \in 1..u}
           Z == {wrap[k] : k \in 1..i}
<1>1. u \in Int /\ i \in Int  BY FifoParts
<1>2. first \in Seq(V) /\ Len(first) \in Nat
  <2>1. first \in [1..u -> V]  OBVIOUS
  <2> HIDE DEF first, u, V
  <2> QED BY <1>1, <2>1, OnInterval
<1>3. wrap \in Seq(Z) /\ Len(wrap) \in Nat
  <2>1. wrap \in [1..i -> Z]  OBVIOUS
  <2> HIDE DEF wrap, i, Z
  <2> QED BY <1>1, <2>1, OnInterval
<1>4. Chunk(f) = IF 0 < InOff(f) /\ InOff(f) < OutOff(f) THEN first \o wrap ELSE first
  BY DEF Chunk
<1> HIDE DEF first, wrap, V, Z
<1>5. first \in Seq(V \cup Z) /\ wrap \in Seq(V \cup Z)  BY <1>2, <1>3
<1>6. Len(first \o wrap) = Len(first) + Len(wrap)  BY <1>5
<1> QED BY <1>2, <1>3, <1>4, <1>6
LEMMA UnusedType ==
  ASSUME NEW d \in Ends, NEW f \in Fifos(d)
  PROVE  kfifo_unused(f) \in Nat
<1>1. f.mask + 1 - Fill(f) \in Int /\ f.mask + 1 - InOff(f) \in Int
  BY SMTT(30), FifoParts, SizeType
<1> DEFINE a == Unsigned(f.mask + 1 - Fill(f))
           b == Unsigned(f.mask + 1 - InOff(f))
<1>2. a \in Nat /\ b \in Nat  BY <1>1, UnsignedType
<1>3. kfifo_unused(f) = Min({a, b})  BY DEF kfifo_unused
<1> HIDE DEF a, b
<1>4. a \in Int /\ b \in Int  BY <1>2
<1>5. Min({a, b}) = IF a <= b THEN a ELSE b  BY <1>4, MinIs
<1> QED BY <1>2, <1>3, <1>5
---------------------------------------------------------------------------
(* What a session changes: the fifos, the checkers and the poll results *)

DataOK ==
  /\ s_quit_flag \in 0..2
  /\ DOMAIN fifo = Ends /\ DOMAIN taken = Ends /\ DOMAIN given = Ends
  /\ \A d \in Ends : /\ fifo[d] \in Fifos(d)
                     /\ taken[d] \in 0..Size[d]
                     /\ given[d] \in 0..Size[d] \cup {Corrupt}
  /\ revents \in [Ends -> SUBSET {"in", "out", "hup"}]

\* The bytes of one read and of the read behind it, as Read takes them.
ReadOf(i, n, m) ==
  /\ n \in 1..kfifo_unused(fifo[i])
  /\ m \in 0..(IF n = kfifo_unused(fifo[i])
               THEN kfifo_unused(kfifo_in(fifo[i], Run(i, taken[i], n))) ELSE 0)
  /\ fifo' = [fifo EXCEPT ![i] =
                kfifo_in(kfifo_in(fifo[i], Run(i, taken[i], n)), Run(i, taken[i] + n, m))]
  /\ taken' = [taken EXCEPT ![i] = Plus(i, taken[i], n + m)]
  /\ UNCHANGED <<revents, given>>

LEMMA ReadIs ==
  ASSUME NEW i \in Ends, DataOK, Read(i)
  PROVE  \E n, m \in Nat : ReadOf(i, n, m)
<1>1. fifo[i] \in Fifos(i) /\ taken[i] \in Int
  BY SizeType DEF DataOK
<1>2. PICK n \in 1..kfifo_unused(fifo[i]) :
        \E m \in 0..(IF n = kfifo_unused(fifo[i])
                     THEN kfifo_unused(kfifo_in(fifo[i], Run(i, taken[i], n))) ELSE 0) :
          /\ fifo' = [fifo EXCEPT ![i] =
                kfifo_in(kfifo_in(fifo[i], Run(i, taken[i], n)), Run(i, taken[i] + n, m))]
          /\ taken' = [taken EXCEPT ![i] = Plus(i, taken[i], n + m)]
  BY Zenon DEF Read
<1>3. n \in Nat  BY <1>1, UnusedType
<1>4. kfifo_unused(kfifo_in(fifo[i], Run(i, taken[i], n))) \in Nat
  BY <1>1, <1>3, InType, UnusedType
<1>5. PICK m \in 0..(IF n = kfifo_unused(fifo[i])
                     THEN kfifo_unused(kfifo_in(fifo[i], Run(i, taken[i], n))) ELSE 0) :
          /\ fifo' = [fifo EXCEPT ![i] =
                kfifo_in(kfifo_in(fifo[i], Run(i, taken[i], n)), Run(i, taken[i] + n, m))]
          /\ taken' = [taken EXCEPT ![i] = Plus(i, taken[i], n + m)]
  BY <1>2, Zenon
<1>6. m \in Nat  BY <1>4
<1>7. UNCHANGED <<revents, given>>  BY DEF Read
<1> QED BY <1>3, <1>5, <1>6, <1>7 DEF ReadOf

\* The bytes of one write, as Write takes them from the fifo of d.
WriteOf(d, n) ==
  /\ n \in 1..Len(Chunk(fifo[d]))
  /\ fifo' = [fifo EXCEPT ![d] =
                IF kfifo_used(kfifo_out(fifo[d], n)) = 0
                THEN kfifo_reset(kfifo_out(fifo[d], n)) ELSE kfifo_out(fifo[d], n)]
  /\ given' = [given EXCEPT ![d] =
                 IF SubSeq(Chunk(fifo[d]), 1, n) = Run(d, given[d], n)
                 THEN Plus(d, given[d], n) ELSE Corrupt]
  /\ UNCHANGED taken

LEMMA WriteIs ==
  ASSUME NEW i \in Ends, DataOK, Write(i)
  PROVE  1 - i \in Ends /\ \E n \in Nat : WriteOf(1 - i, n)
<1> DEFINE d == 1 - i
<1>1. d \in Ends  BY DEF Ends
<1>2. PICK n \in 1..Len(Chunk(fifo[d])) :
        /\ fifo' = [fifo EXCEPT ![d] =
                IF kfifo_used(kfifo_out(fifo[d], n)) = 0
                THEN kfifo_reset(kfifo_out(fifo[d], n)) ELSE kfifo_out(fifo[d], n)]
        /\ given' = [given EXCEPT ![d] =
                 IF SubSeq(Chunk(fifo[d]), 1, n) = Run(d, given[d], n)
                 THEN Plus(d, given[d], n) ELSE Corrupt]
  BY Zenon DEF Write
<1>3. UNCHANGED taken  BY DEF Write
<1> HIDE DEF d
<1>4. n \in Nat
  <2>1. fifo[d] \in Fifos(d)  BY <1>1 DEF DataOK
  <2>2. Len(Chunk(fifo[d])) \in Nat  BY <1>1, <2>1, ChunkType
  <2> QED BY <2>2
<1>5. WriteOf(d, n)  BY <1>2, <1>3 DEF WriteOf
<1> QED BY <1>1, <1>4, <1>5 DEF d

\* Every step either leaves the fifos and the checkers alone, or ends the
\* session, or is a read or a write.
LEMMA DataSteps ==
  ASSUME DataOK, [Next]_vars
  PROVE  \/ UNCHANGED <<fifo, taken, given>>
         \/ SwapEnds
         \/ \E d \in Ends : \E n, m \in Nat : ReadOf(d, n, m)
         \/ \E d \in Ends : \E n \in Nat : WriteOf(d, n)
<1>1. CASE UNCHANGED vars  BY <1>1 DEF vars
<1>2. CASE Signal \/ Exited  BY <1>2 DEF Signal, Exited, vars
<1>3. CASE Top \/ Leave \/ CloseBoth \/ Sleep \/ Poll
  BY <1>3 DEF Top, Leave, CloseBoth, Sleep, Poll
<1>4. CASE PollEnds  BY <1>4 DEF PollEnds
<1>5. ASSUME NEW i \in Ends,
             Listen(i) \/ ListenAgain(i) \/ Accept(i) \/ Open(i) \/ OpenFails(i)
             \/ OpenLeaks(i) \/ NoRead(i) \/ NoWrite(i)
      PROVE  UNCHANGED <<fifo, taken, given>>
  BY <1>5 DEF Listen, ListenAgain, Accept, Open, OpenFails, OpenLeaks, NoRead, NoWrite
<1>6. ASSUME NEW i \in Ends, Hup(i) \/ ReadEnds(i) \/ WriteEnds(i) PROVE SwapEnds
  BY <1>6 DEF Hup, ReadEnds, WriteEnds
<1>7. ASSUME NEW i \in Ends, Read(i) PROVE \E d \in Ends : \E n, m \in Nat : ReadOf(d, n, m)
  BY <1>7, ReadIs
<1>8. ASSUME NEW i \in Ends, Write(i) PROVE \E d \in Ends : \E n \in Nat : WriteOf(d, n)
  BY <1>8, WriteIs
<1> QED BY <1>1, <1>2, <1>3, <1>4, <1>5, <1>6, <1>7, <1>8 DEF Next, Thread

LEMMA DataInit == Init => DataOK
<1> SUFFICES ASSUME Init PROVE DataOK  OBVIOUS
<1>1. \A d \in Ends : fifo[d] = kfifo_alloc(d) /\ taken[d] = 0 /\ given[d] = 0  BY DEF Init
<1>2. \A d \in Ends : fifo[d] \in Fifos(d) /\ 0 \in 0..Size[d]  BY <1>1, AllocType, SizeType
<1> QED BY <1>1, <1>2 DEF Init, DataOK

\* The fifos stay fifos, for every size.
LEMMA DataStep == DataOK /\ [Next]_vars => DataOK'
<1> SUFFICES ASSUME DataOK, [Next]_vars PROVE DataOK'  OBVIOUS
<1> DEFINE Fs == /\ DOMAIN fifo = Ends /\ DOMAIN taken = Ends /\ DOMAIN given = Ends
                 /\ \A d \in Ends : /\ fifo[d] \in Fifos(d)
                                    /\ taken[d] \in 0..Size[d]
                                    /\ given[d] \in 0..Size[d] \cup {Corrupt}
<1>1. Fs  BY DEF DataOK
<1>2. Fs'
  <2>1. CASE UNCHANGED <<fifo, taken, given>>  BY <1>1, <2>1
  <2>2. CASE SwapEnds
    <3>1. \A d \in Ends : kfifo_alloc(d) \in Fifos(d) /\ 0 \in 0..Size[d]
      BY AllocType, SizeType
    <3> QED BY <2>2, <3>1 DEF SwapEnds
  <2>3. ASSUME NEW i \in Ends, NEW n \in Nat, NEW m \in Nat, ReadOf(i, n, m) PROVE Fs'
    <3> DEFINE f == kfifo_in(fifo[i], Run(i, taken[i], n))
               g == kfifo_in(f, Run(i, taken[i] + n, m))
               t == Plus(i, taken[i], n + m)
    <3>1. taken[i] \in Int /\ taken[i] + n \in Int  BY <1>1, SizeType
    <3>2. f \in Fifos(i)  BY <1>1, <3>1, InType
    <3>3. g \in Fifos(i)
      <4> HIDE DEF f
      <4> QED BY <3>1, <3>2, InType
    <3>4. t \in 0..Size[i]  BY <3>1, PlusType
    <3>5. fifo' = [fifo EXCEPT ![i] = g] /\ taken' = [taken EXCEPT ![i] = t] /\ given' = given
      BY <2>3 DEF ReadOf
    <3> HIDE DEF f, g, t
    <3> QED BY <1>1, <3>3, <3>4, <3>5
  <2>4. ASSUME NEW d \in Ends, NEW n \in Nat, WriteOf(d, n) PROVE Fs'
    <3> DEFINE f == kfifo_out(fifo[d], n)
               g == IF kfifo_used(f) = 0 THEN kfifo_reset(f) ELSE f
               t == IF SubSeq(Chunk(fifo[d]), 1, n) = Run(d, given[d], n)
                    THEN Plus(d, given[d], n) ELSE Corrupt
    <3>1. g \in Fifos(d)
      <4>1. fifo[d] \in Fifos(d) /\ n \in Int  BY <1>1
      <4> QED BY <4>1, OutType
    <3>2. t \in 0..Size[d] \cup {Corrupt}
      <4>1. given[d] \in Int  BY <1>1, SizeType DEF Corrupt
      <4>2. Plus(d, given[d], n) \in 0..Size[d]  BY <4>1, PlusType
      <4> QED BY <4>2
    <3>3. fifo' = [fifo EXCEPT ![d] = g] /\ given' = [given EXCEPT ![d] = t] /\ taken' = taken
      BY <2>4 DEF WriteOf
    <3> HIDE DEF f, g, t
    <3> QED BY <1>1, <3>1, <3>2, <3>3
  <2> HIDE DEF Fs
  <2> QED BY <2>1, <2>2, <2>3, <2>4, DataSteps
<1>3. s_quit_flag' \in 0..2
  BY DEF DataOK, Next, Thread, vars, Signal, Exited, Top, Leave, CloseBoth, Sleep, Poll,
         PollEnds, SwapEnds, Listen, ListenAgain, Accept, Open, OpenFails, OpenLeaks,
         NoRead, NoWrite, Hup, ReadEnds, WriteEnds, Read, Write
<1>4. (revents \in [Ends -> SUBSET {"in", "out", "hup"}])'
  <2> DEFINE R == SUBSET {"in", "out", "hup"}
  <2> SUFFICES revents' \in [Ends -> R]  OBVIOUS
  <2>0. revents \in [Ends -> R] /\ {} \in R  BY DEF DataOK
  <2>1. CASE revents' = revents  BY <2>0, <2>1
  <2>2. CASE SwapEnds  BY <2>0, <2>2 DEF SwapEnds
  <2>3. CASE Poll
    <3>1. \A i \in Ends : Events(i) \in R  BY DEF Events
    <3>2. 0 \in Ends /\ 1 \in Ends /\ {"hup"} \in R  BY DEF Ends
    <3>3. \A i \in Ends : \A r \in (SUBSET Events(i)) \cup {{"hup"}} : r \in R  BY <3>1, <3>2
    <3>4. PICK r0 \in (SUBSET Events(0)) \cup {{"hup"}}, r1 \in (SUBSET Events(1)) \cup {{"hup"}} :
            revents' = [i \in Ends |-> IF i = 0 THEN r0 ELSE r1]
      BY <2>3 DEF Poll
    <3>5. r0 \in R /\ r1 \in R  BY <3>2, <3>3
    <3> HIDE DEF R
    <3> QED BY <3>4, <3>5
  <2>4. ASSUME NEW i \in Ends, NextEnd(i) PROVE revents' \in [Ends -> R]
    BY <2>0, <2>4 DEF NextEnd
  <2>5. ASSUME NEW i \in Ends, Write(i) \/ NoWrite(i) PROVE NextEnd(i)
    BY <2>5 DEF Write, NoWrite
  <2>6. ASSUME NEW i \in Ends,
               Listen(i) \/ ListenAgain(i) \/ Accept(i) \/ Open(i) \/ OpenFails(i)
               \/ OpenLeaks(i) \/ Read(i) \/ NoRead(i)
        PROVE  revents' = revents
    BY <2>6 DEF Listen, ListenAgain, Accept, Open, OpenFails, OpenLeaks, Read, NoRead
  <2>7. ASSUME NEW i \in Ends, Hup(i) \/ ReadEnds(i) \/ WriteEnds(i) PROVE SwapEnds
    BY <2>7 DEF Hup, ReadEnds, WriteEnds
  <2>8. ASSUME Top \/ Leave \/ CloseBoth \/ Sleep \/ Signal \/ Exited \/ UNCHANGED vars
        PROVE  revents' = revents
    BY <2>8 DEF Top, Leave, CloseBoth, Sleep, Signal, Exited, vars
  <2>9. PollEnds => SwapEnds  BY DEF PollEnds
  <2> HIDE DEF R
  <2> QED BY <2>1, <2>2, <2>3, <2>4, <2>5, <2>6, <2>7, <2>8, <2>9 DEF Next, Thread
<1> QED BY <1>2, <1>3, <1>4 DEF DataOK
---------------------------------------------------------------------------
(* Descriptors *)

Session == {"open", "accept", "close"} \cup Swapping

\* The descriptors of the session and of the servers are open, and no two of
\* the session's, the servers', the lost and the ones from the start are the
\* same; while an end is being opened it has no descriptor yet.
FdOK ==
  /\ pc \in {"top", "sleep", "done"} \cup Session
  /\ ix \in Ends
  /\ swapfds \in [Ends -> NoFd..MaxFd]
  /\ serverfds \in [Ends -> NoFd..MaxFd]
  /\ fds \subseteq 0..MaxFd /\ lost \subseteq fds /\ (pc # "done" => Std \subseteq fds)
  /\ \A i \in Ends : serverfds[i] # NoFd =>
       (pc # "done" => serverfds[i] \in fds) /\ serverfds[i] \notin lost
  /\ pc \in Session => \A i \in Ends : swapfds[i] # NoFd =>
       /\ swapfds[i] \in fds /\ swapfds[i] \notin lost /\ swapfds[i] \notin Std
       /\ \A j \in Ends : swapfds[i] # serverfds[j]
  /\ pc \in {"open", "accept"} => \A i \in Ends : ix <= i => swapfds[i] = NoFd
  /\ pc \in Swapping => \A i \in Ends : swapfds[i] > 0

\* Nothing else is open.
FdsKnown ==
  \A x \in fds : \/ x \in Std \cup lost
                 \/ \E i \in Ends : x = serverfds[i]
                 \/ pc \in Session /\ \E i \in Ends : x = swapfds[i]

\* What is true of descriptors at the start.
LEMMA FdInit == Init => FdOK /\ FdsKnown
BY ConstAssumption DEF Init, FdOK, FdsKnown, Session, Swapping, Ends, NoFd

\* Steps that open and close nothing.
SameFds == UNCHANGED <<swapfds, serverfds, fds, lost>>

LEMMA QuietSteps ==
  ASSUME FdOK, SameFds,
         \/ UNCHANGED <<pc, ix>>
         \/ pc = "sleep" /\ Goto("top", 0)
         \/ pc \in Swapping /\ \E i \in Ends : Goto("in", i) \/ Goto("out", i) \/ Goto("poll", i)
         \/ pc \in Session /\ Goto("close", 0)
         \/ pc = "open" /\ Goto("accept", ix)
  PROVE  FdOK' /\ (FdsKnown => FdsKnown')
<1>1. 0 \in Ends  BY DEF Ends
<1>3. FdOK'
  <2>1. CASE UNCHANGED <<pc, ix>>  BY <2>1 DEF FdOK, SameFds
  <2>2. CASE pc = "sleep" /\ Goto("top", 0)
    BY <1>1, <2>2 DEF FdOK, SameFds, Goto, Session, Swapping
  <2>3. CASE pc \in Swapping /\ \E i \in Ends : Goto("in", i) \/ Goto("out", i) \/ Goto("poll", i)
    <3>1. pc' \in Swapping /\ ix' \in Ends  BY <2>3 DEF Goto, Swapping
    <3>2. pc' \in Session /\ pc \in Session /\ pc' \notin {"open", "accept"}
          /\ pc' # "done" /\ pc # "done"
      BY <2>3, <3>1 DEF Session, Swapping
    <3> QED BY <2>3, <3>1, <3>2 DEF FdOK, SameFds
  <2>4. CASE pc \in Session /\ Goto("close", 0)
    <3>1. pc' = "close" /\ ix' = 0 /\ pc' \in Session /\ pc # "done"
      BY <2>4 DEF Goto, Session, Swapping
    <3>2. pc' \notin Swapping  BY <3>1 DEF Swapping
    <3> QED BY <1>1, <2>4, <3>1, <3>2 DEF FdOK, SameFds
  <2>5. CASE pc = "open" /\ Goto("accept", ix)
    <3>1. pc' = "accept" /\ ix' = ix /\ pc' \in Session /\ pc \in Session
      BY <2>5 DEF Goto, Session
    <3>2. pc' \notin Swapping  BY <3>1 DEF Swapping
    <3> QED BY <2>5, <3>1, <3>2 DEF FdOK, SameFds
  <2> QED BY <2>1, <2>2, <2>3, <2>4, <2>5
<1>4. ASSUME FdsKnown PROVE FdsKnown'
  <2>1. pc \in Session => pc' \in Session
    BY DEF Goto, Session, Swapping
  <2> QED BY <1>4, <2>1 DEF FdsKnown, SameFds
<1> QED BY <1>3, <1>4

\* A session starts with no descriptor.
LEMMA TopStep ==
  ASSUME FdOK, Top PROVE FdOK' /\ (FdsKnown => FdsKnown')
<1>1. /\ pc = "top" /\ pc' = "open" /\ ix' = 0 /\ 0 \in Ends /\ NoFd \in NoFd..MaxFd
      /\ UNCHANGED <<serverfds, fds, lost>> /\ swapfds' = [i \in Ends |-> NoFd]
  BY ConstAssumption DEF Top, Goto, Ends, NoFd
<1>2. pc' \in Session /\ pc \notin Session /\ pc' \notin Swapping  BY <1>1 DEF Session, Swapping
<1>3. FdOK'  BY <1>1, <1>2 DEF FdOK
<1>4. FdsKnown => FdsKnown'  BY <1>1, <1>2 DEF FdsKnown
<1> QED BY <1>3, <1>4

\* The servers are closed, and the lost descriptors stay.
LEMMA LeaveStep ==
  ASSUME FdOK, Leave PROVE FdOK' /\ (FdsKnown => FdsKnown')
<1>1. /\ pc = "top" /\ pc' = "done" /\ ix' = 0 /\ 0 \in Ends /\ NoFd = -1
      /\ UNCHANGED <<swapfds, serverfds, lost>>
      /\ fds' = fds \ {serverfds[i] : i \in {j \in Ends : serverfds[j] > 0}}
  BY DEF Leave, Goto, Ends, NoFd
<1>2. pc \notin Session /\ pc' \notin Session /\ pc' \notin Swapping
      /\ pc' \notin {"open", "accept"}
  BY <1>1 DEF Session, Swapping
<1>3. \A i \in Ends : serverfds[i] > 0 => serverfds[i] # NoFd  BY <1>1 DEF FdOK
<1>4. lost \subseteq fds'  BY <1>1, <1>3 DEF FdOK
<1>5. FdOK'  BY <1>1, <1>2, <1>4 DEF FdOK
<1>6. FdsKnown => FdsKnown'  BY <1>1, <1>2 DEF FdsKnown
<1> QED BY <1>5, <1>6

\* The session's descriptors are closed, the servers and the lost ones stay.
LEMMA CloseStep ==
  ASSUME FdOK, CloseBoth PROVE FdOK' /\ (0 \in Std /\ FdsKnown => FdsKnown')
<1>1. /\ pc = "close" /\ pc' \in {"top", "sleep"} /\ ix' = 0 /\ 0 \in Ends /\ NoFd = -1
      /\ UNCHANGED <<swapfds, serverfds, lost>>
      /\ fds' = fds \ {swapfds[i] : i \in {j \in Ends : swapfds[j] > 0}}
  BY DEF CloseBoth, Goto, Ends, NoFd
<1>2. pc \in Session /\ pc' \notin Session /\ pc' \notin Swapping
      /\ pc' \notin {"open", "accept"} /\ pc' # "done" /\ pc # "done"
  BY <1>1 DEF Session, Swapping
<1>3. \A i \in Ends : swapfds[i] > 0 => swapfds[i] # NoFd  BY <1>1 DEF FdOK
<1>4. lost \subseteq fds' /\ Std \subseteq fds'  BY <1>1, <1>2, <1>3 DEF FdOK
<1>5. \A j \in Ends : serverfds[j] # NoFd => serverfds[j] \in fds'
  BY <1>1, <1>2, <1>3 DEF FdOK
<1>6. FdOK'  BY <1>1, <1>2, <1>4, <1>5 DEF FdOK
<1>7. ASSUME 0 \in Std, FdsKnown PROVE FdsKnown'
  <2>2. ASSUME NEW x \in fds', NEW i \in Ends, x = swapfds[i] PROVE FALSE
    <3>1. x \in 0..MaxFd /\ x \in fds  BY <1>1 DEF FdOK
    <3>2. ~ (swapfds[i] > 0)  BY <1>1, <2>2
    <3>3. x = 0 /\ swapfds[i] # NoFd  BY <1>1, <2>2, <3>1, <3>2, ConstAssumption
    <3>4. swapfds[i] \notin Std  BY <1>2, <3>3 DEF FdOK
    <3> QED BY <1>7, <2>2, <3>3, <3>4
  <2> QED BY <1>1, <1>2, <1>7, <2>2 DEF FdsKnown
<1> QED BY <1>6, <1>7

\* A server is new, and it is no descriptor of the session.
LEMMA ListenStep ==
  ASSUME NEW i \in Ends, FdOK, Listen(i)
  PROVE  FdOK' /\ (FdsKnown => FdsKnown')
<1> DEFINE fd == NewFd
<1>1. fd \in 0..MaxFd /\ fd \notin fds  BY NewFdIs DEF Listen
<1>2. /\ pc = "open" /\ ix = i /\ 0 \in Ends /\ NoFd = -1
      /\ serverfds' = [serverfds EXCEPT ![i] = fd] /\ fds' = fds \cup {fd}
      /\ UNCHANGED <<swapfds, lost>>
      /\ \/ pc' = "accept" /\ ix' = i
         \/ pc' = "close" /\ ix' = 0
  BY DEF Listen, Goto, Ends, NoFd
<1>0. serverfds[i] = NoFd
  <2>1. serverfds[i] < 0 /\ serverfds[i] \in NoFd..MaxFd  BY DEF Listen, FdOK
  <2> QED BY <2>1, ConstAssumption DEF NoFd
<1> HIDE DEF fd
<1>3. pc \in Session /\ pc' \in Session /\ pc' \notin Swapping /\ pc # "done" /\ pc' # "done"
  BY <1>2 DEF Session, Swapping
<1>4. fd \in NoFd..MaxFd  BY <1>1, <1>2, ConstAssumption
<1>5. FdOK'
  <2>1. serverfds' \in [Ends -> NoFd..MaxFd] /\ fds' \subseteq 0..MaxFd /\ lost' \subseteq fds'
    BY <1>1, <1>2, <1>4 DEF FdOK
  <2>2. \A j \in Ends : serverfds'[j] # NoFd => serverfds'[j] \in fds' /\ serverfds'[j] \notin lost'
    BY <1>1, <1>2, <1>3 DEF FdOK
  <2>3. \A j \in Ends : swapfds'[j] # NoFd =>
          /\ swapfds'[j] \in fds' /\ swapfds'[j] \notin lost' /\ swapfds'[j] \notin Std
          /\ \A k \in Ends : swapfds'[j] # serverfds'[k]
    BY <1>1, <1>2, <1>3 DEF FdOK
  <2>4. pc' \in {"open", "accept"} => \A j \in Ends : ix' <= j => swapfds'[j] = NoFd
    BY <1>2 DEF FdOK
  <2> QED BY <1>2, <1>3, <2>1, <2>2, <2>3, <2>4 DEF FdOK
<1>6. ASSUME FdsKnown PROVE FdsKnown'
  <2>1. \A x \in fds : (\E j \in Ends : x = serverfds[j]) => \E j \in Ends : x = serverfds'[j]
    <3>1. \A x \in fds : x # serverfds[i]  BY <1>0, <1>2, ConstAssumption DEF FdOK
    <3> QED BY <1>2, <3>1 DEF FdOK
  <2>2. \E j \in Ends : fd = serverfds'[j]  BY <1>2 DEF FdOK
  <2> QED BY <1>2, <1>3, <1>6, <2>1, <2>2 DEF FdsKnown
<1> QED BY <1>5, <1>6

\* An end is opened: its descriptor is new.
LEMMA OpenedStep ==
  ASSUME NEW i \in Ends, FdOK, FreeFds # {}, pc \in {"open", "accept"}, ix = i,
         Opened(i, NewFd), fds' = fds \cup {NewFd}, UNCHANGED <<serverfds, lost>>
  PROVE  FdOK' /\ (FdsKnown => FdsKnown')
<1> DEFINE fd == NewFd
<1>1. fd \in 0..MaxFd /\ fd \notin fds  BY NewFdIs
<1>2. /\ swapfds' = [swapfds EXCEPT ![i] = fd] /\ fds' = fds \cup {fd}
      /\ 0 \in Ends /\ 1 \in Ends /\ NoFd = -1
      /\ \/ i = 0 /\ pc' = "open" /\ ix' = 1
         \/ i = 1 /\ pc' = "poll" /\ ix' = 0 /\ swapfds[0] > 0 /\ fd > 0
         \/ i = 1 /\ pc' = "close" /\ ix' = 0
  BY DEF Opened, Goto, Ends, NoFd
<1> HIDE DEF fd
<1>3. pc \in Session /\ pc' \in Session /\ pc # "done" /\ pc' # "done"
  BY <1>2 DEF Session, Swapping
<1>4. fd \in NoFd..MaxFd  BY <1>1, <1>2, ConstAssumption
<1>5. FdOK'
  <2>1. swapfds' \in [Ends -> NoFd..MaxFd] /\ fds' \subseteq 0..MaxFd /\ lost' \subseteq fds'
    BY <1>1, <1>2, <1>4 DEF FdOK
  <2>2. \A j \in Ends : serverfds'[j] # NoFd => serverfds'[j] \in fds' /\ serverfds'[j] \notin lost'
    BY <1>1, <1>2, <1>3 DEF FdOK
  <2>3. \A j \in Ends : swapfds'[j] # NoFd =>
          /\ swapfds'[j] \in fds' /\ swapfds'[j] \notin lost' /\ swapfds'[j] \notin Std
          /\ \A k \in Ends : swapfds'[j] # serverfds'[k]
    <3>1. \A k \in Ends : fd # serverfds[k]  BY <1>1, <1>2, <1>3, ConstAssumption DEF FdOK
    <3> QED BY <1>1, <1>2, <1>3, <3>1 DEF FdOK
  <2>4. pc' \in {"open", "accept"} => \A j \in Ends : ix' <= j => swapfds'[j] = NoFd
    <3>1. CASE i = 0
      <4>1. \A j \in Ends : 1 <= j => j = 1  BY DEF Ends
      <4>2. swapfds'[1] = NoFd  BY <1>2, <3>1 DEF FdOK, Ends
      <4> QED BY <1>2, <3>1, <4>1, <4>2
    <3>2. CASE i = 1  BY <1>2, <3>2
    <3> QED BY <1>2, <3>1, <3>2
  <2>5. pc' \in Swapping => \A j \in Ends : swapfds'[j] > 0
    BY <1>1, <1>2 DEF FdOK, Swapping, Ends
  <2> QED BY <1>2, <1>3, <2>1, <2>2, <2>3, <2>4, <2>5 DEF FdOK
<1>6. ASSUME FdsKnown PROVE FdsKnown'
  <2>1. \A x \in fds : (\E j \in Ends : x = swapfds[j]) => \E j \in Ends : x = swapfds'[j]
    <3>1. \A x \in fds : x # swapfds[i]  BY <1>2, ConstAssumption DEF FdOK
    <3> QED BY <1>2, <3>1 DEF FdOK
  <2>2. \E j \in Ends : fd = swapfds'[j]  BY <1>2 DEF FdOK
  <2> QED BY <1>2, <1>3, <1>6, <2>1, <2>2 DEF FdsKnown
<1> QED BY <1>5, <1>6
\* A descriptor is dropped inside an open function: it is new.
LEMMA LeakStep ==
  ASSUME NEW i \in Ends, FdOK, OpenLeaks(i)
  PROVE  FdOK' /\ (FdsKnown => FdsKnown')
<1> DEFINE fd == NewFd
<1>1. fd \in 0..MaxFd /\ fd \notin fds  BY NewFdIs DEF OpenLeaks
<1>2. /\ pc = "open" /\ pc' = "close" /\ ix' = 0 /\ 0 \in Ends
      /\ fds' = fds \cup {fd} /\ lost' = lost \cup {fd}
      /\ UNCHANGED <<swapfds, serverfds>>
  BY DEF OpenLeaks, Goto, Ends
<1> HIDE DEF fd
<1>3. pc \in Session /\ pc' \in Session /\ pc' \notin Swapping /\ pc # "done" /\ pc' # "done"
      /\ pc' \notin {"open", "accept"}
  BY <1>2 DEF Session, Swapping
<1>4. \A j \in Ends : serverfds[j] # NoFd => serverfds[j] \in fds' /\ serverfds[j] \notin lost'
  BY <1>1, <1>2, <1>3 DEF FdOK
<1>5. \A j \in Ends : swapfds[j] # NoFd =>
        /\ swapfds[j] \in fds' /\ swapfds[j] \notin lost' /\ swapfds[j] \notin Std
        /\ \A k \in Ends : swapfds[j] # serverfds[k]
  BY <1>1, <1>2, <1>3 DEF FdOK
<1>6. fds' \subseteq 0..MaxFd /\ lost' \subseteq fds' /\ Std \subseteq fds'
  BY <1>1, <1>2, <1>3 DEF FdOK
<1>7. FdOK'  BY <1>2, <1>3, <1>4, <1>5, <1>6 DEF FdOK
<1>8. FdsKnown => FdsKnown'  BY <1>2, <1>3 DEF FdsKnown
<1> QED BY <1>7, <1>8

\* Every step keeps the descriptors apart.
LEMMA FdStep ==
  ASSUME FdOK, [Next]_vars
  PROVE  FdOK' /\ (0 \in Std /\ FdsKnown => FdsKnown')
<1> DEFINE Kept == FdOK' /\ (0 \in Std /\ FdsKnown => FdsKnown')
           Still == \/ UNCHANGED <<pc, ix>>
                    \/ pc = "sleep" /\ Goto("top", 0)
                    \/ /\ pc \in Swapping
                       /\ \E i \in Ends : Goto("in", i) \/ Goto("out", i) \/ Goto("poll", i)
                    \/ pc \in Session /\ Goto("close", 0)
                    \/ pc = "open" /\ Goto("accept", ix)
<1>0. 0 \in Ends /\ 1 \in Ends  BY DEF Ends
<1>1. ASSUME UNCHANGED vars \/ Signal \/ Exited PROVE SameFds /\ Still
  BY <1>1 DEF vars, Signal, Exited, SameFds
<1>2. ASSUME Sleep PROVE SameFds /\ Still  BY <1>2 DEF Sleep, SameFds
<1>3. ASSUME Poll PROVE SameFds /\ Still  BY <1>0, <1>3 DEF Poll, SameFds, Swapping
<1>4. ASSUME SwapEnds, pc \in Swapping PROVE SameFds /\ Still
  BY <1>4 DEF SwapEnds, SameFds, Session
<1>5. ASSUME PollEnds PROVE SwapEnds /\ pc \in Swapping  BY <1>5 DEF PollEnds, Swapping
<1>6. ASSUME NEW i \in Ends, Hup(i) \/ ReadEnds(i) \/ WriteEnds(i)
      PROVE  SwapEnds /\ pc \in Swapping
  BY <1>6 DEF Hup, ReadEnds, WriteEnds, Swapping
<1>7. ASSUME NEW i \in Ends, Read(i) \/ NoRead(i) PROVE SameFds /\ Still
  BY <1>7 DEF Read, NoRead, SameFds, Swapping
<1>8. ASSUME NEW i \in Ends, Write(i) \/ NoWrite(i) PROVE SameFds /\ Still
  <2>1. pc \in Swapping /\ NextEnd(i) /\ SameFds
    BY <1>8 DEF Write, NoWrite, SameFds, Swapping
  <2>2. Goto("in", 1) \/ Goto("poll", 0)  BY <2>1 DEF NextEnd
  <2> QED BY <1>0, <2>1, <2>2
<1>9. ASSUME NEW i \in Ends, ListenAgain(i) \/ OpenFails(i) PROVE SameFds /\ Still
  BY <1>9 DEF ListenAgain, OpenFails, SameFds, Session
<1>10. ASSUME SameFds, Still PROVE Kept
  <2>1. FdOK' /\ (FdsKnown => FdsKnown')
    <3> HIDE DEF Kept
    <3> QED BY <1>10, QuietSteps, Zenon
  <2> QED BY <2>1
<1>11. ASSUME Top PROVE Kept  BY <1>11, TopStep
<1>12. ASSUME Leave PROVE Kept  BY <1>12, LeaveStep
<1>13. ASSUME CloseBoth PROVE Kept  BY <1>13, CloseStep
<1>14. ASSUME NEW i \in Ends, Listen(i) PROVE Kept  BY <1>14, ListenStep
<1>15. ASSUME NEW i \in Ends, Accept(i) \/ Open(i) PROVE Kept
  <2>1. /\ FreeFds # {} /\ pc \in {"open", "accept"} /\ ix = i
        /\ Opened(i, NewFd) /\ fds' = fds \cup {NewFd} /\ UNCHANGED <<serverfds, lost>>
    BY <1>15 DEF Accept, Open
  <2> QED BY <2>1, OpenedStep
<1>16. ASSUME NEW i \in Ends, OpenLeaks(i) PROVE Kept  BY <1>16, LeakStep
<1> HIDE DEF Kept, Still
<1>17. Kept
  BY <1>1, <1>2, <1>3, <1>4, <1>5, <1>6, <1>7, <1>8, <1>9, <1>10, <1>11, <1>12, <1>13,
     <1>14, <1>15, <1>16
  DEF Next, Thread
<1> QED BY <1>17 DEF Kept
---------------------------------------------------------------------------
(* Theorems about every size *)

\* The two halves are the type invariant.
LEMMA TypeParts == DataOK /\ FdOK => TypeOK
<1> SUFFICES ASSUME DataOK, FdOK PROVE TypeOK  OBVIOUS
<1>1. pc \in {"top", "open", "accept", "close", "sleep", "done"} \cup Swapping
  BY DEF FdOK, Session
<1>2. ASSUME pc \in Swapping, NEW i \in Ends PROVE swapfds[i] > 0 /\ swapfds[i] \in fds
  <2>1. pc \in Session /\ swapfds[i] > 0  BY <1>2 DEF Session, FdOK
  <2>2. swapfds[i] # NoFd  BY <2>1 DEF NoFd
  <2> QED BY <2>1, <2>2 DEF FdOK
<1> QED BY <1>1, <1>2 DEF TypeOK, DataOK, FdOK

\* The indices of swapfifos stay W-bit unsigned integers and the ring stays in
\* its buffer, and swap_fds runs on two positive descriptors that are open,
\* for every width, every size (a power of two or not), every kind of ends and
\* every set of descriptors open at the start.
THEOREM TypeCorrect == Spec => []TypeOK
<1>1. Init => DataOK /\ FdOK  BY DataInit, FdInit
<1>2. DataOK /\ FdOK /\ [Next]_vars => (DataOK /\ FdOK)'  BY DataStep, FdStep
<1> QED BY <1>1, <1>2, TypeParts, PTL DEF Spec

\* swap_sources: between two sessions nothing is open but what was open at the
\* start, the servers and what a failing open function lost.  The code tests
\* descriptors with > 0, so standard input must be open at the start.
THEOREM NoDescriptorLeak ==
  ASSUME 0 \in Std
  PROVE  Spec => []NoFdLeak
<1> DEFINE Inv == FdOK /\ FdsKnown
<1>1. Init => Inv  BY FdInit
<1>2. Inv /\ [Next]_vars => Inv'  BY FdStep
<1>3. Inv => NoFdLeak
  <2> SUFFICES ASSUME Inv, pc = "sleep"
               PROVE  fds = Std \cup lost \cup ({serverfds[i] : i \in Ends} \ {NoFd})
    BY DEF NoFdLeak
  <2>1. pc \notin Session /\ pc # "done"  BY DEF Session, Swapping
  <2>2. \A x \in fds : x # NoFd  BY ConstAssumption DEF FdOK, NoFd
  <2>3. \A x \in fds : x \in Std \cup lost \cup ({serverfds[i] : i \in Ends} \ {NoFd})
    BY <2>1, <2>2 DEF FdsKnown
  <2>4. \A x \in Std \cup lost \cup ({serverfds[i] : i \in Ends} \ {NoFd}) : x \in fds
    BY <2>1 DEF FdOK
  <2> QED BY <2>3, <2>4
<1> HIDE DEF Inv
<1> QED BY <1>1, <1>2, <1>3, PTL DEF Spec
---------------------------------------------------------------------------
(* The ring buffer, when its size is a power of two *)

\* What __kfifo_alloc needs and does not ask for.
PowersOfTwo == \A d \in Ends : \E k \in 0..W : Size[d] = Two[k]

\* Position x of ring d, counted from its beginning.
Around(d, x) == IF x < Size[d] THEN x ELSE x - Size[d]

\* Masking an index that moved on by j moves j around the ring.
LEMMA Moved ==
  ASSUME PowersOfTwo, NEW d \in Ends, NEW x \in Word, NEW j \in 0..Size[d]
  PROVE  /\ And(x, Size[d] - 1) \in 0..Size[d]-1
         /\ And(Unsigned(x + j), Size[d] - 1) = Around(d, And(x, Size[d] - 1) + j)
<1> DEFINE S == Size[d]
           o == x % S
<1>1. PICK k \in 0..W : S = Two[k]  BY DEF PowersOfTwo
<1>2. S \in Nat \ {0} /\ S - 1 \in Word /\ x \in Nat /\ j \in Nat /\ j \in 0..S /\ x + j \in Int
  BY SizeType
<1>3. PICK c \in Nat \ {0} : Wrap = S * c
  <2>1. \E c \in Nat \ {0} : Two[W] = Two[k] * c  BY WidthType, TwoDivides
  <2> QED BY <1>1, <2>1 DEF Wrap
<1>4. \A y \in Word : And(y, S - 1) = y % S  BY <1>1, <1>2, Mask
<1> HIDE DEF S
<1>5. o \in 0..S-1  BY <1>2, Division
<1>6. Unsigned(x + j) \in Word  BY <1>2, UnsignedType
<1>7. ((x + j) % (S * c)) % S = (x + j) % S  BY <1>2, ModMod
<1>8. (o + j) % S = (x + j) % S
  <2>1. x \in Int /\ j \in Int  BY <1>2
  <2> QED BY <1>2, <2>1, ModAdds
<1> HIDE DEF o
<1>9. (o + j) % S = IF o + j < S THEN o + j ELSE o + j - S  BY <1>2, <1>5, ModPlus
<1>10. And(Unsigned(x + j), S - 1) = IF o + j < S THEN o + j ELSE o + j - S
  BY <1>3, <1>4, <1>6, <1>7, <1>8, <1>9 DEF Unsigned
<1>11. And(x, S - 1) = o  BY <1>4 DEF o
<1>12. Around(d, o + j) = IF o + j < S THEN o + j ELSE o + j - S  BY <1>2, <1>5 DEF Around, S
<1>13. And(Unsigned(x + j), S - 1) = Around(d, And(x, S - 1) + j)  BY <1>10, <1>11, <1>12
<1>14. And(x, S - 1) \in 0..S-1  BY <1>5, <1>11
<1> QED BY <1>13, <1>14 DEF S

\* The free-running indices: their difference counts the bytes, and it
\* follows every move although each index wraps on its own.
LEMMA Counted ==
  ASSUME NEW a \in Word, NEW b \in Word, NEW n \in Nat
  PROVE  LET F == Unsigned(a - b) IN
         /\ F + n < Wrap => Unsigned(Unsigned(a + n) - b) = F + n
         /\ n <= F => Unsigned(a - Unsigned(b + n)) = F - n
         /\ a = Unsigned(b + F)
<1> DEFINE M == Wrap
           F == Unsigned(a - b)
<1>1. M \in Nat \ {0} /\ a \in 0..M-1 /\ b \in 0..M-1  BY SizeType
<1> HIDE DEF M
<1>2. F = IF a >= b THEN a - b ELSE a - b + M  BY <1>1, ModMinus DEF Unsigned, M
<1> HIDE DEF F
<1>3. F \in 0..M-1 /\ F \in Nat  BY <1>1, <1>2
<1>4. ASSUME F + n < M PROVE Unsigned(Unsigned(a + n) - b) = F + n
  <2> DEFINE y == Unsigned(a + n)
  <2>1. n \in 0..M  BY <1>3, <1>4, <1>1
  <2>2. y = IF a + n < M THEN a + n ELSE a + n - M  BY <1>1, <2>1, ModPlus DEF Unsigned, M
  <2> HIDE DEF y
  <2>3. y \in 0..M-1  BY <1>1, <2>1, <2>2
  <2>4. Unsigned(y - b) = IF y >= b THEN y - b ELSE y - b + M
    BY <1>1, <2>3, ModMinus DEF Unsigned, M
  <2>5. (IF y >= b THEN y - b ELSE y - b + M) = F + n  BY <1>1, <1>2, <1>3, <1>4, <2>1, <2>2
  <2> QED BY <2>4, <2>5 DEF y
<1>5. ASSUME n <= F PROVE Unsigned(a - Unsigned(b + n)) = F - n
  <2> DEFINE y == Unsigned(b + n)
  <2>1. n \in 0..M  BY <1>1, <1>3, <1>5
  <2>2. y = IF b + n < M THEN b + n ELSE b + n - M  BY <1>1, <2>1, ModPlus DEF Unsigned, M
  <2> HIDE DEF y
  <2>3. y \in 0..M-1  BY <1>1, <2>1, <2>2
  <2>4. Unsigned(a - y) = IF a >= y THEN a - y ELSE a - y + M
    BY <1>1, <2>3, ModMinus DEF Unsigned, M
  <2>5. (IF a >= y THEN a - y ELSE a - y + M) = F - n  BY <1>1, <1>2, <1>3, <1>5, <2>1, <2>2
  <2> QED BY <2>4, <2>5 DEF y
<1>6. a = Unsigned(b + F)
  <2>1. F \in 0..M  BY <1>1, <1>3
  <2>2. Unsigned(b + F) = IF b + F < M THEN b + F ELSE b + F - M
    BY <1>1, <2>1, ModPlus DEF Unsigned, M
  <2> QED BY <1>1, <1>2, <2>2
<1> QED BY <1>4, <1>5, <1>6 DEF F, M

\* Numbers of bytes add up.
LEMMA PlusPlus ==
  ASSUME NEW d \in Ends, NEW t \in Int, NEW n \in Int, NEW k \in Int
  PROVE  Plus(d, Plus(d, t, n), k) = Plus(d, t, n + k)
<1>1. Tags(d) \in Nat \ {0} /\ t + n \in Int /\ (t + n) + k = t + (n + k)  BY SizeType
<1>2. (((t + n) % Tags(d)) + k) % Tags(d) = ((t + n) + k) % Tags(d)  BY <1>1, ModAdds
<1> QED BY <1>1, <1>2 DEF Plus

\* Where a fifo that is not overfull reads and writes.
LEMMA RingShape ==
  ASSUME PowersOfTwo, NEW d \in Ends, NEW f \in Fifos(d), Fill(f) <= Size[d]
  PROVE  /\ OutOff(f) \in 0..Size[d]-1 /\ Fill(f) \in 0..Size[d]
         /\ InOff(f) = Around(d, OutOff(f) + Fill(f))
         /\ \A k \in 0..Size[d] : And(Unsigned(f.out + k), f.mask) = Around(d, OutOff(f) + k)
         /\ kfifo_used(f) = IF Fill(f) <= Size[d] - OutOff(f) THEN Fill(f) ELSE Size[d] - OutOff(f)
         /\ kfifo_unused(f) = IF Size[d] - Fill(f) <= Size[d] - InOff(f)
                              THEN Size[d] - Fill(f) ELSE Size[d] - InOff(f)
<1> DEFINE S == Size[d]
           o == OutOff(f)
           F == Fill(f)
           i == InOff(f)
<1>1. /\ f.in \in Word /\ f.out \in Word /\ f.mask = S - 1 /\ f.mask + 1 = S
      /\ F \in Nat /\ S \in Nat /\ S >= 2 /\ S < Wrap /\ Wrap \in Nat \ {0}
  BY FifoParts, SizeType
<1>2. F \in 0..S  BY <1>1
<1>3. o \in 0..S-1
  <2>1. 0 \in 0..S  BY <1>1
  <2> QED BY <1>1, <2>1, Moved DEF OutOff
<1>4. \A k \in 0..S : And(Unsigned(f.out + k), f.mask) = Around(d, o + k)
  BY <1>1, Moved DEF OutOff
<1>5. i = Around(d, o + F)
  <2>1. f.in = Unsigned(f.out + F)
    <3>1. 0 \in Nat  OBVIOUS
    <3> QED BY <1>1, <3>1, Counted DEF Fill
  <2> QED BY <1>2, <1>4, <2>1 DEF InOff
<1> HIDE DEF o, F, i, S
<1>6. i \in 0..S-1  BY <1>1, <1>2, <1>3, <1>5 DEF Around, S
<1>7. kfifo_used(f) = IF F <= S - o THEN F ELSE S - o
  <2>1. F \in Int /\ S - o \in Int  BY <1>1, <1>3
  <2>2. f.mask + 1 - o = S - o  BY <1>1, <1>3
  <2>3. kfifo_used(f) = Min({F, f.mask + 1 - o})  BY DEF kfifo_used, F, o
  <2>4. kfifo_used(f) = Min({F, S - o})  BY <2>2, <2>3
  <2> QED BY <2>1, <2>4, MinIs
<1>8. kfifo_unused(f) = IF S - F <= S - i THEN S - F ELSE S - i
  <2>1. S - F \in 0..Wrap-1 /\ S - i \in 0..Wrap-1  BY <1>1, <1>2, <1>6
  <2>2. \A y \in 0..Wrap-1 : Unsigned(y) = y
    <3> SUFFICES ASSUME NEW y \in 0..Wrap-1 PROVE y % Wrap = y  BY DEF Unsigned
    <3> QED BY <1>1
  <2>3. kfifo_unused(f) = Min({Unsigned(f.mask + 1 - F), Unsigned(f.mask + 1 - i)})
    BY DEF kfifo_unused, F, i
  <2>4. f.mask + 1 - F = S - F /\ f.mask + 1 - i = S - i  BY <1>1, <1>6
  <2>5. kfifo_unused(f) = Min({S - F, S - i})  BY <2>1, <2>2, <2>3, <2>4
  <2>6. S - F \in Int /\ S - i \in Int  BY <1>1, <1>2, <1>6
  <2> QED BY <2>5, <2>6, MinIs
<1> QED BY <1>2, <1>3, <1>4, <1>5, <1>7, <1>8 DEF S, o, F, i
\* The ring f of direction d holds Fill(f) bytes from number g on.
RingOK(d, f, g) ==
  /\ f \in Fifos(d) /\ g \in 0..Size[d]
  /\ Fill(f) <= Size[d]
  /\ \A k \in 0..Fill(f)-1 : f.data[Around(d, OutOff(f) + k)] = Plus(d, g, k)

\* __kfifo_in of the n bytes that follow what the ring holds, where it has
\* room up to its end: the ring holds n more.
LEMMA InEffect ==
  ASSUME PowersOfTwo, NEW d \in Ends, NEW f, NEW g, RingOK(d, f, g),
         NEW t \in Int, NEW n \in Nat, n <= kfifo_unused(f),
         Plus(d, t, 0) = Plus(d, g, Fill(f))
  PROVE  LET h == kfifo_in(f, Run(d, t, n))
         IN  RingOK(d, h, g) /\ Fill(h) = Fill(f) + n
<1> DEFINE b == Run(d, t, n)
           h == kfifo_in(f, b)
           S == Size[d]
           o == OutOff(f)
           F == Fill(f)
           i == InOff(f)
           dat == [k \in DOMAIN f.data |-> IF k \in i..i + Len(b) - 1 THEN b[k-i+1] ELSE f.data[k]]
<1>0. f \in Fifos(d) /\ g \in 0..S /\ F <= S  BY DEF RingOK
<1>1. h \in Fifos(d)  BY <1>0, InType
<1>2. /\ f.in \in Word /\ f.out \in Word /\ DOMAIN f.data = 0..S-1 /\ f.mask = S - 1
      /\ S \in Nat /\ S >= 2 /\ S < Wrap /\ Wrap \in Nat \ {0} /\ g \in Int
  BY <1>0, FifoParts, SizeType
<1>3. /\ o \in 0..S-1 /\ F \in 0..S /\ i = Around(d, o + F)
      /\ n <= S - F /\ n <= S - i /\ F \in Nat
  <2>1. /\ o \in 0..S-1 /\ F \in 0..S /\ i = Around(d, o + F)
        /\ kfifo_unused(f) = IF S - F <= S - i THEN S - F ELSE S - i
    BY <1>0, RingShape
  <2> HIDE DEF S, o, F, i
  <2>2. i \in Int  BY <1>2, <2>1 DEF Around, S
  <2> QED BY <1>2, <2>1, <2>2
<1>4. Len(b) = n /\ \A k \in 1..n : b[k] = Plus(d, t, k - 1)  BY RunType
<1>5. h = [f EXCEPT !.in = Unsigned(f.in + Len(b)), !.data = dat]  BY DEF kfifo_in
<1>6. h.in = Unsigned(f.in + n) /\ h.out = f.out /\ h.mask = f.mask /\ h.data = dat
  <2> HIDE DEF dat, h, b
  <2> QED BY <1>0, <1>4, <1>5 DEF Fifos
<1>7. Fill(h) = F + n
  <2>1. F = Unsigned(f.in - f.out) /\ F + n < Wrap  BY <1>2, <1>3 DEF Fill
  <2>2. Unsigned(Unsigned(f.in + n) - f.out) = F + n  BY <1>2, <2>1, Counted
  <2> HIDE DEF h
  <2> QED BY <1>6, <2>2 DEF Fill
<1>8. OutOff(h) = o
  <2> HIDE DEF h
  <2> QED BY <1>6 DEF OutOff
<1>9. \A k \in 0..F-1 : f.data[Around(d, o + k)] = Plus(d, g, k)  BY DEF RingOK
<1> HIDE DEF h, b, S, o, F, i
<1>10. i \in 0..S-1  BY SMTT(30), <1>2, <1>3 DEF Around, S
<1>11. ASSUME NEW k \in 0..(F+n)-1 PROVE h.data[Around(d, o + k)] = Plus(d, g, k)
  <2> DEFINE a == Around(d, o + k)
  <2>1. a = IF o + k < S THEN o + k ELSE (o + k) - S  BY DEF Around, S
  <2>2. i = IF o + F < S THEN o + F ELSE (o + F) - S  BY <1>3 DEF Around, S
  <2> HIDE DEF a
  <2>3. a \in 0..S-1  BY <1>2, <1>3, <2>1
  <2>4. dat[a] = IF a \in i..i + Len(b) - 1 THEN b[a-i+1] ELSE f.data[a]  BY <1>2, <2>3
  <2> HIDE DEF dat
  <2>5. CASE k < F
    <3>0. k \in Nat /\ F \in Nat /\ o \in Nat /\ i \in Nat /\ a \in Nat /\ n <= S - F
      BY <1>2, <1>3, <1>10, <2>3
    <3>1. ~ (a \in i..i + n - 1)
      <4>1. CASE o + F < S  BY <1>2, <2>1, <2>2, <2>5, <3>0, <4>1
      <4>2. CASE ~ (o + F < S)
        <5>1. i + n <= o  BY <1>2, <2>2, <3>0, <4>2
        <5>2. a < i \/ a >= o  BY <1>2, <2>1, <2>2, <2>5, <3>0, <4>2
        <5> QED BY <3>0, <5>1, <5>2
      <4> QED BY <4>1, <4>2
    <3>2. k \in 0..F-1  BY <1>3, <2>5
    <3> QED BY <1>4, <1>6, <1>9, <2>4, <3>1, <3>2 DEF a
  <2>6. CASE ~ (k < F)
    <3> DEFINE j == k - F
    <3>1. j \in 0..n-1 /\ k = F + j /\ j \in Int  BY <1>3, <2>6
    <3> HIDE DEF j
    <3>2. a = i + j  BY SMTT(30), <1>2, <1>3, <1>10, <2>1, <2>2, <3>1
    <3>3. a \in i..i + n - 1 /\ a - i + 1 = j + 1 /\ j + 1 \in 1..n /\ (j + 1) - 1 = j
      BY <1>10, <3>1, <3>2
    <3>4. dat[a] = Plus(d, t, j)  BY <1>4, <2>4, <3>3
    <3>5. Plus(d, t, j) = Plus(d, g, k)
      <4>1. Plus(d, Plus(d, t, 0), j) = Plus(d, t, 0 + j)  BY <3>1, PlusPlus
      <4>2. Plus(d, Plus(d, g, F), j) = Plus(d, g, F + j)  BY <1>2, <1>3, <3>1, PlusPlus
      <4>3. Plus(d, t, 0) = Plus(d, g, F)  BY DEF F
      <4> QED BY <3>1, <4>1, <4>2, <4>3
    <3> QED BY <1>6, <3>4, <3>5 DEF a
  <2> QED BY <2>5, <2>6
<1>12. Fill(h) <= S  BY <1>2, <1>3, <1>7
<1>13. RingOK(d, h, g)  BY <1>0, <1>1, <1>7, <1>8, <1>11, <1>12 DEF RingOK, S
<1> QED BY <1>7, <1>13 DEF h, b, F

\* What swap_fds hands to write is the beginning of what the ring holds.
LEMMA ChunkIs ==
  ASSUME PowersOfTwo, NEW d \in Ends, NEW f, NEW g, RingOK(d, f, g)
  PROVE  /\ Chunk(f) \in Seq(0..Size[d]) /\ Len(Chunk(f)) \in 0..Fill(f)
         /\ \A k \in 1..Len(Chunk(f)) : Chunk(f)[k] = Plus(d, g, k - 1)
<1> DEFINE S == Size[d]
           o == OutOff(f)
           F == Fill(f)
           i == InOff(f)
           u == kfifo_used(f)
           first == [k \in 1..u |-> f.data[o + k - 1]]
           wrap  == [k \in 1..i |-> f.data[k - 1]]
<1>0. f \in Fifos(d) /\ g \in 0..S /\ F <= S  BY DEF RingOK
<1>1. /\ o \in 0..S-1 /\ F \in 0..S /\ i = Around(d, o + F)
      /\ u = IF F <= S - o THEN F ELSE S - o
  BY <1>0, RingShape
<1>2. S \in Nat /\ S >= 2 /\ g \in Int  BY <1>0, SizeType
<1>3. \A k \in 0..F-1 : f.data[Around(d, o + k)] = Plus(d, g, k)  BY DEF RingOK
<1>4. Chunk(f) = IF 0 < i /\ i < o THEN first \o wrap ELSE first  BY DEF Chunk
<1> HIDE DEF S, o, F, i, u
<1>5. i = IF o + F < S THEN o + F ELSE (o + F) - S  BY <1>1 DEF Around, S
<1>6. u \in Nat /\ i \in Nat /\ u <= F /\ i \in 0..S-1  BY <1>1, <1>2, <1>5
<1>7. \A k \in 0..F-1 : Plus(d, g, k) \in 0..S  BY <1>2, PlusType DEF S
<1>8. ASSUME NEW k \in 1..u
      PROVE  k - 1 \in 0..F-1 /\ f.data[o + k - 1] = Plus(d, g, k - 1)
  <2>1. k - 1 \in 0..F-1 /\ o + k - 1 = o + (k - 1) /\ o + (k - 1) < S  BY <1>1, <1>2, <1>6
  <2>2. Around(d, o + (k - 1)) = o + (k - 1)  BY <2>1 DEF Around, S
  <2> QED BY <1>3, <2>1, <2>2
<1>9. first \in [1..u -> 0..S]  BY <1>7, <1>8
<1>10. first \in Seq(0..S) /\ Len(first) = u
  <2>1. u \in Int  BY <1>6
  <2> HIDE DEF first
  <2> QED BY <1>6, <1>9, <2>1, OnInterval
<1>11. \A k \in 1..u : first[k] = Plus(d, g, k - 1)  BY <1>8
<1>12. CASE 0 < i /\ i < o
  <2>1. o + F >= S /\ u = S - o /\ u + i = F  BY <1>1, <1>2, <1>5, <1>12
  <2>2. ASSUME NEW k \in 1..i
        PROVE  u + (k - 1) \in 0..F-1 /\ f.data[k - 1] = Plus(d, g, u + (k - 1))
    <3>1. u + (k - 1) \in 0..F-1 /\ (o + (u + (k - 1))) - S = k - 1 /\ ~ (o + (u + (k - 1)) < S)
      BY <1>1, <1>2, <1>6, <2>1
    <3>2. Around(d, o + (u + (k - 1))) = k - 1  BY <3>1 DEF Around, S
    <3> QED BY <1>3, <3>1, <3>2
  <2>3. wrap \in [1..i -> 0..S]  BY <1>7, <2>2
  <2>4. wrap \in Seq(0..S) /\ Len(wrap) = i
    <3>1. i \in Int  BY <1>6
    <3> HIDE DEF wrap
    <3> QED BY <1>6, <2>3, <3>1, OnInterval
  <2>5. \A k \in 1..i : wrap[k] = Plus(d, g, u + (k - 1))  BY <2>2
  <2> HIDE DEF first, wrap
  <2>6. Chunk(f) = first \o wrap  BY <1>4, <1>12
  <2>7. Chunk(f) \in Seq(0..S) /\ Len(Chunk(f)) = F
    <3>1. first \o wrap \in Seq(0..S)  BY <1>10, <2>4
    <3>2. Len(first \o wrap) = Len(first) + Len(wrap)  BY <1>10, <2>4
    <3> QED BY <1>10, <2>1, <2>4, <2>6, <3>1, <3>2
  <2>8. ASSUME NEW k \in 1..F PROVE Chunk(f)[k] = Plus(d, g, k - 1)
    <3>1. CASE k <= u
      <4>1. k \in 1..u  BY <1>6, <3>1
      <4>2. Chunk(f)[k] = first[k]  BY <1>10, <2>4, <2>6, <4>1
      <4> QED BY <1>11, <4>1, <4>2
    <3>2. CASE ~ (k <= u)
      <4>1. k - u \in 1..i /\ u + ((k - u) - 1) = k - 1  BY <1>6, <2>1, <3>2
      <4>2. Chunk(f)[k] = wrap[k - u]  BY <1>10, <2>4, <2>6, <3>2, <1>6, <2>1
      <4> QED BY <2>5, <4>1, <4>2
    <3> QED BY <3>1, <3>2
  <2>9. F \in 0..F  BY <1>1, <1>2
  <2> QED BY <2>7, <2>8, <2>9 DEF S, F
<1>13. CASE ~ (0 < i /\ i < o)
  <2> HIDE DEF first, wrap
  <2>1. Chunk(f) = first  BY <1>4, <1>13
  <2>2. u \in 0..F  BY <1>1, <1>2, <1>6
  <2> QED BY <1>10, <1>11, <2>1, <2>2 DEF S, F
<1> QED BY <1>12, <1>13
\* __kfifo_out of n bytes: the ring holds the others.
LEMMA OutEffect ==
  ASSUME PowersOfTwo, NEW d \in Ends, NEW f, NEW g, RingOK(d, f, g), NEW n \in 0..Fill(f)
  PROVE  LET h == kfifo_out(f, n)
         IN  RingOK(d, h, Plus(d, g, n)) /\ Fill(h) = Fill(f) - n
<1> DEFINE h == kfifo_out(f, n)
           S == Size[d]
           o == OutOff(f)
           p == OutOff(h)
           F == Fill(f)
           Gone(k) == \E j \in 0..n-1 : k = And(Unsigned(f.out + j), f.mask)
           dat == [k \in DOMAIN f.data |-> IF Gone(k) THEN Stale ELSE f.data[k]]
<1>0. f \in Fifos(d) /\ g \in 0..S /\ F <= S  BY DEF RingOK
<1>1. /\ f.in \in Word /\ f.out \in Word /\ DOMAIN f.data = 0..S-1 /\ f.mask = S - 1
      /\ S \in Nat /\ S >= 2 /\ g \in Int /\ F \in Nat
  BY <1>0, FifoParts, SizeType
<1>2. n \in Nat /\ n <= F /\ n \in Int /\ n \in 0..S  BY <1>0, <1>1
<1>3. h \in Fifos(d)  BY <1>0, <1>2, OutType
<1>4. /\ o \in 0..S-1 /\ F \in 0..S
      /\ \A k \in 0..S : And(Unsigned(f.out + k), f.mask) = Around(d, o + k)
  BY <1>0, RingShape
<1>5. h = [f EXCEPT !.out = Unsigned(f.out + n), !.data = dat]  BY DEF kfifo_out
<1>6. h.in = f.in /\ h.out = Unsigned(f.out + n) /\ h.mask = f.mask /\ h.data = dat
  <2> HIDE DEF dat, h
  <2> QED BY <1>0, <1>5 DEF Fifos
<1>7. Fill(h) = F - n
  <2>1. F = Unsigned(f.in - f.out)  BY DEF Fill
  <2>2. Unsigned(f.in - Unsigned(f.out + n)) = F - n  BY <1>1, <1>2, <2>1, Counted
  <2> HIDE DEF h
  <2> QED BY <1>6, <2>2 DEF Fill
<1>8. p = Around(d, o + n)
  <2> HIDE DEF h
  <2> QED BY <1>2, <1>4, <1>6 DEF OutOff
<1>9. \A k \in 0..F-1 : f.data[Around(d, o + k)] = Plus(d, g, k)  BY DEF RingOK
<1> HIDE DEF h, S, o, F, p
<1>10. p = IF o + n < S THEN o + n ELSE (o + n) - S  BY <1>8 DEF Around, S
<1>11. ASSUME NEW k \in 0..(F-n)-1
       PROVE  h.data[Around(d, p + k)] = Plus(d, Plus(d, g, n), k)
  <2> DEFINE a == Around(d, p + k)
             l == n + k
  <2>1. k \in Nat /\ l \in 0..F-1 /\ l \in 0..S /\ o \in Nat /\ F \in Nat /\ p \in Nat /\ l \in Nat
    BY <1>1, <1>2, <1>4, <1>10
  <2>2. a = IF p + k < S THEN p + k ELSE (p + k) - S  BY DEF Around, S
  <2>3. Around(d, o + l) = IF o + l < S THEN o + l ELSE (o + l) - S  BY DEF Around, S
  <2>4. a = Around(d, o + l)
    <3>1. CASE o + n < S  BY <1>1, <1>2, <1>10, <2>1, <2>2, <2>3, <3>1
    <3>2. CASE ~ (o + n < S)
      <4>1. p = (o + n) - S /\ ~ (o + l < S)  BY <1>1, <1>2, <1>10, <2>1, <3>2
      <4>2. p + k < S  BY <1>1, <1>2, <1>4, <2>1, <4>1
      <4> QED BY SMTT(30), <1>1, <1>2, <2>1, <2>2, <2>3, <4>1, <4>2
    <3> QED BY <3>1, <3>2
  <2> HIDE DEF a
  <2>5. a \in 0..S-1  BY <1>1, <1>4, <2>1, <2>3, <2>4
  <2>6. ~ Gone(a)
    <3> SUFFICES ASSUME NEW j \in 0..n-1, a = And(Unsigned(f.out + j), f.mask) PROVE FALSE
      OBVIOUS
    <3>1. j \in Nat /\ j < l /\ j \in 0..S  BY <1>1, <1>2, <2>1
    <3>2. a = Around(d, o + j)  BY <1>4, <3>1
    <3>3. Around(d, o + j) = IF o + j < S THEN o + j ELSE (o + j) - S  BY DEF Around, S
    <3> HIDE DEF l
    <3>4. l < S  BY <1>1, <1>4, <2>1
    <3> QED BY <1>1, <1>4, <2>1, <2>3, <2>4, <3>1, <3>2, <3>3, <3>4
  <2> HIDE DEF Gone
  <2>7. dat[a] = f.data[a]  BY <1>1, <2>5, <2>6
  <2>8. f.data[a] = Plus(d, g, l)  BY <1>9, <2>1, <2>4
  <2>9. Plus(d, Plus(d, g, n), k) = Plus(d, g, n + k)
    <3>1. k \in Int /\ n \in Int  BY <1>2, <2>1
    <3> QED BY <1>1, <3>1, PlusPlus
  <2> QED BY <1>6, <2>7, <2>8, <2>9 DEF a
<1>12. Fill(h) <= S  BY <1>1, <1>2, <1>4, <1>7
<1>13. Plus(d, g, n) \in 0..S  BY <1>1, <1>2, PlusType DEF S
<1>14. RingOK(d, h, Plus(d, g, n))  BY <1>3, <1>7, <1>11, <1>12, <1>13 DEF RingOK, S, p
<1> QED BY <1>7, <1>14 DEF h, F

\* An empty ring, new or reset: nothing is used, and it may be reset.
LEMMA EmptyRing ==
  ASSUME NEW d \in Ends, NEW f \in Fifos(d), Fill(f) = 0, NEW g \in 0..Size[d]
  PROVE  RingOK(d, f, g)
BY SizeType DEF RingOK

LEMMA ResetEffect ==
  ASSUME PowersOfTwo, NEW d \in Ends, NEW f, NEW g, RingOK(d, f, g), kfifo_used(f) = 0
  PROVE  RingOK(d, kfifo_reset(f), g) /\ Fill(f) = 0 /\ Fill(kfifo_reset(f)) = 0
<1> DEFINE h == kfifo_reset(f)
<1>1. f \in Fifos(d) /\ Fill(f) <= Size[d] /\ g \in 0..Size[d]  BY DEF RingOK
<1>2. Fill(f) = 0
  <2>1. /\ OutOff(f) \in 0..Size[d]-1 /\ Fill(f) \in 0..Size[d]
        /\ kfifo_used(f) = IF Fill(f) <= Size[d] - OutOff(f) THEN Fill(f) ELSE Size[d] - OutOff(f)
    BY <1>1, RingShape
  <2>2. Size[d] \in Nat  BY SizeType
  <2> QED BY <2>1, <2>2
<1>3. h \in Fifos(d) /\ h.in = 0 /\ h.out = 0
  <2>1. 0 \in Word  BY SizeType
  <2> QED BY <1>1, <2>1 DEF kfifo_reset, Fifos
<1>4. Unsigned(0) = 0  BY SizeType DEF Unsigned
<1> HIDE DEF h
<1>5. Fill(h) = 0  BY <1>3, <1>4 DEF Fill
<1>6. RingOK(d, h, g)  BY <1>1, <1>3, <1>5, EmptyRing
<1> QED BY <1>2, <1>5, <1>6 DEF h

\* What Window reads.
LEMMA WindowIs ==
  ASSUME PowersOfTwo, NEW d \in Ends, NEW f, NEW g, RingOK(d, f, g)
  PROVE  Window(f) = Run(d, g, Fill(f))
<1> DEFINE F == Fill(f)
<1>1. f \in Fifos(d) /\ F <= Size[d] /\ g \in 0..Size[d]  BY DEF RingOK
<1>2. /\ OutOff(f) \in 0..Size[d]-1 /\ F \in 0..Size[d]
      /\ \A k \in 0..Size[d] : And(Unsigned(f.out + k), f.mask) = Around(d, OutOff(f) + k)
  BY <1>1, RingShape
<1>3. f.out \in Nat /\ Size[d] \in Nat  BY <1>1, FifoParts, SizeType
<1>4. \A k \in 0..F-1 : f.data[Around(d, OutOff(f) + k)] = Plus(d, g, k)  BY DEF RingOK
<1> HIDE DEF F
<1>5. ASSUME NEW k \in 1..F
      PROVE  f.data[And(Unsigned(f.out + k - 1), f.mask)] = Plus(d, g, k - 1)
  <2>1. f.out + k - 1 = f.out + (k - 1) /\ k - 1 \in 0..F-1 /\ k - 1 \in 0..Size[d]
    BY <1>2, <1>3
  <2> QED BY <1>2, <1>4, <2>1
<1> QED BY <1>5 DEF Window, Run, F
---------------------------------------------------------------------------
(* Theorems about sizes that are powers of two *)

RingInv == \A d \in Ends : /\ RingOK(d, fifo[d], given[d])
                           /\ taken[d] = Plus(d, given[d], Fill(fifo[d]))

\* New rings are empty.
LEMMA NewRings ==
  ASSUME NEW d \in Ends
  PROVE  RingOK(d, kfifo_alloc(d), 0) /\ Fill(kfifo_alloc(d)) = 0 /\ Plus(d, 0, 0) = 0
<1>1. kfifo_alloc(d) \in Fifos(d) /\ 0 \in 0..Size[d]  BY AllocType, SizeType
<1>2. Unsigned(0) = 0 /\ Plus(d, 0, 0) = 0  BY SizeType DEF Unsigned, Plus
<1>3. Fill(kfifo_alloc(d)) = 0  BY <1>2 DEF Fill, kfifo_alloc
<1> QED BY <1>1, <1>2, <1>3, EmptyRing

LEMMA RingInit == Init => RingInv
BY NewRings DEF Init, RingInv

\* One read, and the one behind it at the beginning of the ring: n + m bytes
\* more, the ones that were read.
LEMMA ReadEffect ==
  ASSUME PowersOfTwo, DataOK, RingInv,
         NEW d \in Ends, NEW n \in Nat, NEW m \in Nat, ReadOf(d, n, m)
  PROVE  RingInv' /\ n > 0 /\ Fill(fifo'[d]) = Fill(fifo[d]) + (n + m)
<1> DEFINE f == fifo[d]
           g == given[d]
           t == taken[d]
           F == Fill(f)
           f1 == kfifo_in(f, Run(d, t, n))
           f2 == kfifo_in(f1, Run(d, t + n, m))
<1>1. RingOK(d, f, g) /\ t = Plus(d, g, F)  BY DEF RingInv
<1>2. f \in Fifos(d) /\ g \in Int /\ F \in Nat /\ t \in Int /\ t + n \in Int
  <2>1. f \in Fifos(d) /\ g \in 0..Size[d] /\ t \in 0..Size[d] /\ Size[d] \in Nat
    BY <1>1, SizeType DEF RingOK, DataOK
  <2> QED BY <2>1, FifoParts
<1>3. n > 0 /\ n <= kfifo_unused(f)
  <2>1. kfifo_unused(f) \in Nat /\ n \in 1..kfifo_unused(f)  BY <1>2, UnusedType DEF ReadOf
  <2> QED BY <2>1
<1>4. Plus(d, t, 0) = Plus(d, g, F)
  <2>1. Plus(d, Plus(d, g, F), 0) = Plus(d, g, F + 0)  BY <1>2, PlusPlus
  <2>2. F + 0 = F  BY <1>2
  <2> QED BY <1>1, <2>1, <2>2
<1>5. RingOK(d, f1, g) /\ Fill(f1) = F + n
  <2> HIDE DEF f, g, t
  <2> QED BY <1>1, <1>2, <1>3, <1>4, InEffect DEF F
<1>6. m <= kfifo_unused(f1)
  <2>1. kfifo_unused(f1) \in Nat
    <3>1. f1 \in Fifos(d)  BY <1>5 DEF RingOK
    <3> HIDE DEF f1
    <3> QED BY <3>1, UnusedType
  <2>2. m \in 0..(IF n = kfifo_unused(f) THEN kfifo_unused(f1) ELSE 0)  BY DEF ReadOf
  <2> HIDE DEF f1, f
  <2> QED BY <2>1, <2>2
<1>7. fifo' = [fifo EXCEPT ![d] = f2] /\ taken' = [taken EXCEPT ![d] = Plus(d, t, n + m)]
      /\ given' = given
  BY DEF ReadOf
<1>8. DOMAIN fifo = Ends /\ DOMAIN taken = Ends  BY DEF DataOK
<1> HIDE DEF f1, f, g, F, t
<1>9. Plus(d, t + n, 0) = Plus(d, g, Fill(f1))
  <2>1. Plus(d, t + n, 0) = Plus(d, t, n)
    <3>1. (t + n) + 0 = t + n  BY <1>2
    <3> QED BY <3>1 DEF Plus
  <2>2. Plus(d, Plus(d, g, F), n) = Plus(d, g, F + n)  BY <1>2, PlusPlus
  <2> QED BY <1>1, <1>5, <2>1, <2>2
<1>10. RingOK(d, f2, g) /\ Fill(f2) = Fill(f1) + m
  BY <1>2, <1>5, <1>6, <1>9, InEffect
<1> HIDE DEF f2
<1>11. Fill(f2) = F + (n + m)  BY <1>2, <1>5, <1>10
<1>12. Plus(d, t, n + m) = Plus(d, g, Fill(f2))
  <2>1. n + m \in Int  OBVIOUS
  <2>2. Plus(d, Plus(d, g, F), n + m) = Plus(d, g, F + (n + m))  BY <1>2, <2>1, PlusPlus
  <2> QED BY <1>1, <1>11, <2>2
<1>13. fifo'[d] = f2 /\ taken'[d] = Plus(d, t, n + m) /\ given'[d] = g  BY <1>7, <1>8 DEF g
<1>14. \A e \in Ends : e # d =>
         fifo'[e] = fifo[e] /\ taken'[e] = taken[e] /\ given'[e] = given[e]
  BY <1>7, <1>8
<1>15. RingInv'
  <2> SUFFICES ASSUME NEW e \in Ends
               PROVE  RingOK(e, fifo'[e], given'[e]) /\ taken'[e] = Plus(e, given'[e], Fill(fifo'[e]))
    BY DEF RingInv
  <2>1. CASE e = d  BY <1>10, <1>12, <1>13, <2>1
  <2>2. CASE e # d  BY <1>14, <2>2 DEF RingInv
  <2> QED BY <2>1, <2>2
<1> QED BY <1>3, <1>11, <1>13, <1>15 DEF F, f

\* One write: the n oldest bytes are given, and they are the ones due.
LEMMA WriteEffect ==
  ASSUME PowersOfTwo, DataOK, RingInv, NEW d \in Ends, NEW n \in Nat, WriteOf(d, n)
  PROVE  /\ RingInv' /\ n > 0 /\ n <= Fill(fifo[d])
         /\ Fill(fifo'[d]) = Fill(fifo[d]) - n
         /\ given' = [given EXCEPT ![d] = Plus(d, given[d], n)]
<1> DEFINE f == fifo[d]
           g == given[d]
           F == Fill(f)
           c == Chunk(f)
           f1 == kfifo_out(f, n)
           f2 == IF kfifo_used(f1) = 0 THEN kfifo_reset(f1) ELSE f1
<1>1. RingOK(d, f, g) /\ taken[d] = Plus(d, g, F)  BY DEF RingInv
<1>2. f \in Fifos(d) /\ g \in Int /\ F \in Nat
  <2>1. f \in Fifos(d) /\ g \in 0..Size[d] /\ Size[d] \in Nat  BY <1>1, SizeType DEF RingOK
  <2> QED BY <2>1, FifoParts
<1>3. /\ c \in Seq(0..Size[d]) /\ Len(c) \in 0..F
      /\ \A k \in 1..Len(c) : c[k] = Plus(d, g, k - 1)
  <2> HIDE DEF f, g
  <2> QED BY <1>1, ChunkIs DEF F
<1>4. n \in 1..Len(c)  BY DEF WriteOf
<1>5. /\ fifo' = [fifo EXCEPT ![d] = f2] /\ taken' = taken
      /\ given' = [given EXCEPT ![d] = IF SubSeq(c, 1, n) = Run(d, g, n)
                                       THEN Plus(d, g, n) ELSE Corrupt]
  BY DEF WriteOf
<1>6. DOMAIN fifo = Ends /\ DOMAIN given = Ends  BY DEF DataOK
<1> HIDE DEF c, f, g, F
<1>7. n > 0 /\ n <= F /\ n \in 0..F /\ n \in Int  BY <1>2, <1>3, <1>4
<1>8. SubSeq(c, 1, n) = Run(d, g, n)
  <2>1. SubSeq(c, 1, n) = [k \in 1..n |-> c[k]]  BY <1>3, <1>4
  <2>2. \A k \in 1..n : c[k] = Plus(d, g, k - 1)  BY <1>3, <1>4
  <2> QED BY <2>1, <2>2 DEF Run
<1>9. given' = [given EXCEPT ![d] = Plus(d, g, n)]  BY <1>5, <1>8
<1>10. RingOK(d, f1, Plus(d, g, n)) /\ Fill(f1) = F - n  BY <1>1, <1>7, OutEffect DEF F
<1> HIDE DEF f1
<1>11. RingOK(d, f2, Plus(d, g, n)) /\ Fill(f2) = F - n
  <2>1. CASE kfifo_used(f1) = 0
    <3>1. /\ RingOK(d, kfifo_reset(f1), Plus(d, g, n)) /\ Fill(f1) = 0
          /\ Fill(kfifo_reset(f1)) = 0
      BY <1>10, <2>1, ResetEffect
    <3> QED BY <1>10, <2>1, <3>1
  <2>2. CASE kfifo_used(f1) # 0  BY <1>10, <2>2
  <2> QED BY <2>1, <2>2
<1> HIDE DEF f2
<1>12. Plus(d, g, F) = Plus(d, Plus(d, g, n), F - n)
  <2>1. F - n \in Int /\ n + (F - n) = F  BY <1>2, <1>7
  <2> QED BY <1>2, <1>7, <2>1, PlusPlus
<1>13. fifo'[d] = f2 /\ taken'[d] = Plus(d, g, F) /\ given'[d] = Plus(d, g, n)
  BY <1>1, <1>5, <1>6, <1>9
<1>14. \A e \in Ends : e # d =>
         fifo'[e] = fifo[e] /\ taken'[e] = taken[e] /\ given'[e] = given[e]
  BY <1>5, <1>6
<1>15. RingInv'
  <2> SUFFICES ASSUME NEW e \in Ends
               PROVE  RingOK(e, fifo'[e], given'[e]) /\ taken'[e] = Plus(e, given'[e], Fill(fifo'[e]))
    BY DEF RingInv
  <2>1. CASE e = d  BY <1>11, <1>12, <1>13, <2>1
  <2>2. CASE e # d  BY <1>14, <2>2 DEF RingInv
  <2> QED BY <2>1, <2>2
<1> QED BY <1>7, <1>9, <1>11, <1>13, <1>15 DEF F, f, g

LEMMA RingStep ==
  ASSUME PowersOfTwo, DataOK, RingInv, [Next]_vars
  PROVE  RingInv'
<1>1. CASE UNCHANGED <<fifo, taken, given>>  BY <1>1 DEF RingInv
<1>2. CASE SwapEnds
  <2>1. \A d \in Ends : fifo'[d] = kfifo_alloc(d) /\ given'[d] = 0 /\ taken'[d] = 0
    BY <1>2 DEF SwapEnds
  <2> QED BY <2>1, NewRings DEF RingInv
<1>3. ASSUME NEW d \in Ends, NEW n \in Nat, NEW m \in Nat, ReadOf(d, n, m) PROVE RingInv'
  BY <1>3, ReadEffect
<1>4. ASSUME NEW d \in Ends, NEW n \in Nat, WriteOf(d, n) PROVE RingInv'
  BY <1>4, WriteEffect
<1> QED BY <1>1, <1>2, <1>3, <1>4, DataSteps

\* struct __kfifo with wrapping indices: what lies between out and in is what
\* was read and not yet written, in order, and no write sent anything else,
\* for every width of the indices and every size that is a power of two; for
\* other sizes the code loses and repeats bytes.
THEOREM InOrder ==
  ASSUME PowersOfTwo
  PROVE  Spec => []BytesInOrder
<1> DEFINE Inv == DataOK /\ RingInv
<1>1. Init => Inv  BY DataInit, RingInit
<1>2. Inv /\ [Next]_vars => Inv'  BY DataStep, RingStep
<1>3. Inv => BytesInOrder
  <2> SUFFICES ASSUME Inv, NEW d \in Ends
               PROVE  /\ given[d] # Corrupt /\ Fill(fifo[d]) <= Size[d]
                      /\ taken[d] = Plus(d, given[d], Fill(fifo[d]))
                      /\ Window(fifo[d]) = Run(d, given[d], Fill(fifo[d]))
    BY DEF BytesInOrder
  <2>1. RingOK(d, fifo[d], given[d]) /\ taken[d] = Plus(d, given[d], Fill(fifo[d]))
    BY DEF RingInv
  <2>2. given[d] \in 0..Size[d] /\ Fill(fifo[d]) <= Size[d] /\ Size[d] \in Nat
    BY <2>1, SizeType DEF RingOK
  <2>3. given[d] # Corrupt  BY <2>2 DEF Corrupt
  <2>4. Window(fifo[d]) = Run(d, given[d], Fill(fifo[d]))  BY <2>1, WindowIs
  <2> QED BY <2>1, <2>2, <2>3, <2>4
<1> HIDE DEF Inv
<1> QED BY <1>1, <1>2, <1>3, PTL DEF Spec
\* The buffer of the abstract stream: what lies between the indices.
Buf == [d \in Ends |-> Window(fifo[d])]

LEMMA BufIs ==
  ASSUME PowersOfTwo, RingInv, NEW d \in Ends
  PROVE  /\ Buf[d] = Run(d, given[d], Fill(fifo[d]))
         /\ given[d] \in Int /\ Fill(fifo[d]) \in Nat /\ Fill(fifo[d]) <= Size[d]
         /\ Len(Buf[d]) = Fill(fifo[d])
<1>1. RingOK(d, fifo[d], given[d])  BY DEF RingInv
<1>2. Window(fifo[d]) = Run(d, given[d], Fill(fifo[d]))  BY <1>1, WindowIs
<1>3. given[d] \in Int /\ Fill(fifo[d]) \in Nat /\ Fill(fifo[d]) <= Size[d]
  <2>1. /\ fifo[d] \in Fifos(d) /\ given[d] \in 0..Size[d] /\ Size[d] \in Nat
        /\ Fill(fifo[d]) <= Size[d]
    BY <1>1, SizeType DEF RingOK
  <2> QED BY <2>1, FifoParts
<1>4. Len(Run(d, given[d], Fill(fifo[d]))) = Fill(fifo[d])  BY <1>3, RunType
<1> QED BY <1>2, <1>3, <1>4 DEF Buf

\* A run of bytes and the run behind it.
LEMMA RunAppend ==
  ASSUME NEW d \in Ends, NEW g \in Int, NEW F \in Nat, NEW n \in Nat
  PROVE  Run(d, g, F + n) = Run(d, g, F) \o Stream!Bytes(d, g + F, n)
<1> DEFINE a == Run(d, g, F)
           b == Stream!Bytes(d, g + F, n)
           r == Run(d, g, F + n)
<1>1. b = [k \in 1..n |-> ((g + F) + k - 1) % (Size[d] + 1)]  BY DEF Stream!Bytes
<1>2. \A k \in 1..n : b[k] = Plus(d, g, (F + k) - 1) /\ b[k] \in 0..Size[d]
  <2> SUFFICES ASSUME NEW k \in 1..n
               PROVE  b[k] = Plus(d, g, (F + k) - 1) /\ b[k] \in 0..Size[d]
    OBVIOUS
  <2>1. (g + F) + k - 1 = g + ((F + k) - 1) /\ (F + k) - 1 \in Int  OBVIOUS
  <2>2. b[k] = Plus(d, g, (F + k) - 1)  BY <1>1, <2>1 DEF Plus, Tags
  <2> QED BY <2>1, <2>2, PlusType
<1>3. b \in [1..n -> 0..Size[d]]
  <2>1. b = [k \in 1..n |-> b[k]]  BY <1>1
  <2> HIDE DEF b
  <2> QED BY <1>2, <2>1
<1> HIDE DEF b
<1>4. b \in Seq(0..Size[d]) /\ Len(b) = n
  <2>1. n \in Int  OBVIOUS
  <2> QED BY <1>3, <2>1, OnInterval
<1>5. /\ a \in Seq(0..Size[d]) /\ Len(a) = F
      /\ \A k \in 1..F : a[k] = Plus(d, g, k - 1)
  BY RunType
<1> HIDE DEF a
<1>6. a \o b = [k \in 1..F+n |-> IF k <= F THEN a[k] ELSE b[k - F]]
  <2> DEFINE q == a \o b
  <2>0. a \in Seq(0..Size[d]) /\ b \in Seq(0..Size[d]) /\ Len(a) = F /\ Len(b) = n
    BY <1>4, <1>5
  <2>1. q \in Seq(0..Size[d]) /\ Len(q) = F + n
    <3>1. q \in Seq(0..Size[d]) /\ Len(q) = Len(a) + Len(b)  BY <2>0
    <3> QED BY <2>0, <3>1
  <2>2. ASSUME NEW k \in 1..F+n PROVE q[k] = IF k <= F THEN a[k] ELSE b[k - F]
    <3>1. k \in 1..Len(a) + Len(b)  BY <2>0
    <3>2. q[k] = IF k <= Len(a) THEN a[k] ELSE b[k - Len(a)]  BY <2>0, <3>1
    <3> QED BY <2>0, <3>2
  <2> HIDE DEF q
  <2>3. q = [k \in 1..F+n |-> q[k]]  BY <2>1
  <2>4. q = [k \in 1..F+n |-> IF k <= F THEN a[k] ELSE b[k - F]]  BY <2>2, <2>3
  <2> QED BY <2>4 DEF q
<1>7. ASSUME NEW k \in 1..F+n PROVE (IF k <= F THEN a[k] ELSE b[k - F]) = Plus(d, g, k - 1)
  <2>1. CASE k <= F
    <3>1. k \in 1..F  BY <2>1
    <3> QED BY <1>5, <2>1, <3>1
  <2>2. CASE ~ (k <= F)
    <3>1. k - F \in 1..n /\ (F + (k - F)) - 1 = k - 1  BY <2>2
    <3> QED BY <1>2, <2>2, <3>1
  <2> QED BY <2>1, <2>2
<1>8. r = a \o b  BY <1>6, <1>7 DEF Run
<1> QED BY <1>8 DEF a, b

\* A run of bytes without the first ones.
LEMMA RunRest ==
  ASSUME NEW d \in Ends, NEW g \in Int, NEW F \in Nat, NEW n \in 0..F
  PROVE  SubSeq(Run(d, g, F), n + 1, F) = Run(d, Plus(d, g, n), F - n)
<1> DEFINE a == Run(d, g, F)
<1>1. /\ a \in Seq(0..Size[d]) /\ Len(a) = F
      /\ \A k \in 1..F : a[k] = Plus(d, g, k - 1)
  BY RunType
<1> HIDE DEF a
<1>2. SubSeq(a, n + 1, F) = [k \in 1..F-n |-> a[n + k]]
  <2>1. SubSeq(a, n + 1, F) = [k \in 1..(F - (n + 1)) + 1 |-> a[(k + (n + 1)) - 1]]
    BY <1>1
  <2>2. (F - (n + 1)) + 1 = F - n  OBVIOUS
  <2>3. \A k \in 1..F-n : (k + (n + 1)) - 1 = n + k  OBVIOUS
  <2> QED BY <2>1, <2>2, <2>3
<1>3. ASSUME NEW k \in 1..F-n PROVE a[n + k] = Plus(d, Plus(d, g, n), k - 1)
  <2>1. n + k \in 1..F /\ (n + k) - 1 = n + (k - 1) /\ n \in Int /\ k - 1 \in Int  OBVIOUS
  <2>2. Plus(d, Plus(d, g, n), k - 1) = Plus(d, g, n + (k - 1))  BY <2>1, PlusPlus
  <2> QED BY <1>1, <2>1, <2>2
<1> QED BY <1>2, <1>3 DEF Run, a

\* Each step of the bridge is a step of the stream.
LEMMA StreamStep ==
  ASSUME PowersOfTwo, DataOK, RingInv, RingInv', [Next]_vars
  PROVE  [Stream!StreamNext]_(Stream!svars)
<1>0. Buf = [d \in Ends |-> Buf[d]] /\ Buf' = [d \in Ends |-> Buf'[d]]  BY DEF Buf
<1>1. \A d \in Ends : Buf'[d] = Run(d, given'[d], Fill(fifo'[d]))
  <2> SUFFICES ASSUME NEW d \in Ends PROVE Buf'[d] = Run(d, given'[d], Fill(fifo'[d]))
    OBVIOUS
  <2>1. RingOK(d, fifo'[d], given'[d])  BY DEF RingInv
  <2>2. Window(fifo'[d]) = Run(d, given'[d], Fill(fifo'[d]))  BY <2>1, WindowIs
  <2> QED BY <2>2 DEF Buf
<1>2. CASE UNCHANGED <<fifo, taken, given>>  BY <1>2 DEF Stream!svars
<1>3. CASE SwapEnds
  <2>1. \A d \in Ends : Fill(fifo'[d]) = 0 /\ given'[d] = 0
    BY <1>3, NewRings DEF SwapEnds
  <2>2. \A d \in Ends : Buf'[d] = << >>
    <3>1. \A d \in Ends : Run(d, 0, 0) = << >>  BY DEF Run
    <3>2. \A d \in Ends : Buf'[d] = Run(d, 0, 0)  BY <1>1, <2>1
    <3> QED BY <3>1, <3>2
  <2>3. Buf' = [d \in Ends |-> << >>] /\ given' = [d \in Ends |-> 0]
    BY <1>0, <1>3, <2>2 DEF SwapEnds
  <2>4. Stream!Drop  BY <2>3 DEF Stream!Drop, Buf
  <2> QED BY <2>4 DEF Stream!StreamNext
<1>4. ASSUME NEW d \in Ends, NEW n \in Nat, NEW m \in Nat, ReadOf(d, n, m)
      PROVE  [Stream!StreamNext]_(Stream!svars)
  <2> DEFINE l == n + m
             F == Fill(fifo[d])
             g == given[d]
  <2>1. n > 0 /\ Fill(fifo'[d]) = F + l  BY <1>4, ReadEffect
  <2>2. /\ Buf[d] = Run(d, g, F) /\ g \in Int /\ F \in Nat /\ Len(Buf[d]) = F
    BY BufIs
  <2>3. F + l <= Size[d] /\ l > 0 /\ l \in Nat /\ l \in 1..Size[d]
    <3>1. Fill(fifo'[d]) <= Size[d]  BY DEF RingInv, RingOK
    <3>2. Size[d] \in Nat  BY SizeType
    <3> QED BY <2>1, <2>2, <3>1, <3>2
  <2>4. given' = given /\ \A e \in Ends : e # d => fifo'[e] = fifo[e]
    BY <1>4 DEF ReadOf, DataOK
  <2> HIDE DEF l, F, g
  <2>5. Buf'[d] = Buf[d] \o Stream!Bytes(d, g + Len(Buf[d]), l)
    <3>1. Buf'[d] = Run(d, g, F + l)  BY <1>1, <2>1, <2>4 DEF g
    <3>2. Run(d, g, F + l) = Run(d, g, F) \o Stream!Bytes(d, g + F, l)
      BY <2>2, <2>3, RunAppend
    <3> HIDE DEF Buf
    <3> QED BY <2>2, <3>1, <3>2
  <2>6. \A e \in Ends : e # d => Buf'[e] = Buf[e]  BY <2>4 DEF Buf
  <2>7. Buf' = [Buf EXCEPT ![d] = Buf[d] \o Stream!Bytes(d, g + Len(Buf[d]), l)]
    BY <1>0, <2>5, <2>6
  <2>8. Stream!Take(d, l)  BY <2>2, <2>3, <2>4, <2>7 DEF Stream!Take, Buf, g
  <2> QED BY <2>3, <2>8 DEF Stream!StreamNext
<1>5. ASSUME NEW d \in Ends, NEW n \in Nat, WriteOf(d, n)
      PROVE  [Stream!StreamNext]_(Stream!svars)
  <2> DEFINE F == Fill(fifo[d])
             g == given[d]
  <2>1. /\ n > 0 /\ n <= F /\ Fill(fifo'[d]) = F - n
        /\ given' = [given EXCEPT ![d] = Plus(d, g, n)]
    BY <1>5, WriteEffect
  <2>2. /\ Buf[d] = Run(d, g, F) /\ g \in Int /\ F \in Nat /\ F <= Size[d] /\ Len(Buf[d]) = F
    BY BufIs
  <2>3. n \in 0..F /\ n \in 1..Size[d]
    <3>1. Size[d] \in Nat  BY SizeType
    <3> QED BY <2>1, <2>2, <3>1
  <2>4. given'[d] = Plus(d, g, n) /\ \A e \in Ends : e # d => fifo'[e] = fifo[e]
    BY <1>5, <2>1 DEF WriteOf, DataOK
  <2> HIDE DEF F, g
  <2>5. Buf'[d] = SubSeq(Buf[d], n + 1, Len(Buf[d]))
    <3>1. Buf'[d] = Run(d, Plus(d, g, n), F - n)  BY <1>1, <2>1, <2>4
    <3> QED BY <2>2, <2>3, <3>1, RunRest
  <2>6. \A e \in Ends : e # d => Buf'[e] = Buf[e]  BY <2>4 DEF Buf
  <2>7. Buf' = [Buf EXCEPT ![d] = SubSeq(Buf[d], n + 1, Len(Buf[d]))]  BY <1>0, <2>5, <2>6
  <2>8. given' = [given EXCEPT ![d] = (given[d] + n) % (Size[d] + 1)]
    BY <2>1 DEF Plus, Tags, g
  <2>9. Stream!Give(d, n)  BY <2>1, <2>2, <2>7, <2>8 DEF Stream!Give, Buf
  <2> QED BY <2>3, <2>9 DEF Stream!StreamNext
<1> QED BY <1>2, <1>3, <1>4, <1>5, DataSteps

\* swap_fds is a pair of bounded first-in first-out streams that lose their
\* contents only when the session ends, for every size that is a power of two.
THEOREM StreamRefinement ==
  ASSUME PowersOfTwo
  PROVE  Spec => ImplementsStream
<1> DEFINE Inv == DataOK /\ RingInv
<1>1. Init => Inv  BY DataInit, RingInit
<1>2. Inv /\ [Next]_vars => Inv'  BY DataStep, RingStep
<1>3. Init => Stream!StreamInit
  <2> SUFFICES ASSUME Init PROVE Stream!StreamInit  OBVIOUS
  <2>1. \A d \in Ends : Fill(fifo[d]) = 0  BY NewRings DEF Init
  <2>2. \A d \in Ends : Window(fifo[d]) = << >>  BY <2>1 DEF Window
  <2> QED BY <2>2 DEF Stream!StreamInit, Init
<1>4. Inv /\ Inv' /\ [Next]_vars => [Stream!StreamNext]_(Stream!svars)  BY StreamStep
<1> HIDE DEF Inv
<1> QED BY <1>1, <1>2, <1>3, <1>4, PTL DEF Spec, ImplementsStream, Stream!StreamSpec
=============================================================================
