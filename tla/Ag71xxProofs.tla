---------------------------- MODULE Ag71xxProofs ----------------------------
(***************************************************************************)
(* Theorems about Ag71xxRx and Ag71xxTx, for every ring, quota, split of   *)
(* packets and number of failed allocations.  A ring has to go into the    *)
(* range of the counters a whole number of times, as the default of 128    *)
(* receive descriptors goes into 2^32: at any other size the driver and    *)
(* the device are out of step once a counter wraps.                        *)
(***************************************************************************)
EXTENDS Ag71xxRx, WellFoundedInduction, TLAPS

SizeDivides ==
  /\ Size \in Nat \ {0} /\ Wrap \in Nat /\ Wrap > Size
  /\ \E n \in Nat \ {0} : Wrap = Size * n

---------------------------------------------------------------------------
(* Remainders *)

\* Division with remainder, and that it is unique.
LEMMA Division ==
  ASSUME NEW M \in Nat \ {0}, NEW x \in Int
  PROVE  x = M * (x \div M) + (x % M) /\ x % M \in 0 .. M - 1 /\ x \div M \in Int
OBVIOUS

LEMMA DivisionIs ==
  ASSUME NEW M \in Nat \ {0}, NEW q \in Int, NEW r \in 0 .. M - 1
  PROVE  (M * q + r) % M = r
OBVIOUS

\* One more or one less, and at most one multiple drops out.
LEMMA ModNext ==
  ASSUME NEW M \in Nat \ {0}, NEW x \in 0 .. M - 1
  PROVE  (x + 1) % M = IF x + 1 = M THEN 0 ELSE x + 1
OBVIOUS

LEMMA ModMinus ==
  ASSUME NEW M \in Nat \ {0}, NEW x \in 0 .. M - 1, NEW y \in 0 .. M - 1
  PROVE  (x - y) % M = IF x >= y THEN x - y ELSE x - y + M
OBVIOUS

\* A multiple drops out of a sum.
LEMMA ModMultiple ==
  ASSUME NEW M \in Nat \ {0}, NEW x \in Int, NEW n \in Int
  PROVE  (M * n + x) % M = x % M
<1> DEFINE q == x \div M
           r == x % M
<1>1. x = M * q + r /\ r \in 0 .. M - 1 /\ q \in Int  BY Division
<1> HIDE DEF q, r
<1>2. M * n + x = M * (n + q) + r  BY <1>1
<1>3. (M * (n + q) + r) % M = r
  <2>1. n + q \in Int  BY <1>1
  <2> QED BY <1>1, <2>1, DivisionIs
<1> QED BY <1>2, <1>3 DEF r

\* The next remainder.
LEMMA ModAfter ==
  ASSUME NEW M \in Nat \ {0}, NEW x \in Int
  PROVE  ((x % M) + 1) % M = (x + 1) % M
<1> DEFINE q == x \div M
           r == x % M
<1>1. x = M * q + r /\ r \in 0 .. M - 1 /\ q \in Int  BY Division
<1> HIDE DEF q, r
<1>2. x + 1 = M * q + (r + 1) /\ r + 1 \in Int  BY <1>1
<1>3. (M * q + (r + 1)) % M = (r + 1) % M  BY <1>1, <1>2, ModMultiple
<1> QED BY <1>2, <1>3 DEF r

---------------------------------------------------------------------------
(* The slots *)

\* A counter that wraps stays in step with the ring.
LEMMA SlotIs ==
  ASSUME SizeDivides, NEW q \in Int
  PROVE  Slot(q) = q % Size
<1>1. PICK n \in Nat \ {0} : Wrap = Size * n  BY DEF SizeDivides
<1> DEFINE d == q \div Wrap
           r == q % Wrap
<1>2. Wrap \in Nat \ {0} /\ Size \in Nat \ {0}  BY DEF SizeDivides
<1>3. q = Wrap * d + r /\ r \in Int /\ d \in Int
  <2>1. q = Wrap * d + r /\ r \in 0 .. Wrap - 1 /\ d \in Int  BY <1>2, Division
  <2> QED BY <1>2, <2>1
<1> HIDE DEF d, r
<1>4. q = Size * (n * d) + r
  <2>1. (Size * n) * d = Size * (n * d)  BY <1>2, <1>3
  <2> QED BY <1>1, <1>3, <2>1
<1>5. (Size * (n * d) + r) % Size = r % Size
  <2>1. n * d \in Int  BY <1>3
  <2> QED BY <1>2, <1>3, <2>1, ModMultiple
<1> QED BY <1>4, <1>5 DEF r, Slot

\* Slots are slots, and the slots of a ring's length of counter values differ.
LEMMA SlotType ==
  ASSUME SizeDivides, NEW q \in Int
  PROVE  Slot(q) \in Slots
<1>1. Size \in Nat \ {0}  BY DEF SizeDivides
<1>2. q % Size \in 0 .. Size - 1  BY <1>1, Division
<1> QED BY <1>2, SlotIs DEF Slots

LEMMA SlotsDiffer ==
  ASSUME SizeDivides, NEW a \in Int, NEW b \in Int, a < b, b < a + Size
  PROVE  Slot(a) # Slot(b)
<1>1. Size \in Nat \ {0}  BY DEF SizeDivides
<1> DEFINE p == a \div Size
           q == b \div Size
           r == a % Size
           s == b % Size
<1>2. a = Size * p + r /\ r \in 0 .. Size - 1 /\ p \in Int  BY <1>1, Division
<1>3. b = Size * q + s /\ s \in 0 .. Size - 1 /\ q \in Int  BY <1>1, Division
<1> HIDE DEF p, q, r, s
<1>4. r # s
  <2> SUFFICES ASSUME r = s PROVE FALSE  OBVIOUS
  <2>1. b - a = Size * (q - p)
    <3>1. Size * (q - p) = Size * q - Size * p  BY <1>1, <1>2, <1>3
    <3>2. Size * q \in Int /\ Size * p \in Int  BY <1>1, <1>2, <1>3
    <3> QED BY <1>2, <1>3, <3>1, <3>2
  <2>2. q - p \in Int /\ b - a > 0 /\ b - a < Size  BY <1>1, <1>2, <1>3
  <2>3. CASE q - p <= 0
    <3>1. Size * (q - p) <= 0  BY <1>1, <2>2, <2>3
    <3> QED BY <2>1, <2>2, <3>1
  <2>4. CASE q - p >= 1
    <3>1. Size * (q - p) >= Size  BY <1>1, <2>2, <2>4
    <3> QED BY <1>1, <2>1, <2>2, <3>1
  <2> QED BY <2>2, <2>3, <2>4
<1> QED BY <1>4, SlotIs DEF r, s

\* Once round the ring.
LEMMA SlotRound ==
  ASSUME SizeDivides, NEW a \in Int
  PROVE  Slot(a + Size) = Slot(a)
<1>1. Size \in Nat \ {0}  BY DEF SizeDivides
<1>2. PICK n \in Int : n = 1  OBVIOUS
<1>3. (Size * n + a) % Size = a % Size  BY <1>1, ModMultiple
<1>4. Size * n + a = a + Size /\ a + Size \in Int  BY <1>1, <1>2
<1> QED BY <1>3, <1>4, SlotIs

\* The device goes on to the next slot.
LEMMA SlotNext ==
  ASSUME SizeDivides, NEW a \in Int
  PROVE  (Slot(a) + 1) % Size = Slot(a + 1)
<1>1. Size \in Nat \ {0} /\ a + 1 \in Int  BY DEF SizeDivides
<1> QED BY <1>1, SlotIs, ModAfter

\* So does a counter of the driver, and the slots after it stay where they are.
LEMMA SlotAfter ==
  ASSUME SizeDivides, NEW c \in 0 .. Wrap - 1, NEW k \in Int
  PROVE  Slot(((c + 1) % Wrap) + k) = Slot(c + (k + 1))
<1>1. Wrap \in Nat \ {0} /\ Size \in Nat \ {0}  BY DEF SizeDivides
<1>2. (c + 1) % Wrap = IF c + 1 = Wrap THEN 0 ELSE c + 1  BY <1>1, ModNext
<1>3. CASE c + 1 = Wrap
  <2>1. PICK n \in Nat \ {0} : Wrap = Size * n  BY DEF SizeDivides
  <2>2. c + (k + 1) = Size * n + k /\ c + (k + 1) \in Int  BY <1>3, <1>1, <2>1
  <2>3. (Size * n + k) % Size = k % Size
    <3>1. n \in Int  OBVIOUS
    <3> QED BY <1>1, <3>1, ModMultiple
  <2>4. Slot(c + (k + 1)) = k % Size  BY <2>2, <2>3, SlotIs
  <2>5. ((c + 1) % Wrap) + k = k  BY <1>2, <1>3
  <2> QED BY <2>4, <2>5, SlotIs
<1>4. CASE c + 1 # Wrap
  <2>1. ((c + 1) % Wrap) + k = c + (k + 1)  BY <1>2, <1>4
  <2> QED BY <2>1
<1> QED BY <1>3, <1>4

\* Once round the range of the counters is where they were.
LEMMA SlotWraps ==
  ASSUME SizeDivides, NEW a \in Int
  PROVE  Slot(Wrap + a) = Slot(a)
<1>1. Size \in Nat \ {0}  BY DEF SizeDivides
<1>2. PICK n \in Nat \ {0} : Wrap = Size * n  BY DEF SizeDivides
<1>3. (Size * n + a) % Size = a % Size
  <2>1. n \in Int  OBVIOUS
  <2> QED BY <1>1, <2>1, ModMultiple
<1>4. Wrap + a \in Int  BY DEF SizeDivides
<1> QED BY <1>2, <1>3, <1>4, SlotIs

---------------------------------------------------------------------------
(* The part of the ring that is in use *)

\* i is one of n descriptors from counter value d on.
Window(i, d, n) == \E j \in 0 .. n - 1 : i = Slot(d + j)

\* How far curr is from dirty, and what a packet and a refill change of it.
LEMMA UsedType ==
  ASSUME ConstAssumption, TypeOK
  PROVE  Used \in 0 .. Size /\ Used = IF curr >= dirty THEN curr - dirty ELSE curr - dirty + Wrap
<1>1. Wrap \in Nat \ {0} /\ Size \in Nat  BY DEF ConstAssumption
<1>2. curr \in 0 .. Wrap - 1 /\ dirty \in 0 .. Wrap - 1 /\ Used <= Size  BY DEF TypeOK
<1>3. Used = IF curr >= dirty THEN curr - dirty ELSE curr - dirty + Wrap
  BY <1>1, <1>2, ModMinus DEF Used
<1> QED BY <1>1, <1>2, <1>3

LEMMA UsedGrows ==
  ASSUME ConstAssumption, TypeOK, Used # Size, curr' = (curr + 1) % Wrap, dirty' = dirty
  PROVE  Used' = Used + 1 /\ curr' \in 0 .. Wrap - 1
<1>1. Wrap \in Nat \ {0} /\ Size \in Nat /\ Size < Wrap  BY DEF ConstAssumption
<1>2. curr \in 0 .. Wrap - 1 /\ dirty \in 0 .. Wrap - 1  BY DEF TypeOK
<1>3. curr' = IF curr + 1 = Wrap THEN 0 ELSE curr + 1  BY <1>1, <1>2, ModNext
<1>4. curr' \in 0 .. Wrap - 1  BY <1>1, <1>2, <1>3
<1>5. Used' = IF curr' >= dirty THEN curr' - dirty ELSE curr' - dirty + Wrap
  <2>1. (curr' - dirty) % Wrap = IF curr' >= dirty THEN curr' - dirty ELSE curr' - dirty + Wrap
    BY <1>1, <1>2, <1>4, ModMinus
  <2> QED BY <2>1 DEF Used
<1> QED BY <1>1, <1>2, <1>3, <1>4, <1>5, UsedType

LEMMA UsedShrinks ==
  ASSUME ConstAssumption, TypeOK, Used > 0, dirty' = (dirty + 1) % Wrap, curr' = curr
  PROVE  Used' = Used - 1 /\ dirty' \in 0 .. Wrap - 1
<1>1. Wrap \in Nat \ {0} /\ Size \in Nat /\ Size < Wrap  BY DEF ConstAssumption
<1>2. curr \in 0 .. Wrap - 1 /\ dirty \in 0 .. Wrap - 1  BY DEF TypeOK
<1>3. dirty' = IF dirty + 1 = Wrap THEN 0 ELSE dirty + 1  BY <1>1, <1>2, ModNext
<1>4. dirty' \in 0 .. Wrap - 1  BY <1>1, <1>2, <1>3
<1>5. Used' = IF curr >= dirty' THEN curr - dirty' ELSE curr - dirty' + Wrap
  <2>1. (curr - dirty') % Wrap = IF curr >= dirty' THEN curr - dirty' ELSE curr - dirty' + Wrap
    BY <1>1, <1>2, <1>4, ModMinus
  <2> QED BY <2>1 DEF Used
<1> QED BY <1>1, <1>2, <1>3, <1>4, <1>5, UsedType

\* curr is where the descriptors end that the driver has processed and not refilled.
LEMMA CurrFollows ==
  ASSUME ConstAssumption, SizeDivides, TypeOK, NEW k \in Int
  PROVE  Slot(curr + k) = Slot(dirty + (Used + k))
<1>1. curr \in Int /\ dirty \in Int /\ Used \in Int /\ Wrap \in Int
  BY UsedType DEF TypeOK, ConstAssumption
<1>2. CASE curr >= dirty
  <2>1. curr + k = dirty + (Used + k)  BY <1>1, <1>2, UsedType
  <2> QED BY <2>1
<1>3. CASE ~ (curr >= dirty)
  <2>1. dirty + (Used + k) = Wrap + (curr + k) /\ curr + k \in Int
    BY <1>1, <1>3, UsedType
  <2> QED BY <2>1, SlotWraps
<1> QED BY <1>2, <1>3

\* A window takes one more descriptor at its end, and is not yet round the ring.
LEMMA WindowGrows ==
  ASSUME SizeDivides, NEW d \in Int, NEW n \in 0 .. Size - 1, NEW i
  PROVE  /\ Window(i, d, n + 1) <=> Window(i, d, n) \/ i = Slot(d + n)
         /\ ~Window(Slot(d + n), d, n)
<1>1. 0 .. (n + 1) - 1 = (0 .. n - 1) \cup {n} /\ n \in Int  OBVIOUS
<1>2. ASSUME NEW j \in 0 .. n - 1 PROVE Slot(d + n) # Slot(d + j)
  <2>1. d + j \in Int /\ d + n \in Int /\ d + j < d + n /\ d + n < (d + j) + Size
    BY DEF SizeDivides
  <2> QED BY <2>1, SlotsDiffer
<1> QED BY <1>1, <1>2 DEF Window

\* And loses its first one, with all of the ring in it at most.
LEMMA WindowShrinks ==
  ASSUME SizeDivides, NEW d \in 0 .. Wrap - 1, NEW n \in 1 .. Size, NEW i
  PROVE  Window(i, (d + 1) % Wrap, n - 1) <=> Window(i, d, n) /\ i # Slot(d)
<1> DEFINE e == (d + 1) % Wrap
<1>1. \A j \in Int : Slot(e + j) = Slot(d + (j + 1))  BY SlotAfter
<1>2. d \in Int /\ Size \in Nat /\ d + 0 = d  BY DEF SizeDivides
<1>3. ASSUME NEW j \in 1 .. n - 1 PROVE Slot(d) # Slot(d + j)
  <2>1. d + j \in Int /\ d < d + j /\ d + j < d + Size  BY <1>2
  <2> QED BY <1>2, <2>1, SlotsDiffer
<1> HIDE DEF e
<1>4. ASSUME Window(i, e, n - 1) PROVE Window(i, d, n) /\ i # Slot(d)
  <2>1. PICK j \in 0 .. (n - 1) - 1 : i = Slot(e + j)  BY <1>4 DEF Window
  <2>2. j + 1 \in 1 .. n - 1 /\ j + 1 \in 0 .. n - 1 /\ j \in Int  BY <2>1
  <2>3. i = Slot(d + (j + 1))  BY <1>1, <2>1, <2>2
  <2> QED BY <1>3, <2>2, <2>3 DEF Window
<1>5. ASSUME Window(i, d, n), i # Slot(d) PROVE Window(i, e, n - 1)
  <2>1. PICK j \in 0 .. n - 1 : i = Slot(d + j)  BY <1>5 DEF Window
  <2>2. j # 0  BY <1>2, <1>5, <2>1
  <2>3. j - 1 \in 0 .. (n - 1) - 1 /\ j - 1 \in Int /\ (j - 1) + 1 = j  BY <2>1, <2>2
  <2>4. i = Slot(e + (j - 1))  BY <1>1, <2>1, <2>3
  <2> QED BY <2>3, <2>4 DEF Window
<1> QED BY <1>4, <1>5 DEF e

\* An empty window, and the first descriptor of another one.
LEMMA WindowEnds ==
  ASSUME NEW d \in Int, NEW i
  PROVE  /\ ~Window(i, d, 0)
         /\ \A n \in Nat \ {0} : Window(Slot(d), d, n)
<1>1. 0 .. 0 - 1 = {} /\ d + 0 = d /\ \A n \in Nat \ {0} : 0 \in 0 .. n - 1  OBVIOUS
<1> QED BY <1>1 DEF Window
---------------------------------------------------------------------------
(* The inductive invariant *)

\* No buffer is missing but those of the descriptors that were processed and not refilled.
Buffers == \A i \in Slots : buf[i] <=> ~Window(i, dirty, Used)

\* The device has filled k descriptors that the driver has not processed, and RX_STATUS
\* counts no more: curr is so far behind the device.
Received(k) ==
  /\ devp = Slot(curr + k) /\ Used + k <= Size /\ pr <= k
  /\ \A i \in Slots : full[i] <=> Window(i, dirty, Used + k)

RingInv == TypeOK /\ Buffers /\ \E k \in 0 .. Size : Received(k)

\* It says more than RxRingOK.
LEMMA RingOK == ASSUME ConstAssumption, RingInv
                PROVE  RxRingOK
<1>0. TypeOK /\ Used \in Int  BY UsedType DEF RingInv
<1>1. DmaHasBuffer  BY DEF RingInv, Buffers, Window, DmaHasBuffer
<1>2. InStep
  <2>1. PICK k \in 0 .. Size : Received(k)  BY DEF RingInv
  <2>2. (Used + k) - 1 = Used + k - 1  BY <1>0
  <2>3. \A i \in Slots : full[i] <=> \E j \in 0 .. Used + k - 1 : i = Slot(dirty + j)
    BY <2>1, <2>2 DEF Received, Window
  <2> QED BY <2>1, <2>3 DEF Received, InStep
<1> QED BY <1>0, <1>1, <1>2 DEF RxRingOK

\* A ring that ag71xx_open or the restart has made.
Fresh ==
  /\ full = [i \in Slots |-> FALSE] /\ buf = [i \in Slots |-> TRUE]
  /\ curr = 0 /\ dirty = 0 /\ devp = 0 /\ pr = 0
  /\ poll = "idle" /\ done \in 0 .. Limit

LEMMA FreshRing ==
  ASSUME ConstAssumption, SizeDivides, Fresh
  PROVE  RingInv
<1> USE DEF Fresh
<1>0. Size \in Nat \ {0} /\ Wrap \in Nat \ {0} /\ Limit \in Nat  BY DEF ConstAssumption
<1>1. Used = 0
  <2>1. (0 - 0) % Wrap = 0  BY <1>0
  <2> QED BY <2>1 DEF Used
<1>2. \A i \in Slots : ~Window(i, dirty, 0)  BY WindowEnds
<1>3. Buffers  BY <1>1, <1>2 DEF Buffers
<1>4. Slot(0) = 0
  <2>1. 0 % Size = 0  BY <1>0
  <2> QED BY <2>1, SlotIs
<1>5. Received(0)  BY <1>0, <1>1, <1>2, <1>4 DEF Received
<1>6. TypeOK
  <2>1. full \in [Slots -> BOOLEAN] /\ buf \in [Slots -> BOOLEAN]  OBVIOUS
  <2>2. 0 \in 0 .. Wrap - 1 /\ 0 \in Slots /\ 0 \in 0 .. Size  BY <1>0 DEF Slots
  <2> QED BY <1>0, <1>1, <2>1, <2>2 DEF TypeOK
<1> QED BY <1>0, <1>3, <1>5, <1>6 DEF RingInv

\* The same in the state after a step.
LEMMA FreshNext ==
  ASSUME ConstAssumption, SizeDivides
  PROVE  Fresh' => RingInv'
<1>1. Fresh => RingInv  BY FreshRing
<1> QED BY <1>1, PTL

\* Steps that leave the ring and the device where they are.
LEMMA RingStays ==
  ASSUME RingInv, ring' = ring, devp' = devp, pr' = pr \/ pr' = 0, TypeOK'
  PROVE  RingInv'
<1>1. full' = full /\ buf' = buf /\ curr' = curr /\ dirty' = dirty  BY DEF ring
<1>2. Used' = Used  BY <1>1 DEF Used
<1>3. Buffers'  BY <1>1, <1>2 DEF RingInv, Buffers, Window
<1>4. ASSUME NEW k \in 0 .. Size, Received(k) PROVE Received(k)'
  BY <1>1, <1>2, <1>4 DEF Received, Window
<1> QED BY <1>3, <1>4 DEF RingInv

---------------------------------------------------------------------------
(* Each step preserves it *)

\* The device fills the descriptor where it is, and goes on.
LEMMA DeviceStep ==
  ASSUME ConstAssumption, SizeDivides, RingInv, DeviceReceives
  PROVE  RingInv'
<1>1. PICK k \in 0 .. Size : Received(k)  BY DEF RingInv
<1>2. TypeOK /\ Used \in 0 .. Size /\ dirty \in Int /\ curr \in Int /\ k \in Int
  BY UsedType DEF RingInv, TypeOK
<1>3. /\ ~full[devp] /\ full' = [full EXCEPT ![devp] = TRUE] /\ devp' = (devp + 1) % Size
      /\ pr' = pr + 1
      /\ UNCHANGED <<buf, curr, dirty, poll, done>>
  BY DEF DeviceReceives
<1> DEFINE n == Used + k
<1>4. devp = Slot(dirty + n) /\ devp \in Slots  BY <1>1, <1>2, CurrFollows DEF Received, TypeOK
<1>5. n \in 0 .. Size - 1
  <2> SUFFICES ASSUME n = Size PROVE FALSE  BY <1>1, <1>2 DEF Received, ConstAssumption
  <2>1. devp = Slot(dirty)  BY <1>2, <1>4, SlotRound
  <2>2. Window(Slot(dirty), dirty, n)  BY <1>2, WindowEnds DEF ConstAssumption
  <2> QED BY <1>1, <1>3, <1>4, <2>1, <2>2 DEF Received
<1>6. Used' = Used  BY <1>3 DEF Used
<1>7. k + 1 \in 0 .. Size /\ Used + (k + 1) = n + 1 /\ n + 1 <= Size
  BY <1>2, <1>5 DEF ConstAssumption
<1>8. devp' = Slot(curr + (k + 1)) /\ devp' \in Slots
  <2>1. devp = Slot(curr + k)  BY <1>1 DEF Received
  <2>2. devp' = Slot((curr + k) + 1)  BY <1>2, <1>3, <2>1, SlotNext
  <2>3. (curr + k) + 1 = curr + (k + 1) /\ (curr + k) + 1 \in Int  BY <1>2
  <2> QED BY <2>2, <2>3, SlotType
<1>9. \A i \in Slots : full'[i] <=> Window(i, dirty, n + 1)
  <2> SUFFICES ASSUME NEW i \in Slots PROVE full'[i] <=> Window(i, dirty, n + 1)
    OBVIOUS
  <2>1. full'[i] <=> full[i] \/ i = devp  BY <1>2, <1>3, <1>4 DEF TypeOK
  <2>2. full[i] <=> Window(i, dirty, n)  BY <1>1 DEF Received
  <2>3. Window(i, dirty, n + 1) <=> Window(i, dirty, n) \/ i = Slot(dirty + n)
    BY <1>2, <1>5, WindowGrows
  <2> QED BY <1>4, <2>1, <2>2, <2>3
<1> HIDE DEF n
<1>10. TypeOK'
  <2>1. full' \in [Slots -> BOOLEAN]  BY <1>2, <1>3 DEF TypeOK
  <2>2. pr' \in 0 .. Size
    <3>1. pr <= k /\ pr \in Nat /\ Size \in Nat
      BY <1>1, <1>2 DEF Received, TypeOK, ConstAssumption
    <3> QED BY <1>2, <1>3, <1>7, <3>1
  <2> QED BY <1>2, <1>3, <1>6, <1>8, <2>1, <2>2 DEF TypeOK
<1>11. Buffers'  BY <1>3, <1>6 DEF RingInv, Buffers, Window
<1>12. Received(k + 1)'
  <2>1. pr' <= k + 1  BY <1>1, <1>2, <1>3 DEF Received, TypeOK
  <2>2. \A i \in Slots : full'[i] <=> Window(i, dirty, Used + (k + 1))
    BY <1>7, <1>9
  <2> QED BY <1>3, <1>6, <1>7, <1>8, <2>1, <2>2 DEF Received, Window
<1> QED BY <1>7, <1>10, <1>11, <1>12 DEF RingInv
\* A round of ag71xx_rx_packets takes the descriptor at curr, which the device has filled.
LEMMA RxPacketStep ==
  ASSUME ConstAssumption, SizeDivides, RingInv, RxPacket
  PROVE  RingInv'
<1>1. PICK k \in 0 .. Size : Received(k)  BY DEF RingInv
<1>2. TypeOK /\ Used \in 0 .. Size /\ dirty \in Int /\ curr \in Int /\ k \in Int
      /\ Size \in Nat /\ Limit \in Nat
  BY UsedType DEF RingInv, TypeOK, ConstAssumption
<1>3. /\ done < Limit /\ full[Slot(curr)] /\ Used # Size
      /\ pr' = IF pr > 0 THEN pr - 1 ELSE 0
      /\ buf' = [buf EXCEPT ![Slot(curr)] = FALSE]
      /\ done' = done + 1 /\ curr' = (curr + 1) % Wrap
      /\ UNCHANGED <<full, dirty, poll, devp>>
  BY DEF RxPacket
<1>4. Used' = Used + 1 /\ curr' \in 0 .. Wrap - 1  BY <1>2, <1>3, UsedGrows
<1>5. Slot(curr) = Slot(dirty + Used) /\ Slot(curr) \in Slots
  <2>1. curr + 0 = curr /\ Used + 0 = Used /\ 0 \in Int  BY <1>2
  <2>2. Slot(curr + 0) = Slot(dirty + (Used + 0))  BY <1>2, CurrFollows
  <2> QED BY <1>2, <2>1, <2>2, SlotType
<1>6. k > 0
  <2> SUFFICES ASSUME k = 0 PROVE FALSE  BY <1>2
  <2>1. ~Window(Slot(dirty + Used), dirty, Used)  BY <1>2, <1>3, WindowGrows
  <2>2. Used + k = Used  BY <1>2
  <2> QED BY <1>1, <1>3, <1>5, <2>1, <2>2 DEF Received
<1>7. k - 1 \in 0 .. Size /\ (Used + 1) + (k - 1) = Used + k /\ (k - 1) + 1 = k /\ k - 1 \in Int
  BY <1>2, <1>6
<1>8. devp = Slot(curr' + (k - 1))
  <2>1. curr \in 0 .. Wrap - 1  BY <1>2 DEF TypeOK
  <2>2. Slot(((curr + 1) % Wrap) + (k - 1)) = Slot(curr + ((k - 1) + 1))
    BY <1>7, <2>1, SlotAfter
  <2> QED BY <1>1, <1>3, <1>7, <2>2 DEF Received
<1>9. pr' \in 0 .. Size /\ pr' <= k - 1
  <2>1. pr <= k /\ pr \in 0 .. Size  BY <1>1, <1>2 DEF Received, TypeOK
  <2> QED BY <1>2, <1>3, <1>6, <2>1
<1>10. TypeOK'
  <2>1. buf' \in [Slots -> BOOLEAN]  BY <1>2, <1>3 DEF TypeOK
  <2>2. done' \in 0 .. Limit  BY <1>2, <1>3 DEF TypeOK
  <2>3. Used' <= Size  BY <1>2, <1>3, <1>4
  <2> QED BY <1>2, <1>3, <1>4, <1>9, <2>1, <2>2, <2>3 DEF TypeOK
<1>11. Buffers'
  <2> SUFFICES ASSUME NEW i \in Slots PROVE buf'[i] <=> ~Window(i, dirty, Used + 1)
    BY <1>3, <1>4 DEF Buffers, Window
  <2>1. buf'[i] <=> buf[i] /\ i # Slot(curr)  BY <1>2, <1>3, <1>5 DEF TypeOK
  <2>2. buf[i] <=> ~Window(i, dirty, Used)  BY DEF RingInv, Buffers
  <2>3. Window(i, dirty, Used + 1) <=> Window(i, dirty, Used) \/ i = Slot(dirty + Used)
    BY <1>2, <1>3, WindowGrows
  <2> QED BY <1>5, <2>1, <2>2, <2>3
<1>12. Received(k - 1)'
  <2>1. \A i \in Slots : full'[i] <=> Window(i, dirty, (Used + 1) + (k - 1))
    BY <1>1, <1>3, <1>7 DEF Received
  <2>2. (Used + 1) + (k - 1) <= Size  BY <1>1, <1>7 DEF Received
  <2> QED BY <1>3, <1>4, <1>8, <1>9, <2>1, <2>2 DEF Received, Window
<1> QED BY <1>7, <1>10, <1>11, <1>12 DEF RingInv

\* A round of ag71xx_ring_rx_refill gives the descriptor at dirty back.
LEMMA RefillStep ==
  ASSUME ConstAssumption, SizeDivides, RingInv, ag71xx_ring_rx_refill
  PROVE  RingInv'
<1>1. PICK k \in 0 .. Size : Received(k)  BY DEF RingInv
<1>2. TypeOK /\ Used \in 0 .. Size /\ dirty \in 0 .. Wrap - 1 /\ curr \in Int /\ k \in Int
      /\ Size \in Nat
  BY UsedType DEF RingInv, TypeOK, ConstAssumption
<1>3. /\ Used > 0
      /\ buf' = [buf EXCEPT ![Slot(dirty)] = TRUE]
      /\ full' = [full EXCEPT ![Slot(dirty)] = FALSE]
      /\ dirty' = (dirty + 1) % Wrap
      /\ UNCHANGED <<curr, poll, done, devp, pr>>
  BY DEF ag71xx_ring_rx_refill, dev
<1>4. Used' = Used - 1 /\ dirty' \in 0 .. Wrap - 1  BY <1>2, <1>3, UsedShrinks
<1>5. Slot(dirty) \in Slots
  <2>1. dirty \in Int  BY <1>2
  <2> QED BY <2>1, SlotType
<1>6. Used \in 1 .. Size /\ Used + k \in 1 .. Size /\ (Used - 1) + k = (Used + k) - 1
  BY <1>1, <1>2, <1>3 DEF Received
<1>7. TypeOK'
  <2>1. buf' \in [Slots -> BOOLEAN]  BY <1>2, <1>3 DEF TypeOK
  <2>2. full' \in [Slots -> BOOLEAN]  BY <1>2, <1>3 DEF TypeOK
  <2>3. Used' <= Size  BY <1>2, <1>4
  <2> QED BY <1>2, <1>3, <1>4, <2>1, <2>2, <2>3 DEF TypeOK
<1>8. Buffers'
  <2> SUFFICES ASSUME NEW i \in Slots
               PROVE  buf'[i] <=> ~Window(i, (dirty + 1) % Wrap, Used - 1)
    BY <1>3, <1>4 DEF Buffers, Window
  <2>1. buf'[i] <=> buf[i] \/ i = Slot(dirty)  BY <1>2, <1>3, <1>5 DEF TypeOK
  <2>2. buf[i] <=> ~Window(i, dirty, Used)  BY DEF RingInv, Buffers
  <2>3. Window(i, (dirty + 1) % Wrap, Used - 1) <=> Window(i, dirty, Used) /\ i # Slot(dirty)
    BY <1>2, <1>6, WindowShrinks
  <2> QED BY <2>1, <2>2, <2>3
<1>9. Received(k)'
  <2>1. \A i \in Slots : full'[i] <=> Window(i, (dirty + 1) % Wrap, (Used + k) - 1)
    <3> SUFFICES ASSUME NEW i \in Slots
                 PROVE  full'[i] <=> Window(i, (dirty + 1) % Wrap, (Used + k) - 1)
      OBVIOUS
    <3>1. full'[i] <=> full[i] /\ i # Slot(dirty)  BY <1>2, <1>3, <1>5 DEF TypeOK
    <3>2. full[i] <=> Window(i, dirty, Used + k)  BY <1>1 DEF Received
    <3>3. Window(i, (dirty + 1) % Wrap, (Used + k) - 1)
            <=> Window(i, dirty, Used + k) /\ i # Slot(dirty)
      BY <1>2, <1>6, WindowShrinks
    <3> QED BY <3>1, <3>2, <3>3
  <2>2. (Used - 1) + k <= Size /\ pr <= k /\ devp = Slot(curr + k)
    BY <1>1, <1>2, <1>6 DEF Received
  <2> QED BY <1>3, <1>4, <1>6, <2>1, <2>2 DEF Received, Window
<1> QED BY <1>7, <1>8, <1>9 DEF RingInv

\* Every step; those that are left do not touch the ring, or make a new one.
LEMMA RingStep ==
  ASSUME ConstAssumption, SizeDivides, RingInv, [Next]_vars
  PROVE  RingInv'
<1> USE DEF dev
<1>0. TypeOK /\ Limit \in Nat /\ Size \in Nat \ {0} /\ Wrap \in Nat
  BY DEF RingInv, ConstAssumption
<1>1. ASSUME ring' = ring, devp' = devp, done' \in 0 .. Limit,
             pr' = pr \/ pr' = 0,
             poll' \in {"idle", "scheduled", "rx", "refill", "complete", "bug"}
      PROVE  RingInv'
  <2>1. TypeOK'
    <3>1. UNCHANGED <<full, buf, curr, dirty>> /\ Used' = Used  BY <1>1 DEF ring, Used
    <3>2. pr' \in 0 .. Size  BY <1>0, <1>1 DEF TypeOK
    <3> QED BY <1>0, <1>1, <3>1, <3>2 DEF TypeOK
  <2> QED BY <1>1, <2>1, RingStays
<1>2. done \in 0 .. Limit /\ poll \in {"idle", "scheduled", "rx", "refill", "complete", "bug"}
  BY <1>0 DEF TypeOK
<1>3. CASE UNCHANGED vars  BY <1>1, <1>2, <1>3 DEF vars
<1>4. CASE DeviceReceives  BY <1>4, DeviceStep
<1>5. CASE DeviceOverflows  BY <1>1, <1>2, <1>5 DEF DeviceOverflows
<1>6. CASE DeviceLoses  BY <1>1, <1>2, <1>6 DEF DeviceLoses, vars
<1>7. CASE ag71xx_interrupt  BY <1>1, <1>2, <1>7 DEF ag71xx_interrupt
<1>8. CASE ag71xx_oom_timer_handler  BY <1>1, <1>2, <1>8 DEF ag71xx_oom_timer_handler
<1>9. CASE PollStart  BY <1>0, <1>1, <1>9 DEF PollStart
<1>10. CASE RxPacket  BY <1>10, RxPacketStep
<1>11. CASE RxAssert  BY <1>1, <1>2, <1>11 DEF RxAssert
<1>12. CASE RxEnd  BY <1>1, <1>2, <1>12 DEF RxEnd
<1>13. CASE ag71xx_ring_rx_refill  BY <1>13, RefillStep
<1>14. CASE RefillFails  BY <1>1, <1>2, <1>14 DEF RefillFails
<1>15. CASE PollStatus  BY <1>1, <1>2, <1>15 DEF PollStatus
<1>16. CASE PollComplete  BY <1>1, <1>2, <1>16 DEF PollComplete
<1>17. CASE LinkDown  BY <1>1, <1>2, <1>17 DEF LinkDown
<1>18. CASE LinkUp  BY <1>1, <1>2, <1>18 DEF LinkUp
<1>19. CASE ag71xx_restart_work_func
  <2>1. Fresh'  BY <1>2, <1>19 DEF ag71xx_restart_work_func, Fresh
  <2> QED BY <2>1, FreshNext
<1> QED
  BY <1>3, <1>4, <1>5, <1>6, <1>7, <1>8, <1>9, <1>10, <1>11, <1>12, <1>13, <1>14, <1>15,
     <1>16, <1>17, <1>18, <1>19
  DEF Next, PollStep

---------------------------------------------------------------------------
(* The theorem *)

\* ag71xx_rx_packets, ag71xx_ring_rx_refill, ag71xx_fast_reset and the restart: at every
\* ring size that goes into the counters, the driver and the device agree on the next
\* descriptor, and the device never has one without a buffer to write to, however many
\* allocations fail and link changes come in between.
THEOREM RingsAgree == ASSUME ConstAssumption, SizeDivides
                      PROVE  Spec => []RxRingOK
<1>1. Init => RingInv
  <2>1. Init => Fresh  BY DEF Init, Fresh, ConstAssumption
  <2> QED BY <2>1, FreshRing
<1>2. RingInv /\ [Next]_vars => RingInv'  BY RingStep
<1> QED BY <1>1, <1>2, RingOK, PTL DEF Spec
---------------------------------------------------------------------------
(* Transmission: Ag71xxTx, with variables of its own *)

CONSTANTS MaxSeg, Is724x, Restarts, MaxFlaps

VARIABLES empty, more, skb, txCurr, txDirty, queueStopped, xmit, napi, link, flaps, adjusting,
          restart, txDevp, txe, ps, txIe

Tx == INSTANCE Ag71xxTx WITH
  curr <- txCurr, dirty <- txDirty, devp <- txDevp, ie <- txIe

\* A set of numbers with a bound has a greatest one.
LEMMA Greatest ==
  ASSUME NEW P \in Nat, NEW E \in SUBSET (1 .. P), E # {}
  PROVE  \E k \in E : \A l \in E : l <= k
<1> DEFINE U == {u \in Nat : \A l \in E : l <= u}
<1>1. U \in SUBSET Nat /\ P \in U  OBVIOUS
<1>2. PICK u \in U : \A w \in U : ~ (<<w, u>> \in OpToRel(<, Nat))
  <2> HIDE DEF U
  <2> QED BY <1>1, WFMin, NatLessThanWellFounded
<1>3. \A n, m \in Nat : <<m, n>> \in OpToRel(<, Nat) <=> m < n  BY DEF OpToRel
<1>4. u \in E
  <2> SUFFICES ASSUME u \notin E PROVE FALSE  OBVIOUS
  <2>1. \A l \in E : l \in 1 .. P /\ l <= u /\ l # u  OBVIOUS
  <2>2. u \in Nat \ {0}
    <3>1. PICK l \in E : TRUE  OBVIOUS
    <3>2. l \in 1 .. P /\ l <= u  BY <2>1
    <3> QED BY <3>2
  <2>3. u - 1 \in U  BY <2>1, <2>2
  <2>4. u - 1 < u /\ u - 1 \in Nat  BY <2>2
  <2>5. <<u - 1, u>> \in OpToRel(<, Nat)  BY <1>3, <2>2, <2>4
  <2> QED BY <1>2, <2>3, <2>5
<1> QED BY <1>4

\* The counters and the packet in work have their types; while fast_reset is at work
\* for a link change the engine is off and nothing is sent; there is no restart.
ResetInv ==
  /\ skb \in [Tx!Slots -> BOOLEAN]
  /\ txCurr \in Nat /\ txDirty \in Nat /\ xmit.n \in Nat /\ xmit.segs \in Nat
  /\ xmit \in [segs : Nat, n : Nat]
  /\ adjusting => ~txe /\ xmit = Tx!NoXmit
  /\ restart = "idle"

\* ag71xx_tx_packets ends at a packet that the device has sent, and so has all before it.
LEMMA CompletedAreSent ==
  ASSUME Tx!ConstAssumption, ResetInv
  PROVE  /\ Tx!Completed(FALSE) \in Nat /\ Tx!Completed(FALSE) <= Tx!Pending
         /\ \A j \in 0 .. Tx!Completed(FALSE) - 1 : empty[Tx!Slot(txDirty + j)]
<1> DEFINE Gone(k) == \A j \in 0 .. k - 1 : FALSE \/ empty[Tx!Slot(txDirty + j)]
           Ends == {k \in 1 .. Tx!Pending : Gone(k) /\ skb[Tx!Slot(txDirty + k - 1)]}
<1>1. Tx!Completed(FALSE)
        = IF Ends = {} THEN 0 ELSE CHOOSE k \in Ends : \A l \in Ends : l <= k
  BY DEF Tx!Completed
<1>2. Tx!Pending \in Nat
  <2>1. Wrap \in Nat \ {0} /\ txCurr - txDirty \in Int  BY DEF Tx!ConstAssumption, ResetInv
  <2>2. (txCurr - txDirty) % Wrap \in 0 .. Wrap - 1  BY <2>1, Division
  <2> QED BY <2>1, <2>2 DEF Tx!Pending
<1>3. Ends \in SUBSET (1 .. Tx!Pending)  OBVIOUS
<1>4. \A k \in Ends : k \in 1 .. Tx!Pending /\ \A j \in 0 .. k - 1 : empty[Tx!Slot(txDirty + j)]
  OBVIOUS
<1> HIDE DEF Ends, Gone
<1>5. Tx!Completed(FALSE) = 0 \/ Tx!Completed(FALSE) \in Ends
  <2>1. Ends # {} => \E k \in Ends : \A l \in Ends : l <= k  BY <1>2, <1>3, Greatest
  <2> QED BY <1>1, <2>1
<1>6. CASE Tx!Completed(FALSE) = 0
  <2>1. 0 \in Nat /\ 0 .. 0 - 1 = {} /\ 0 <= Tx!Pending  BY <1>2
  <2> QED BY <1>6, <2>1
<1>7. CASE Tx!Completed(FALSE) \in Ends
  <2> DEFINE c == Tx!Completed(FALSE)
  <2>1. c \in Ends  BY <1>7
  <2> HIDE DEF c
  <2>2. c \in 1 .. Tx!Pending  BY <1>4, <2>1
  <2>3. c \in Nat /\ c <= Tx!Pending  BY <1>2, <2>2
  <2>4. \A j \in 0 .. c - 1 : empty[Tx!Slot(txDirty + j)]  BY <1>4, <2>1
  <2> QED BY <2>3, <2>4 DEF c
<1> QED BY <1>5, <1>6, <1>7

\* A counter stays a number.
LEMMA CounterType ==
  ASSUME Tx!ConstAssumption, NEW a \in Nat, NEW n \in Nat
  PROVE  (a + n) % Wrap \in Nat
<1>1. Wrap \in Nat \ {0} /\ a + n \in Int  BY DEF Tx!ConstAssumption
<1>2. (a + n) % Wrap \in 0 .. Wrap - 1  BY <1>1, Division
<1> QED BY <1>1, <1>2

\* Each step preserves the invariant.
LEMMA ResetStep ==
  ASSUME Tx!ConstAssumption, Restarts = FALSE, ResetInv, [Tx!Next]_Tx!vars
  PROVE  ResetInv'
<1> USE DEF ResetInv, Tx!NoXmit, Tx!ring, Tx!dev, Tx!CpuFree, Tx!DmaReset
<1>1. CASE \E segs \in 1 .. MaxSeg : Tx!XmitStart(segs)
  <2>1. PICK segs \in 1 .. MaxSeg : Tx!XmitStart(segs)  BY <1>1
  <2>2. segs \in Nat  OBVIOUS
  <2> QED BY <2>1, <2>2 DEF Tx!XmitStart
<1>2. CASE Tx!ag71xx_fill_dma_desc
  <2>1. xmit' = [xmit EXCEPT !.n = @ + 1] /\ xmit.n < xmit.segs
        /\ UNCHANGED <<skb, txCurr, txDirty, adjusting, restart, txe>>
    BY <1>2 DEF Tx!ag71xx_fill_dma_desc
  <2>2. ~adjusting
    <3>1. ~ (0 < 0)  OBVIOUS
    <3> QED BY <2>1, <3>1
  <2> QED BY <2>1, <2>2
<1>3. CASE Tx!XmitDrop  BY <1>3 DEF Tx!XmitDrop
<1>4. CASE Tx!XmitDone
  <2>1. (txCurr + xmit.n) % Wrap \in Nat  BY CounterType
  <2>2. skb' \in [Tx!Slots -> BOOLEAN]  BY <1>4 DEF Tx!XmitDone
  <2> QED BY <1>4, <2>1, <2>2 DEF Tx!XmitDone
<1>5. CASE Tx!DeviceSends  BY <1>5 DEF Tx!DeviceSends
<1>6. CASE Tx!DeviceStops  BY <1>6 DEF Tx!DeviceStops
<1>7. CASE Tx!ag71xx_interrupt  BY <1>7 DEF Tx!ag71xx_interrupt
<1>8. CASE Tx!ag71xx_poll
  <2>1. (txDirty + Tx!Completed(FALSE)) % Wrap \in Nat  BY CompletedAreSent, CounterType
  <2>2. skb' \in [Tx!Slots -> BOOLEAN] /\ txDirty' = (txDirty + Tx!Completed(FALSE)) % Wrap
    BY <1>8 DEF Tx!ag71xx_poll, Tx!ag71xx_tx_packets
  <2>3. UNCHANGED <<txCurr, xmit, adjusting, restart, txe>>  BY <1>8 DEF Tx!ag71xx_poll
  <2> QED BY <2>1, <2>2, <2>3
<1>9. CASE Tx!LinkDown  BY <1>9 DEF Tx!LinkDown
<1>10. CASE Tx!LinkUp  BY <1>10 DEF Tx!LinkUp
<1>11. CASE Tx!LinkReset
  <2>1. skb' \in [Tx!Slots -> BOOLEAN]  BY <1>11 DEF Tx!LinkReset, Tx!ag71xx_fast_reset
  <2> QED BY <1>11, <2>1 DEF Tx!LinkReset, Tx!ag71xx_fast_reset
<1>12. ~Tx!ag71xx_tx_timeout /\ ~Tx!RestartStep
  BY DEF Tx!ag71xx_tx_timeout, Tx!RestartStep, Tx!RestartDisable, Tx!RestartEnable,
         Tx!RestartStop, Tx!RestartFlush, Tx!RestartZero, Tx!RestartStart
<1>13. CASE UNCHANGED Tx!vars  BY <1>13 DEF Tx!vars
<1> QED
  BY <1>1, <1>2, <1>3, <1>4, <1>5, <1>6, <1>7, <1>8, <1>9, <1>10, <1>11, <1>12, <1>13
  DEF Tx!Next, Tx!Xmit

\* ag71xx_dma_reset, "clearing the descriptors too early causes random memory corruption":
\* at every ring size, however packets are split and whatever the link does, a packet that
\* the device has not sent is freed only with the engine stopped, unless the restart runs.
THEOREM ClearedWhenStopped == ASSUME Tx!ConstAssumption, Restarts = FALSE
                              PROVE  Tx!Spec => Tx!StoppedBeforeClear
<1> DEFINE Kept == \A i \in Tx!Slots : skb[i] /\ ~skb'[i] /\ ~empty[i] => ~txe
<1>1. Tx!Init => ResetInv
  <2> SUFFICES ASSUME Tx!Init PROVE ResetInv  OBVIOUS
  <2>1. skb \in [Tx!Slots -> BOOLEAN]  BY DEF Tx!Init
  <2> QED BY <2>1 DEF Tx!Init, ResetInv, Tx!NoXmit
<1>2. ResetInv /\ [Tx!Next]_Tx!vars => ResetInv'  BY ResetStep
<1>3. ResetInv /\ [Tx!Next]_Tx!vars => [Kept]_Tx!vars
  <2> SUFFICES ASSUME ResetInv, Tx!Next, NEW i \in Tx!Slots, skb[i], ~skb'[i], ~empty[i]
               PROVE  ~txe
    OBVIOUS
  <2>1. ~ (UNCHANGED skb)  OBVIOUS
  <2>2. ~Tx!XmitDone
    <3> SUFFICES ASSUME Tx!XmitDone PROVE FALSE  OBVIOUS
    <3>1. PICK k : skb' = [skb EXCEPT ![k] = TRUE]  BY DEF Tx!XmitDone
    <3> QED BY <3>1 DEF ResetInv
  <2>3. ~Tx!ag71xx_poll
    <3> SUFFICES ASSUME Tx!ag71xx_poll PROVE FALSE  OBVIOUS
    <3> DEFINE n == Tx!Completed(FALSE)
    <3>1. skb' = [h \in Tx!Slots |->
                    skb[h] /\ h \notin {Tx!Slot(txDirty + j) : j \in 0 .. n - 1}]
      BY DEF Tx!ag71xx_poll, Tx!ag71xx_tx_packets
    <3>2. i \in {Tx!Slot(txDirty + j) : j \in 0 .. n - 1}  BY <3>1
    <3> QED BY <3>2, CompletedAreSent
  <2>4. ~Tx!ag71xx_tx_timeout /\ ~Tx!RestartStep
    BY DEF ResetInv, Tx!ag71xx_tx_timeout, Tx!RestartStep, Tx!RestartDisable,
           Tx!RestartEnable, Tx!RestartStop, Tx!RestartFlush, Tx!RestartZero, Tx!RestartStart
  <2>5. Tx!LinkReset
    BY <2>1, <2>2, <2>3, <2>4
    DEF Tx!Next, Tx!Xmit, Tx!XmitStart, Tx!ag71xx_fill_dma_desc, Tx!XmitDrop, Tx!DeviceSends,
        Tx!DeviceStops, Tx!ag71xx_interrupt, Tx!LinkDown, Tx!LinkUp, Tx!ring
  <2> QED BY <2>5 DEF Tx!LinkReset, ResetInv
<1> QED BY <1>1, <1>2, <1>3, PTL DEF Tx!Spec, Tx!StoppedBeforeClear
---------------------------------------------------------------------------
(* The transmission ring *)

\* ag71xx_ring_min and AG71XX_TX_RING_DS_PER_PKT: a packet finds room in the ring that is
\* not stopped, also in one that netif_wake_queue has just woken at three quarters.
HasRoom == Size >= Tx!RingMin /\ 4 * (MaxSeg - 1) <= Size

\* A link change resets the ring, or there is none.
ChangesReset == Is724x \/ MaxFlaps = 0

TxAssumption ==
  /\ Tx!ConstAssumption /\ SizeDivides /\ Restarts = FALSE /\ HasRoom /\ ChangesReset

\* The j-th descriptor from dirty on.
At(j) == Slot(txDirty + j)

\* How far the device is from dirty: k descriptors.  Those before it are sent, those from
\* there up to curr are handed over, and behind curr is the packet in work, of which the
\* first descriptor still is EMPTY.  The skb of a packet is with its last descriptor.
TxShape(k) ==
  \A j \in 0 .. Size - 1 :
    /\ skb[At(j)] <=> j < Tx!Pending /\ ~more[At(j)]
    /\ ~empty[At(j)] <=> \/ k <= j /\ j < Tx!Pending
                         \/ Tx!Pending < j /\ j < Tx!Pending + xmit.n
    /\ Tx!Pending <= j /\ j < Tx!Pending + xmit.n => (more[At(j)] <=> j - Tx!Pending + 1 < xmit.segs)

TxTypes ==
  /\ empty \in [Slots -> BOOLEAN] /\ more \in [Slots -> BOOLEAN] /\ skb \in [Slots -> BOOLEAN]
  /\ txCurr \in 0 .. Wrap - 1 /\ txDirty \in 0 .. Wrap - 1
  /\ xmit \in [segs : 0 .. MaxSeg, n : 0 .. MaxSeg] /\ xmit.n <= xmit.segs
  /\ txDevp \in 0 .. Size /\ ps \in 0 .. Size /\ queueStopped \in BOOLEAN /\ flaps \in Nat

TxInv ==
  /\ TxTypes /\ Tx!Pending <= Size /\ restart = "idle"
  /\ xmit # Tx!NoXmit \/ ~queueStopped => Tx!Pending + MaxSeg <= Size
  /\ adjusting => xmit = Tx!NoXmit /\ ~txe
  /\ \E k \in 0 .. Tx!Pending : TxShape(k) /\ (~adjusting => txDevp = At(k))

\* The constants, and the names of Ag71xxTx for slots.
LEMMA TxSizes ==
  ASSUME TxAssumption
  PROVE  /\ Size \in Nat \ {0} /\ Wrap \in Nat \ {0} /\ Size < Wrap /\ MaxSeg \in Nat \ {0}
         /\ MaxSeg <= Size /\ MaxFlaps \in Nat /\ SizeDivides
         /\ Tx!RingMin \in 0 .. Size /\ MaxSeg <= Tx!RingMin
         /\ Tx!Slots = Slots /\ \A q : Tx!Slot(q) = Slot(q)
BY DEF TxAssumption, Tx!ConstAssumption, HasRoom, Tx!RingMin, Tx!Slots, Slots, Tx!Slot, Slot

\* A remainder can be taken before something is added or subtracted.
LEMMA ModAdds ==
  ASSUME NEW M \in Nat \ {0}, NEW x \in Int, NEW y \in Int
  PROVE  ((x % M) + y) % M = (x + y) % M
<1> DEFINE q == x \div M
           r == x % M
<1>1. x = M * q + r /\ r \in 0 .. M - 1 /\ q \in Int  BY Division
<1> HIDE DEF q, r
<1>2. x + y = M * q + (r + y) /\ r + y \in Int  BY <1>1
<1>3. (M * q + (r + y)) % M = (r + y) % M  BY <1>1, <1>2, ModMultiple
<1> QED BY <1>2, <1>3 DEF r

LEMMA ModSubtracts ==
  ASSUME NEW M \in Nat \ {0}, NEW x \in Int, NEW y \in Int
  PROVE  (x - (y % M)) % M = (x - y) % M
<1> DEFINE q == y \div M
           r == y % M
<1>1. y = M * q + r /\ r \in 0 .. M - 1 /\ q \in Int  BY Division
<1> HIDE DEF q, r
<1>2. x - r = M * q + (x - y) /\ x - y \in Int  BY <1>1
<1>3. (M * q + (x - y)) % M = (x - y) % M  BY <1>1, <1>2, ModMultiple
<1> QED BY <1>2, <1>3 DEF r

LEMMA ModSmall == ASSUME NEW M \in Nat \ {0}, NEW x \in 0 .. M - 1 PROVE x % M = x
OBVIOUS

\* So it can in the number of a slot.
LEMMA SlotMod ==
  ASSUME SizeDivides, NEW a \in Int, NEW k \in Int
  PROVE  Slot((a % Wrap) + k) = Slot(a + k)
<1>1. Wrap \in Nat \ {0}  BY DEF SizeDivides
<1>2. a % Wrap \in 0 .. Wrap - 1  BY <1>1, Division
<1>3. ((a % Wrap) + k) % Wrap = (a + k) % Wrap  BY <1>1, ModAdds
<1> QED BY <1>3 DEF Slot

\* What is between dirty and curr.
LEMMA PendingType ==
  ASSUME TxAssumption, TxTypes
  PROVE  Tx!Pending \in 0 .. Wrap - 1
<1>1. Wrap \in Nat \ {0} /\ txCurr - txDirty \in Int  BY TxSizes DEF TxTypes
<1> QED BY <1>1, Division DEF Tx!Pending

LEMMA CurrIs ==
  ASSUME TxAssumption, TxTypes, NEW n \in Int
  PROVE  Slot(txCurr + n) = At(Tx!Pending + n)
<1>1. txCurr - txDirty \in Int /\ txDirty + n \in Int /\ txDirty \in Int /\ SizeDivides
  BY TxSizes DEF TxTypes
<1>2. Slot(((txCurr - txDirty) % Wrap) + (txDirty + n)) = Slot((txCurr - txDirty) + (txDirty + n))
  BY <1>1, SlotMod
<1>3. Tx!Pending \in Int  BY TxSizes, PendingType
<1>4. /\ (txCurr - txDirty) + (txDirty + n) = txCurr + n
      /\ Tx!Pending + (txDirty + n) = txDirty + (Tx!Pending + n)
  BY <1>1, <1>3 DEF TxTypes
<1> QED BY <1>2, <1>4 DEF Tx!Pending, At

LEMMA CurrMoves ==
  ASSUME TxAssumption, TxTypes, NEW n \in Nat, Tx!Pending + n <= Size
  PROVE  /\ (txCurr + n) % Wrap \in 0 .. Wrap - 1
         /\ (((txCurr + n) % Wrap) - txDirty) % Wrap = Tx!Pending + n
         /\ (txCurr + n - txDirty) % Wrap = Tx!Pending + n
<1>1. /\ Wrap \in Nat \ {0} /\ Size < Wrap /\ Size \in Nat /\ txCurr \in Int /\ txDirty \in Int
      /\ txCurr + n \in Int
      /\ txCurr - txDirty \in Int /\ n \in Int /\ -txDirty \in Int /\ txCurr + n - txDirty \in Int
  BY TxSizes DEF TxTypes
<1>2. (txCurr + n) % Wrap \in 0 .. Wrap - 1  BY <1>1, Division
<1>3. (((txCurr - txDirty) % Wrap) + n) % Wrap = ((txCurr - txDirty) + n) % Wrap
  BY <1>1, ModAdds
<1>4. (((txCurr + n) % Wrap) + (-txDirty)) % Wrap = ((txCurr + n) + (-txDirty)) % Wrap
  BY <1>1, ModAdds
<1>5. (txCurr - txDirty) + n = txCurr + n - txDirty /\ (txCurr + n) + (-txDirty) = txCurr + n - txDirty
      /\ ((txCurr + n) % Wrap) + (-txDirty) = ((txCurr + n) % Wrap) - txDirty
  BY <1>1, <1>2
<1>6. Tx!Pending + n \in 0 .. Wrap - 1  BY <1>1, PendingType
<1>7. (Tx!Pending + n) % Wrap = Tx!Pending + n  BY <1>1, <1>6, ModSmall
<1> QED BY <1>2, <1>3, <1>4, <1>5, <1>7 DEF Tx!Pending

LEMMA DirtyMoves ==
  ASSUME TxAssumption, TxTypes, NEW n \in 0 .. Tx!Pending
  PROVE  /\ (txDirty + n) % Wrap \in 0 .. Wrap - 1
         /\ (txCurr - ((txDirty + n) % Wrap)) % Wrap = Tx!Pending - n
         /\ \A j \in Int : Slot(((txDirty + n) % Wrap) + j) = At(n + j)
<1>1. /\ Wrap \in Nat \ {0} /\ txCurr \in Int /\ txDirty \in Int /\ Tx!Pending \in 0 .. Wrap - 1
      /\ SizeDivides
  BY TxSizes, PendingType DEF TxTypes
<1>2. n \in Int /\ txDirty + n \in Int /\ txCurr - txDirty \in Int /\ -n \in Int  BY <1>1
<1>3. (txDirty + n) % Wrap \in 0 .. Wrap - 1  BY <1>1, <1>2, Division
<1>4. (txCurr - ((txDirty + n) % Wrap)) % Wrap = (txCurr - (txDirty + n)) % Wrap
  BY <1>1, <1>2, ModSubtracts
<1>5. (((txCurr - txDirty) % Wrap) + (-n)) % Wrap = ((txCurr - txDirty) + (-n)) % Wrap
  BY <1>1, <1>2, ModAdds
<1>6. (txCurr - txDirty) + (-n) = txCurr - (txDirty + n)  BY <1>1, <1>2
<1>7. Tx!Pending + (-n) = Tx!Pending - n /\ Tx!Pending - n \in 0 .. Wrap - 1  BY <1>1, <1>2
<1>8. (Tx!Pending - n) % Wrap = Tx!Pending - n  BY <1>1, <1>7, ModSmall
<1>9. ASSUME NEW j \in Int PROVE Slot(((txDirty + n) % Wrap) + j) = At(n + j)
  <2>1. Slot(((txDirty + n) % Wrap) + j) = Slot((txDirty + n) + j)  BY <1>1, <1>2, SlotMod
  <2>2. (txDirty + n) + j = txDirty + (n + j)  BY <1>1, <1>2
  <2> QED BY <2>1, <2>2 DEF At
<1> QED BY <1>3, <1>4, <1>5, <1>6, <1>7, <1>8, <1>9 DEF Tx!Pending

\* The descriptors from dirty on are all of the ring, each once.
LEMMA AtType ==
  ASSUME TxAssumption, TxTypes, NEW j \in Int
  PROVE  At(j) \in Slots
<1>1. txDirty + j \in Int /\ SizeDivides  BY TxSizes DEF TxTypes
<1> QED BY <1>1, SlotType DEF At

LEMMA AtDiffer ==
  ASSUME TxAssumption, TxTypes, NEW i \in 0 .. Size - 1, NEW j \in 0 .. Size - 1, At(i) = At(j)
  PROVE  i = j
<1>1. Size \in Nat /\ txDirty \in Int /\ SizeDivides  BY TxSizes DEF TxTypes
<1>2. ASSUME NEW a \in 0 .. Size - 1, NEW b \in 0 .. Size - 1, a < b PROVE At(a) # At(b)
  <2>1. txDirty + a \in Int /\ txDirty + b \in Int /\ txDirty + a < txDirty + b
        /\ txDirty + b < (txDirty + a) + Size
    BY <1>1, <1>2
  <2> QED BY <1>1, <2>1, SlotsDiffer DEF At
<1>3. i < j \/ j < i \/ i = j  BY <1>1
<1> QED BY <1>2, <1>3

LEMMA AtAll ==
  ASSUME TxAssumption, TxTypes, NEW i \in Slots
  PROVE  \E j \in 0 .. Size - 1 : i = At(j)
<1>1. Size \in Nat \ {0} /\ txDirty \in Int /\ i \in Int /\ i \in 0 .. Size - 1 /\ SizeDivides
  BY TxSizes DEF TxTypes, Slots
<1> DEFINE j == (i - txDirty) % Size
<1>2. j \in 0 .. Size - 1 /\ i - txDirty \in Int  BY <1>1, Division
<1>3. (j + txDirty) % Size = ((i - txDirty) + txDirty) % Size  BY <1>1, <1>2, ModAdds
<1>4. (i - txDirty) + txDirty = i /\ j + txDirty = txDirty + j /\ txDirty + j \in Int
  BY <1>1, <1>2
<1>5. i % Size = i  BY <1>1, ModSmall
<1>6. Slot(txDirty + j) = (txDirty + j) % Size  BY <1>1, <1>4, SlotIs
<1> QED BY <1>2, <1>3, <1>4, <1>5, <1>6 DEF At

\* The window of Ag71xxTx is that of the first descriptors.
LEMMA InWindowIs ==
  ASSUME TxAssumption, TxTypes, Tx!Pending <= Size, NEW j \in 0 .. Size - 1
  PROVE  Tx!InWindow(At(j)) <=> j < Tx!Pending
<1>1. Tx!Pending \in Nat /\ Size \in Nat  BY TxSizes, PendingType
<1>2. Tx!InWindow(At(j)) <=> \E k \in 0 .. Tx!Pending - 1 : At(j) = At(k)
  BY TxSizes DEF Tx!InWindow, At
<1>3. \A k \in 0 .. Tx!Pending - 1 : k \in 0 .. Size - 1  BY <1>1
<1>4. ASSUME NEW k \in 0 .. Tx!Pending - 1, At(j) = At(k) PROVE j < Tx!Pending
  <2>1. j = k  BY <1>3, <1>4, AtDiffer
  <2> QED BY <1>1, <2>1
<1>5. j < Tx!Pending => j \in 0 .. Tx!Pending - 1  BY <1>1
<1> QED BY <1>2, <1>4, <1>5

\* What the invariant says of the numbers in it.
LEMMA TxNumbers ==
  ASSUME TxAssumption, TxInv
  PROVE  /\ TxTypes /\ Tx!Pending \in 0 .. Size /\ Size \in Nat \ {0} /\ MaxSeg \in Nat \ {0}
         /\ xmit.n \in Nat /\ xmit.segs \in Nat /\ xmit.n <= xmit.segs /\ xmit.segs <= MaxSeg
         /\ xmit = [segs |-> xmit.segs, n |-> xmit.n]
         /\ xmit.segs # 0 => Tx!Pending + xmit.segs <= Size
<1>1. TxTypes /\ Tx!Pending <= Size  BY DEF TxInv
<1>2. Tx!Pending \in Nat /\ Size \in Nat \ {0} /\ MaxSeg \in Nat \ {0}
  BY <1>1, PendingType, TxSizes
<1>3. /\ xmit \in [segs : 0 .. MaxSeg, n : 0 .. MaxSeg] /\ xmit.n <= xmit.segs
  BY <1>1 DEF TxTypes
<1>4. xmit.segs \in 0 .. MaxSeg /\ xmit.n \in 0 .. MaxSeg /\ xmit = [segs |-> xmit.segs, n |-> xmit.n]
  BY <1>3
<1>5. xmit.segs # 0 => xmit # Tx!NoXmit  BY DEF Tx!NoXmit
<1>6. xmit.segs # 0 => Tx!Pending + MaxSeg <= Size  BY <1>5 DEF TxInv
<1> QED BY <1>1, <1>2, <1>3, <1>4, <1>6

\* Steps that leave the ring and the packet in work.
LEMMA TxStays ==
  ASSUME TxAssumption, TxInv,
         UNCHANGED <<empty, more, skb, txCurr, txDirty, xmit, queueStopped, restart>>,
         ps' \in 0 .. Size, txDevp' \in 0 .. Size, flaps' \in Nat,
         adjusting' => xmit = Tx!NoXmit /\ ~txe', ~adjusting' => ~adjusting /\ txDevp' = txDevp
  PROVE  TxInv'
<1>1. TxTypes'  BY DEF TxInv, TxTypes
<1>2. Tx!Pending' = Tx!Pending  BY DEF Tx!Pending
<1>3. \A j : At(j)' = At(j)  BY DEF At
<1>4. PICK k \in 0 .. Tx!Pending : TxShape(k) /\ (~adjusting => txDevp = At(k))
  BY DEF TxInv
<1>5. TxShape(k)'  BY <1>2, <1>3, <1>4 DEF TxShape
<1>6. ~adjusting' => txDevp' = At(k)'  BY <1>3, <1>4
<1>7. \E h \in 0 .. Tx!Pending' : TxShape(h)' /\ (~adjusting' => txDevp' = At(h)')
  BY <1>2, <1>4, <1>5, <1>6
<1> QED BY <1>1, <1>2, <1>7 DEF TxInv

\* The stack sends a packet: the queue is not stopped, so that there is room.
LEMMA TxStart ==
  ASSUME TxAssumption, TxInv, NEW segs \in 1 .. MaxSeg, Tx!XmitStart(segs)
  PROVE  TxInv'
<1>1. /\ ~adjusting /\ ~queueStopped /\ xmit = Tx!NoXmit /\ xmit' = [segs |-> segs, n |-> 0]
      /\ UNCHANGED <<empty, more, skb, txCurr, txDirty, queueStopped, flaps, adjusting, restart,
                     txDevp, txe, ps>>
  BY DEF Tx!XmitStart, Tx!CpuFree, Tx!ring, Tx!dev
<1>2. TxTypes /\ Tx!Pending \in 0 .. Size /\ MaxSeg \in Nat /\ Tx!Pending + MaxSeg <= Size
  BY <1>1, TxNumbers DEF TxInv
<1>3. xmit.n = 0 /\ xmit'.n = 0 /\ xmit'.segs = segs  BY <1>1 DEF Tx!NoXmit
<1>4. TxTypes'
  <2>1. xmit' \in [segs : 0 .. MaxSeg, n : 0 .. MaxSeg] /\ xmit'.n <= xmit'.segs
    BY <1>1, <1>2
  <2> QED BY <1>1, <1>2, <2>1 DEF TxTypes
<1>5. Tx!Pending' = Tx!Pending  BY <1>1 DEF Tx!Pending
<1>6. \A j : At(j)' = At(j)  BY <1>1 DEF At
<1>7. PICK k \in 0 .. Tx!Pending : TxShape(k) /\ (~adjusting => txDevp = At(k))
  BY DEF TxInv
<1>8. TxShape(k)'
  <2>1. ASSUME NEW j \in 0 .. Size - 1
        PROVE  ~ (Tx!Pending < j /\ j < Tx!Pending + 0) /\ ~ (Tx!Pending <= j /\ j < Tx!Pending + 0)
    BY <1>2
  <2> QED BY <1>1, <1>3, <1>5, <1>6, <1>7, <2>1 DEF TxShape
<1>9. ~adjusting' => txDevp' = At(k)'  BY <1>1, <1>6, <1>7
<1>10. \E h \in 0 .. Tx!Pending' : TxShape(h)' /\ (~adjusting' => txDevp' = At(h)')
  BY <1>5, <1>7, <1>8, <1>9
<1>11. Tx!Pending' <= Size /\ Tx!Pending' + MaxSeg <= Size  BY <1>2, <1>5
<1> QED BY <1>1, <1>4, <1>10, <1>11 DEF TxInv

\* Behind curr all descriptors are empty, so that no packet is dropped.
LEMMA TxNoDrop ==
  ASSUME TxAssumption, TxInv
  PROVE  ~Tx!XmitDrop
<1> SUFFICES ASSUME Tx!XmitDrop PROVE FALSE  OBVIOUS
<1> DEFINE j == Tx!Pending + xmit.n
<1>1. xmit.n < xmit.segs /\ ~empty[Slot(txCurr + xmit.n)]  BY TxSizes DEF Tx!XmitDrop
<1>2. /\ Tx!Pending \in 0 .. Size /\ Size \in Nat /\ xmit.n \in Nat /\ xmit.segs \in Nat
      /\ Tx!Pending + xmit.segs <= Size /\ TxTypes
  BY <1>1, TxNumbers
<1>3. j \in 0 .. Size - 1  BY <1>1, <1>2
<1>4. ~empty[At(j)]  BY <1>1, <1>2, CurrIs
<1>5. PICK k \in 0 .. Tx!Pending : TxShape(k)  BY DEF TxInv
<1>6. j < Tx!Pending \/ j < Tx!Pending + xmit.n  BY <1>3, <1>4, <1>5 DEF TxShape
<1> QED BY <1>2, <1>6

\* A descriptor of the packet is filled; it is behind curr.
LEMMA TxFill ==
  ASSUME TxAssumption, TxInv, Tx!ag71xx_fill_dma_desc
  PROVE  TxInv'
<1> DEFINE P == Tx!Pending
           n == xmit.n
           i == Slot(txCurr + xmit.n)
<1>1. /\ n < xmit.segs
      /\ empty' = [empty EXCEPT ![i] = n = 0]
      /\ more' = [more EXCEPT ![i] = n + 1 < xmit.segs]
      /\ xmit' = [xmit EXCEPT !.n = @ + 1]
      /\ UNCHANGED <<skb, txCurr, txDirty, queueStopped, flaps, adjusting, restart, txDevp, txe, ps>>
  BY TxSizes DEF Tx!ag71xx_fill_dma_desc, Tx!dev
<1>2. /\ P \in 0 .. Size /\ Size \in Nat /\ n \in Nat /\ xmit.segs \in Nat /\ xmit.segs <= MaxSeg
      /\ P + xmit.segs <= Size /\ TxTypes /\ MaxSeg \in Nat
      /\ xmit = [segs |-> xmit.segs, n |-> n]
  BY <1>1, TxNumbers
<1>3. P + n \in 0 .. Size - 1  BY <1>1, <1>2
<1>4. i = At(P + n) /\ i \in Slots  BY <1>2, <1>3, CurrIs, AtType
<1>5. xmit'.n = n + 1 /\ xmit'.segs = xmit.segs /\ xmit' # Tx!NoXmit
  <2>1. xmit' = [segs |-> xmit.segs, n |-> n + 1]  BY <1>1, <1>2
  <2> QED BY <1>1, <1>2, <2>1 DEF Tx!NoXmit
<1>6. TxTypes'
  <2>1. empty' \in [Slots -> BOOLEAN]
    <3>1. (n = 0) \in BOOLEAN  OBVIOUS
    <3> QED BY <1>1, <1>2, <3>1 DEF TxTypes
  <2>3. more' \in [Slots -> BOOLEAN]
    <3>1. (n + 1 < xmit.segs) \in BOOLEAN  OBVIOUS
    <3> QED BY <1>1, <1>2, <3>1 DEF TxTypes
  <2>2. xmit' \in [segs : 0 .. MaxSeg, n : 0 .. MaxSeg] /\ xmit'.n <= xmit'.segs
    <3>1. xmit' = [segs |-> xmit.segs, n |-> n + 1]  BY <1>1, <1>2
    <3>2. n + 1 \in 0 .. MaxSeg /\ xmit.segs \in 0 .. MaxSeg /\ n + 1 <= xmit.segs  BY <1>1, <1>2
    <3> QED BY <3>1, <3>2
  <2> QED BY <1>1, <1>2, <2>1, <2>2, <2>3 DEF TxTypes
<1>7. Tx!Pending' = P  BY <1>1 DEF Tx!Pending
<1>8. \A j : At(j)' = At(j)  BY <1>1 DEF At
<1>9. PICK k \in 0 .. P : TxShape(k) /\ (~adjusting => txDevp = At(k))
  BY DEF TxInv
<1> HIDE DEF P, n, i
<1>10. ASSUME NEW j \in 0 .. Size - 1
       PROVE  /\ skb'[At(j)] <=> j < P /\ ~more'[At(j)]
              /\ ~empty'[At(j)] <=> (k <= j /\ j < P) \/ (P < j /\ j < P + (n + 1))
              /\ P <= j /\ j < P + (n + 1) => (more'[At(j)] <=> j - P + 1 < xmit.segs)
  <2>1. /\ skb[At(j)] <=> j < P /\ ~more[At(j)]
        /\ ~empty[At(j)] <=> (k <= j /\ j < P) \/ (P < j /\ j < P + n)
        /\ P <= j /\ j < P + n => (more[At(j)] <=> j - P + 1 < xmit.segs)
    BY <1>9 DEF TxShape, P, n
  <2>2. At(j) \in Slots  BY <1>2, AtType
  <2>3. CASE j = P + n
    <3>1. At(j) = i  BY <1>4, <2>3
    <3>2. empty'[At(j)] = (n = 0) /\ more'[At(j)] = (n + 1 < xmit.segs) /\ skb'[At(j)] = skb[At(j)]
      BY <1>1, <1>2, <2>2, <3>1 DEF TxTypes
    <3>3. ~ (j < P) /\ (P < j <=> n # 0) /\ j < P + (n + 1) /\ j - P + 1 = n + 1
      BY <1>2, <2>3
    <3> QED BY <2>1, <3>2, <3>3
  <2>4. CASE j # P + n
    <3>1. At(j) # i  BY <1>2, <1>3, <1>4, <2>4, AtDiffer
    <3>2. /\ empty'[At(j)] <=> empty[At(j)]
          /\ more'[At(j)] <=> more[At(j)]
          /\ skb'[At(j)] <=> skb[At(j)]
      BY <1>1, <1>2, <2>2, <3>1 DEF TxTypes
    <3>3. j < P + (n + 1) <=> j < P + n  BY <1>2, <2>4
    <3> QED BY <2>1, <3>2, <3>3
  <2> QED BY <2>3, <2>4
<1>11. TxShape(k)'  BY <1>5, <1>7, <1>8, <1>10 DEF TxShape
<1>12. \E h \in 0 .. Tx!Pending' : TxShape(h)' /\ (~adjusting' => txDevp' = At(h)')
  BY <1>1, <1>7, <1>8, <1>9, <1>11
<1>13. ~adjusting /\ P + MaxSeg <= Size
  <2>1. xmit # Tx!NoXmit  BY <1>1, <1>2 DEF Tx!NoXmit
  <2> QED BY <2>1 DEF TxInv, P
<1>14. Tx!Pending' <= Size /\ Tx!Pending' + MaxSeg <= Size /\ ~adjusting'
  BY <1>1, <1>2, <1>7, <1>13
<1>15. restart' = "idle"  BY <1>1 DEF TxInv
<1> QED BY <1>6, <1>12, <1>14, <1>15 DEF TxInv

\* The packet is handed over: its skb is at its last descriptor, and the queue is
\* stopped unless another one fits in.
LEMMA TxDone ==
  ASSUME TxAssumption, TxInv, Tx!XmitDone
  PROVE  TxInv'
<1> DEFINE P == Tx!Pending
           n == xmit.n
           f == Slot(txCurr)
           l == Slot(txCurr + xmit.n - 1)
<1>1. /\ xmit # Tx!NoXmit /\ n = xmit.segs
      /\ skb' = [skb EXCEPT ![l] = TRUE] /\ empty' = [empty EXCEPT ![f] = FALSE]
      /\ txCurr' = (txCurr + n) % Wrap
      /\ queueStopped' = (queueStopped \/ Tx!Stops((txCurr + n - txDirty) % Wrap))
      /\ xmit' = Tx!NoXmit
      /\ UNCHANGED <<more, txDirty, flaps, adjusting, restart, txDevp, ps>>
  BY TxSizes DEF Tx!XmitDone
<1>2. /\ P \in 0 .. Size /\ Size \in Nat /\ n \in Nat /\ MaxSeg \in Nat /\ TxTypes
      /\ xmit = [segs |-> xmit.segs, n |-> n]
  BY TxNumbers
<1>3. n # 0 /\ P + n <= Size
  <2>1. xmit.segs # 0  BY <1>1, <1>2 DEF Tx!NoXmit
  <2> QED BY <1>1, <2>1, TxNumbers
<1>4. P \in 0 .. Size - 1 /\ P + n - 1 \in 0 .. Size - 1  BY <1>2, <1>3
<1>5. f = At(P) /\ l = At(P + n - 1) /\ f \in Slots /\ l \in Slots
  <2>1. txCurr \in Int  BY <1>2, TxSizes DEF TxTypes
  <2>2. txCurr + 0 = txCurr /\ txCurr + (n - 1) = txCurr + n - 1 /\ n - 1 \in Int /\ 0 \in Int
        /\ P + 0 = P /\ P + (n - 1) = P + n - 1 /\ P \in Int /\ P + n - 1 \in Int
    BY <1>2, <2>1
  <2>3. Slot(txCurr + 0) = At(P + 0) /\ Slot(txCurr + (n - 1)) = At(P + (n - 1))
    BY <1>2, <2>2, CurrIs
  <2> QED BY <1>2, <2>2, <2>3, AtType
<1>6. /\ txCurr' \in 0 .. Wrap - 1 /\ Tx!Pending' = P + n
      /\ (txCurr + n - txDirty) % Wrap = P + n
  BY <1>1, <1>2, <1>3, CurrMoves DEF Tx!Pending
<1>7. PICK k \in 0 .. P : TxShape(k) /\ (~adjusting => txDevp = At(k))
  BY DEF TxInv
<1>8. \A j : At(j)' = At(j)  BY <1>1 DEF At
<1>9. xmit'.n = 0 /\ xmit'.segs = 0 /\ xmit' \in [segs : 0 .. MaxSeg, n : 0 .. MaxSeg]
  BY <1>1, <1>2 DEF Tx!NoXmit
<1>10. TxTypes'
  <2>1. skb' \in [Slots -> BOOLEAN] /\ empty' \in [Slots -> BOOLEAN]  BY <1>1, <1>2 DEF TxTypes
  <2>2. queueStopped' \in BOOLEAN
    <3>1. Tx!Stops((txCurr + n - txDirty) % Wrap) \in BOOLEAN  BY DEF Tx!Stops
    <3> QED BY <1>1, <1>2, <3>1 DEF TxTypes
  <2> QED BY <1>1, <1>2, <1>6, <1>9, <2>1, <2>2 DEF TxTypes
<1>11. ~queueStopped' => P + n + MaxSeg <= Size
  <2> SUFFICES ASSUME ~Tx!Stops(P + n) PROVE P + n + MaxSeg <= Size  BY <1>1, <1>6
  <2>1. Tx!RingMin \in 0 .. Size /\ MaxSeg <= Tx!RingMin /\ Size < Wrap /\ Wrap \in Nat \ {0}
    BY TxSizes
  <2>2. Size - Tx!RingMin \in 0 .. Wrap - 1  BY <1>2, <2>1
  <2>3. (Size - Tx!RingMin) % Wrap = Size - Tx!RingMin  BY <2>1, <2>2, ModSmall
  <2>4. ~ (P + n >= Size - Tx!RingMin)  BY <2>3 DEF Tx!Stops
  <2> QED BY <1>2, <2>1, <2>4
<1> HIDE DEF P, n, f, l
<1>12. ASSUME NEW j \in 0 .. Size - 1
       PROVE  /\ skb'[At(j)] <=> j < P + n /\ ~more'[At(j)]
              /\ ~empty'[At(j)] <=> k <= j /\ j < P + n
  <2>1. /\ skb[At(j)] <=> j < P /\ ~more[At(j)]
        /\ ~empty[At(j)] <=> (k <= j /\ j < P) \/ (P < j /\ j < P + n)
        /\ P <= j /\ j < P + n => (more[At(j)] <=> j - P + 1 < xmit.segs)
    BY <1>7 DEF TxShape, P, n
  <2>2. At(j) \in Slots  BY <1>2, AtType
  <2>3. skb'[At(j)] <=> skb[At(j)] \/ j = P + n - 1
    <3>1. CASE j = P + n - 1
      <4>1. At(j) = l  BY <1>5, <3>1
      <4> QED BY <1>1, <1>2, <2>2, <3>1, <4>1 DEF TxTypes
    <3>2. CASE j # P + n - 1
      <4>1. At(j) # l  BY <1>2, <1>4, <1>5, <3>2, AtDiffer
      <4> QED BY <1>1, <1>2, <2>2, <3>2, <4>1 DEF TxTypes
    <3> QED BY <3>1, <3>2
  <2>4. ~empty'[At(j)] <=> ~empty[At(j)] \/ j = P
    <3>1. CASE j = P
      <4>1. At(j) = f  BY <1>5, <3>1
      <4> QED BY <1>1, <1>2, <2>2, <3>1, <4>1 DEF TxTypes
    <3>2. CASE j # P
      <4>1. At(j) # f  BY <1>2, <1>4, <1>5, <3>2, AtDiffer
      <4> QED BY <1>1, <1>2, <2>2, <3>2, <4>1 DEF TxTypes
    <3> QED BY <3>1, <3>2
  <2>5. more'[At(j)] <=> more[At(j)]  BY <1>1
  <2>6. skb'[At(j)] <=> j < P + n /\ ~more[At(j)]
    <3>1. CASE j < P
      <4>1. j < P + n /\ j # P + n - 1  BY <1>2, <1>3, <3>1
      <4> QED BY <2>1, <2>3, <3>1, <4>1
    <3>2. CASE P <= j /\ j < P + n
      <4>1. ~ (j < P) /\ (j - P + 1 < xmit.segs <=> j # P + n - 1)  BY <1>1, <1>2, <3>2
      <4> QED BY <2>1, <2>3, <3>2, <4>1
    <3>3. CASE P + n <= j
      <4>1. ~ (j < P) /\ ~ (j < P + n) /\ j # P + n - 1  BY <1>2, <3>3
      <4> QED BY <2>1, <2>3, <4>1
    <3> QED BY <1>2, <3>1, <3>2, <3>3
  <2>7. ~empty'[At(j)] <=> k <= j /\ j < P + n
    <3>1. ((k <= j /\ j < P) \/ (P < j /\ j < P + n) \/ j = P) <=> (k <= j /\ j < P + n)
      BY <1>2, <1>3, <1>7
    <3> QED BY <2>1, <2>4, <3>1
  <2> QED BY <2>5, <2>6, <2>7
<1>13. TxShape(k)'
  <2>1. ASSUME NEW j \in 0 .. Size - 1
        PROVE  /\ ~ (P + n < j /\ j < P + n + 0) /\ ~ (P + n <= j /\ j < P + n + 0)
    BY <1>2
  <2> QED BY <1>6, <1>8, <1>9, <1>12, <2>1 DEF TxShape
<1>14. k \in 0 .. P + n /\ P + n <= Size  BY <1>2, <1>3, <1>7
<1>15. \E h \in 0 .. Tx!Pending' : TxShape(h)' /\ (~adjusting' => txDevp' = At(h)')
  BY <1>1, <1>6, <1>7, <1>8, <1>13, <1>14
<1>16. ~adjusting'  BY <1>1 DEF TxInv
<1>17. restart' = "idle"  BY <1>1 DEF TxInv
<1>18. xmit' # Tx!NoXmit \/ ~queueStopped' => Tx!Pending' + MaxSeg <= Size
  BY <1>1, <1>6, <1>11 DEF n
<1> QED BY <1>6, <1>10, <1>14, <1>15, <1>16, <1>17, <1>18 DEF TxInv

\* The device sends what it has come to: the first descriptor that is not sent.
LEMMA TxSends ==
  ASSUME TxAssumption, TxInv, Tx!DeviceSends
  PROVE  TxInv'
<1> DEFINE P == Tx!Pending
           n == xmit.n
<1>1. /\ txe /\ ~empty[txDevp] /\ empty' = [empty EXCEPT ![txDevp] = TRUE]
      /\ txDevp' = (txDevp + 1) % Size /\ ps' = IF ps < Size THEN ps + 1 ELSE ps
      /\ UNCHANGED <<more, skb, txCurr, txDirty, queueStopped, xmit, flaps, adjusting, restart>>
  BY DEF Tx!DeviceSends
<1>2. /\ P \in 0 .. Size /\ Size \in Nat \ {0} /\ n \in Nat /\ MaxSeg \in Nat /\ TxTypes
      /\ ~adjusting /\ SizeDivides
      /\ n # 0 => P + n <= Size
  BY <1>1, TxNumbers, TxSizes DEF TxInv
<1>3. PICK k \in 0 .. P : TxShape(k) /\ txDevp = At(k)
  BY <1>2 DEF TxInv
<1>4. k < P
  <2> SUFFICES ASSUME k = P PROVE FALSE  BY <1>2, <1>3
  <2>1. CASE P < Size
    <3>1. P \in 0 .. Size - 1  BY <1>2, <2>1
    <3>2. (P <= P /\ P < P) \/ (P < P /\ P < P + n)  BY <1>1, <1>3, <3>1 DEF TxShape
    <3> QED BY <1>2, <3>2
  <2>2. CASE P = Size
    <3>1. At(k) = At(0) /\ 0 \in 0 .. Size - 1
      <4>1. txDirty \in Int /\ txDirty + 0 = txDirty  BY <1>2, TxSizes DEF TxTypes
      <4> QED BY <1>2, <2>2, <4>1, SlotRound DEF At
    <3>2. (P <= 0 /\ 0 < P) \/ (P < 0 /\ 0 < P + n)  BY <1>1, <1>3, <3>1 DEF TxShape
    <3> QED BY <1>2, <3>2
  <2> QED BY <1>2, <2>1, <2>2
<1>5. k \in 0 .. Size - 1 /\ k + 1 \in 0 .. P /\ k \in Int  BY <1>2, <1>3, <1>4
<1>6. txDevp' = At(k + 1) /\ txDevp \in Slots /\ txDevp' \in Slots
  <2>1. txDirty + k \in Int /\ (txDirty + k) + 1 = txDirty + (k + 1) /\ k + 1 \in Int
    BY <1>2, <1>5, TxSizes DEF TxTypes
  <2>2. (Slot(txDirty + k) + 1) % Size = Slot((txDirty + k) + 1)  BY <1>2, <2>1, SlotNext
  <2>3. txDevp' = At(k + 1)  BY <1>1, <1>3, <2>1, <2>2 DEF At
  <2> QED BY <1>2, <1>3, <1>5, <2>1, <2>3, AtType
<1>7. TxTypes'
  <2>1. empty' \in [Slots -> BOOLEAN]  BY <1>1, <1>2 DEF TxTypes
  <2>2. txDevp' \in 0 .. Size  BY <1>2, <1>6 DEF Slots
  <2>3. ps' \in 0 .. Size  BY <1>1, <1>2 DEF TxTypes
  <2> QED BY <1>1, <1>2, <2>1, <2>2, <2>3 DEF TxTypes
<1>8. Tx!Pending' = P  BY <1>1 DEF Tx!Pending
<1>9. \A j : At(j)' = At(j)  BY <1>1 DEF At
<1> HIDE DEF P, n
<1>10. ASSUME NEW j \in 0 .. Size - 1
       PROVE  ~empty'[At(j)] <=> (k + 1 <= j /\ j < P) \/ (P < j /\ j < P + n)
  <2>1. ~empty[At(j)] <=> (k <= j /\ j < P) \/ (P < j /\ j < P + n)
    BY <1>3 DEF TxShape, P, n
  <2>2. At(j) \in Slots  BY <1>2, AtType
  <2>3. CASE j = k
    <3>1. empty'[At(j)]  BY <1>1, <1>2, <1>3, <1>6, <2>3 DEF TxTypes
    <3>2. ~ (k + 1 <= j) /\ ~ (P < j)  BY <1>2, <1>4, <1>5, <2>3
    <3> QED BY <3>1, <3>2
  <2>4. CASE j # k
    <3>1. At(j) # txDevp  BY <1>2, <1>3, <1>5, <2>4, AtDiffer
    <3>2. empty'[At(j)] <=> empty[At(j)]  BY <1>1, <1>2, <2>2, <3>1 DEF TxTypes
    <3>3. k + 1 <= j <=> k <= j  BY <1>5, <2>4
    <3> QED BY <2>1, <3>2, <3>3
  <2> QED BY <2>3, <2>4
<1>11. TxShape(k + 1)'  BY <1>1, <1>3, <1>8, <1>9, <1>10 DEF TxShape, P, n
<1>12. \E h \in 0 .. Tx!Pending' : TxShape(h)' /\ (~adjusting' => txDevp' = At(h)')
  BY <1>5, <1>6, <1>8, <1>9, <1>11
<1>13. Tx!Pending' <= Size  BY <1>2, <1>8
<1>14. /\ restart' = "idle" /\ ~adjusting'
       /\ xmit' # Tx!NoXmit \/ ~queueStopped' => Tx!Pending' + MaxSeg <= Size
  BY <1>1, <1>2, <1>8 DEF TxInv, P
<1> QED BY <1>7, <1>12, <1>13, <1>14 DEF TxInv

\* What is completed has been sent, so that the device is not among it.
LEMMA TxCompleted ==
  ASSUME TxAssumption, TxInv, ~adjusting, NEW k \in 0 .. Tx!Pending, TxShape(k)
  PROVE  Tx!Completed(FALSE) \in 0 .. k
<1>1. /\ Tx!Pending \in 0 .. Size /\ Size \in Nat /\ TxTypes /\ xmit.n \in Nat /\ xmit.segs \in Nat
      /\ xmit = [segs |-> xmit.segs, n |-> xmit.n]
  BY TxNumbers
<1>2. Tx!ConstAssumption /\ ResetInv
  <2>1. txCurr \in Nat /\ txDirty \in Nat /\ skb \in [Tx!Slots -> BOOLEAN]
    BY <1>1, TxSizes DEF TxTypes
  <2>2. xmit \in [segs : Nat, n : Nat]  BY <1>1
  <2> QED BY <1>1, <2>1, <2>2 DEF TxAssumption, ResetInv, TxInv
<1>3. PICK n \in Nat : /\ n = Tx!Completed(FALSE) /\ n <= Tx!Pending
                      /\ \A j \in 0 .. n - 1 : empty[Tx!Slot(txDirty + j)]
  BY <1>2, CompletedAreSent
<1>4. k \in Nat /\ k <= Tx!Pending /\ Tx!Pending \in Nat /\ Tx!Pending <= Size /\ Size \in Nat
  <2> HIDE DEF TxTypes
  <2> QED BY <1>1
<1>5. n <= k
  <2> SUFFICES ASSUME ~ (n <= k) PROVE FALSE  OBVIOUS
  <2>1. k \in 0 .. n - 1 /\ k \in 0 .. Size - 1 /\ k < Tx!Pending
    <3>1. k < n  BY <1>4
    <3>2. n <= Tx!Pending  BY <1>3
    <3> QED BY <1>4, <3>1, <3>2
  <2>2. empty[At(k)]  BY <1>3, <2>1, TxSizes DEF At
  <2> QED BY <2>1, <2>2 DEF TxShape
<1>6. n \in 0 .. k  BY <1>4, <1>5
<1> QED BY <1>3, <1>6

\* ag71xx_tx_packets frees the first n descriptors; the rest moves up.
LEMMA TxPoll ==
  ASSUME TxAssumption, TxInv, Tx!ag71xx_poll
  PROVE  TxInv'
<1> DEFINE P == Tx!Pending
<1>1. /\ xmit = Tx!NoXmit /\ ~adjusting /\ restart = "idle" /\ Restarts = FALSE
  BY DEF Tx!ag71xx_poll, Tx!CpuFree, TxInv, TxAssumption
<1>3. P \in 0 .. Size /\ Size \in Nat \ {0} /\ MaxSeg \in Nat \ {0} /\ TxTypes  BY TxNumbers
<1>4. PICK k \in 0 .. P : TxShape(k) /\ txDevp = At(k)
  BY <1>1 DEF TxInv
<1>5. PICK n \in 0 .. k : n = Tx!Completed(FALSE)  BY <1>1, <1>4, TxCompleted
<1> DEFINE gone == {Slot(txDirty + j) : j \in 0 .. n - 1}
<1>2. /\ skb' = [i \in Slots |-> skb[i] /\ i \notin gone]
      /\ empty' = [i \in Slots |-> empty[i] \/ (FALSE /\ Tx!InWindow(i))]
      /\ more' = [i \in Slots |-> more[i] /\ i \notin gone]
      /\ txDirty' = (txDirty + n) % Wrap
      /\ ps' = IF ps > n THEN ps - n ELSE 0
      /\ queueStopped' = (queueStopped /\ ~Tx!Wakes(n))
      /\ UNCHANGED <<txCurr, xmit, flaps, adjusting, txDevp, txe>>
      /\ restart' = "idle"
  BY <1>1, <1>5, TxSizes DEF Tx!ag71xx_poll, Tx!ag71xx_tx_packets
<1>6. n \in 0 .. P /\ P - n \in 0 .. Size /\ n \in Nat /\ k \in Nat /\ k - n \in 0 .. P - n
  <2> HIDE DEF P, gone
  <2>1. P \in Nat /\ P <= Size /\ Size \in Nat  BY <1>3
  <2>2. k \in Nat /\ k <= P  BY <2>1
  <2>3. n \in Nat /\ n <= k  BY <2>2
  <2> QED BY <2>1, <2>2, <2>3
<1>7. /\ txDirty' \in 0 .. Wrap - 1 /\ Tx!Pending' = P - n
      /\ \A j \in Int : At(j)' = At(n + j)
  BY <1>2, <1>3, <1>6, DirtyMoves DEF Tx!Pending, At
<1> HIDE DEF P
<1>8. TxTypes'
  <2>1. /\ skb' \in [Slots -> BOOLEAN] /\ empty' \in [Slots -> BOOLEAN]
        /\ more' \in [Slots -> BOOLEAN]
    <3>1. \A i \in Slots : /\ (skb[i] /\ i \notin gone) \in BOOLEAN
                           /\ (more[i] /\ i \notin gone) \in BOOLEAN
                           /\ (empty[i] \/ (FALSE /\ Tx!InWindow(i))) \in BOOLEAN
      OBVIOUS
    <3> HIDE DEF gone
    <3> QED BY <1>2, <3>1
  <2>2. ps' \in 0 .. Size
    <3>1. ps \in 0 .. Size /\ n \in Nat  BY <1>3, <1>5, <1>6 DEF TxTypes
    <3> QED BY <1>2, <1>3, <3>1
  <2>3. queueStopped' \in BOOLEAN  BY <1>2
  <2> QED BY <1>2, <1>3, <1>7, <2>1, <2>2, <2>3 DEF TxTypes
<1>9. ~queueStopped' => (P - n) + MaxSeg <= Size
  <2>1. CASE ~queueStopped
    <3>1. P + MaxSeg <= Size  BY <2>1 DEF TxInv, P
    <3> QED BY <1>3, <1>6, <3>1
  <2>2. CASE Tx!Wakes(n)
    <3>1. P - n < (Size * 3) \div 4  BY <2>2 DEF Tx!Wakes, P
    <3>2. 4 * (MaxSeg - 1) <= Size  BY DEF TxAssumption, HasRoom
    <3> QED BY <1>3, <1>6, <3>1, <3>2
  <2> QED BY <1>2, <2>1, <2>2
<1>10. xmit.n = 0 /\ xmit'.n = 0 /\ xmit'.segs = 0 /\ xmit' = Tx!NoXmit  BY <1>1, <1>2 DEF Tx!NoXmit
<1>11. ASSUME NEW j \in 0 .. Size - 1
       PROVE  /\ At(j) \in Slots
              /\ At(j) \in gone <=> j < n
              /\ skb'[At(j)] <=> (n <= j /\ j < P /\ ~more'[At(j)])
              /\ ~empty'[At(j)] <=> k <= j /\ j < P
  <2>1. /\ skb[At(j)] <=> j < P /\ ~more[At(j)]
        /\ ~empty[At(j)] <=> (k <= j /\ j < P) \/ (P < j /\ j < P + xmit.n)
    BY <1>4 DEF TxShape, P
  <2>2. At(j) \in Slots  BY <1>3, AtType
  <2>3. At(j) \in gone <=> j < n
    <3>1. ASSUME NEW h \in 0 .. n - 1, At(j) = At(h) PROVE j < n
      <4>1. h \in 0 .. Size - 1  BY <1>3, <1>6
      <4>2. j = h  BY <1>3, <3>1, <4>1, AtDiffer
      <4> QED BY <1>6, <4>2
    <3>2. j < n => j \in 0 .. n - 1  BY <1>6
    <3> QED BY <3>1, <3>2 DEF At
  <2>4. /\ skb'[At(j)] <=> skb[At(j)] /\ ~ (At(j) \in gone)
        /\ more'[At(j)] <=> more[At(j)] /\ ~ (At(j) \in gone)
        /\ empty'[At(j)] <=> empty[At(j)]
    <3> HIDE DEF gone
    <3> QED BY <1>2, <2>2
  <2> HIDE DEF gone
  <2>5. ~ (P < j /\ j < P + xmit.n)  BY <1>3, <1>10
  <2>6. j < n <=> ~ (n <= j)  BY <1>6
  <2> QED BY <2>1, <2>2, <2>3, <2>4, <2>5, <2>6
<1>12. ASSUME NEW j \in 0 .. Size - 1
       PROVE  /\ skb'[At(n + j)] <=> j < P - n /\ ~more'[At(n + j)]
              /\ ~empty'[At(n + j)] <=> k - n <= j /\ j < P - n
  <2>1. CASE n + j < Size
    <3>1. n + j \in 0 .. Size - 1  BY <1>3, <1>6, <2>1
    <3>2. /\ n <= n + j /\ (n + j < P <=> j < P - n) /\ (k <= n + j <=> k - n <= j)
      BY <1>3, <1>4, <1>6
    <3> QED BY <1>11, <3>1, <3>2
  <2>2. CASE n + j >= Size
    <3> DEFINE h == n + j - Size
    <3>1. h \in 0 .. Size - 1 /\ h < n  BY <1>3, <1>6, <2>2
    <3>2. At(n + j) = At(h)
      <4>1. txDirty + h \in Int /\ (txDirty + h) + Size = txDirty + (n + j)
        BY <1>3, <1>6, TxSizes DEF TxTypes
      <4> QED BY <4>1, SlotRound, TxSizes DEF At
    <3>3. ~skb'[At(h)] /\ empty'[At(h)]
      <4>1. h \in Int /\ h < n /\ n \in Nat /\ k \in Nat /\ n <= k  BY <1>6, <3>1
      <4>2. ~ (n <= h) /\ ~ (k <= h)  BY <4>1
      <4> HIDE DEF h
      <4> QED BY <1>11, <3>1, <4>2
    <3>4. ~ (j < P - n)  BY <1>3, <1>6, <2>2
    <3> QED BY <3>2, <3>3, <3>4
  <2> QED BY <1>3, <1>6, <2>1, <2>2
<1>13. PICK h \in 0 .. P - n : h = k - n  BY <1>6
<1>14. TxShape(h)'
  <2>1. ASSUME NEW j \in 0 .. Size - 1
        PROVE  /\ At(j)' = At(n + j)
               /\ ~ (P - n < j /\ j < P - n + 0)
               /\ ~ (P - n <= j /\ j < P - n + 0)
    BY <1>3, <1>6, <1>7
  <2>2. ASSUME NEW j \in 0 .. Size - 1
        PROVE  /\ skb'[At(j)'] <=> j < P - n /\ ~more'[At(j)']
               /\ ~empty'[At(j)'] <=> h <= j /\ j < P - n
    BY <1>12, <1>13, <2>1
  <2> QED BY <1>7, <1>10, <2>1, <2>2 DEF TxShape
<1>15. txDevp' = At(h)'
  <2>1. h \in Int /\ n + h = k  BY <1>6, <1>13
  <2>2. At(h)' = At(n + h)  BY <1>7, <2>1
  <2> QED BY <1>2, <1>4, <2>1, <2>2
<1>16. \E g \in 0 .. Tx!Pending' : TxShape(g)' /\ (~adjusting' => txDevp' = At(g)')
  BY <1>7, <1>14, <1>15
<1>17. Tx!Pending' <= Size  BY <1>3, <1>6, <1>7
<1>18. xmit' # Tx!NoXmit \/ ~queueStopped' => Tx!Pending' + MaxSeg <= Size
  BY <1>7, <1>9, <1>10
<1>19. ~adjusting' /\ restart' = "idle"  BY <1>1, <1>2
<1> QED BY <1>8, <1>16, <1>17, <1>18, <1>19 DEF TxInv

\* A ring that is new or was flushed.
LEMMA TxFresh ==
  ASSUME TxAssumption, \A i \in Slots : ~skb[i] /\ empty[i], TxTypes, txCurr = 0, txDirty = 0,
         txDevp = 0, xmit = Tx!NoXmit, ~adjusting, restart = "idle"
  PROVE  TxInv
<1>1. Size \in Nat \ {0} /\ Wrap \in Nat \ {0} /\ MaxSeg \in Nat /\ MaxSeg <= Size /\ SizeDivides
  BY TxSizes
<1>2. Tx!Pending = 0
  <2>1. 0 \in 0 .. Wrap - 1 /\ 0 - 0 = 0  BY <1>1
  <2>2. 0 % Wrap = 0  BY <1>1, <2>1, ModSmall
  <2> QED BY <2>1, <2>2 DEF Tx!Pending
<1>3. xmit.n = 0  BY DEF Tx!NoXmit
<1>4. TxShape(0)
  <2>1. ASSUME NEW j \in 0 .. Size - 1
        PROVE  /\ At(j) \in Slots /\ ~ (j < 0) /\ ~ (0 < j /\ j < 0 + 0) /\ ~ (0 <= j /\ j < 0 + 0)
    BY AtType
  <2> QED BY <1>2, <1>3, <2>1 DEF TxShape
<1>5. txDevp = At(0)
  <2>1. 0 + 0 = 0 /\ 0 \in Int /\ 0 \in 0 .. Size - 1  BY <1>1
  <2>2. Slot(0) = 0  BY <1>1, <2>1, SlotIs, ModSmall
  <2> QED BY <2>1, <2>2 DEF At
<1>6. \E k \in 0 .. Tx!Pending : TxShape(k) /\ (~adjusting => txDevp = At(k))
  <2>1. 0 \in 0 .. Tx!Pending  BY <1>2
  <2> QED BY <1>4, <1>5, <2>1
<1>7. Tx!Pending <= Size /\ Tx!Pending + MaxSeg <= Size  BY <1>1, <1>2
<1> QED BY <1>6, <1>7 DEF TxInv

TxNew == /\ \A i \in Slots : ~skb[i] /\ empty[i]
         /\ TxTypes /\ txCurr = 0 /\ txDirty = 0 /\ txDevp = 0
         /\ xmit = Tx!NoXmit /\ ~adjusting /\ restart = "idle"

LEMMA TxFreshNext ==
  ASSUME TxAssumption
  PROVE  TxNew' => TxInv'
<1>1. TxNew => TxInv  BY TxFresh DEF TxNew
<1> QED BY <1>1, PTL

\* The rest of fast_reset: what is in the ring is in its window.
LEMMA TxReset ==
  ASSUME TxAssumption, TxInv, Tx!LinkReset
  PROVE  TxInv'
<1>1. /\ adjusting /\ ~adjusting' /\ xmit = Tx!NoXmit /\ restart = "idle"
      /\ skb' = [i \in Slots |-> skb[i] /\ ~Tx!InWindow(i)]
      /\ empty' = [i \in Slots |-> empty[i] \/ Tx!InWindow(i)]
      /\ txCurr' = 0 /\ txDirty' = 0 /\ txDevp' = 0 /\ queueStopped' = FALSE
      /\ UNCHANGED <<more, xmit, flaps, restart, ps>>
  BY TxSizes DEF Tx!LinkReset, Tx!ag71xx_fast_reset, TxInv
<1>2. TxTypes /\ Tx!Pending \in 0 .. Size /\ Size \in Nat \ {0} /\ Wrap \in Nat \ {0}
  BY TxNumbers, TxSizes
<1>3. xmit.n = 0  BY <1>1 DEF Tx!NoXmit
<1>4. PICK k \in 0 .. Tx!Pending : TxShape(k)  BY DEF TxInv
<1>5. ASSUME NEW i \in Slots PROVE ~skb'[i] /\ empty'[i]
  <2>1. PICK j \in 0 .. Size - 1 : i = At(j)  BY <1>2, <1>5, AtAll
  <2>2. Tx!InWindow(i) <=> j < Tx!Pending  BY <1>2, <2>1, InWindowIs
  <2>3. skb[i] => j < Tx!Pending  BY <1>4, <2>1 DEF TxShape
  <2>4. ~empty[i] => j < Tx!Pending
    <3>1. ~empty[At(j)] => j < Tx!Pending \/ (Tx!Pending < j /\ j < Tx!Pending + xmit.n)
      BY <1>4, <2>1 DEF TxShape
    <3>2. ~ (Tx!Pending < j /\ j < Tx!Pending + xmit.n)  BY <1>2, <1>3
    <3> QED BY <2>1, <3>1, <3>2
  <2> QED BY <1>1, <2>2, <2>3, <2>4
<1>6. TxTypes'
  <2>1. skb' \in [Slots -> BOOLEAN] /\ empty' \in [Slots -> BOOLEAN]
    <3>1. \A i \in Slots : /\ (skb[i] /\ ~Tx!InWindow(i)) \in BOOLEAN
                           /\ (empty[i] \/ Tx!InWindow(i)) \in BOOLEAN
      OBVIOUS
    <3> QED BY <1>1, <3>1
  <2>2. 0 \in 0 .. Wrap - 1 /\ 0 \in 0 .. Size  BY <1>2
  <2> QED BY <1>1, <1>2, <2>1, <2>2 DEF TxTypes
<1>7. xmit' = Tx!NoXmit /\ restart' = "idle"  BY <1>1
<1> QED BY <1>1, <1>5, <1>6, <1>7, TxFreshNext DEF TxNew

\* Each step preserves the invariant.
LEMMA TxStep ==
  ASSUME TxAssumption, TxInv, [Tx!Next]_Tx!vars
  PROVE  TxInv'
<1>1. CASE Tx!Xmit  BY <1>1, TxStart, TxFill, TxNoDrop, TxDone DEF Tx!Xmit
<1>2. CASE Tx!DeviceSends  BY <1>2, TxSends
<1>3. /\ ps \in 0 .. Size /\ txDevp \in 0 .. Size /\ flaps \in Nat /\ restart = "idle"
      /\ adjusting => xmit = Tx!NoXmit /\ ~txe
  BY DEF TxInv, TxTypes
<1>4. CASE Tx!DeviceStops  BY <1>3, <1>4, TxStays DEF Tx!DeviceStops, Tx!ring
<1>5. CASE Tx!ag71xx_interrupt  BY <1>3, <1>5, TxStays DEF Tx!ag71xx_interrupt, Tx!ring
<1>6. CASE Tx!ag71xx_poll  BY <1>6, TxPoll
<1>7. CASE Tx!LinkDown  BY <1>3, <1>7, TxStays DEF Tx!LinkDown, Tx!ring
<1>8. CASE Tx!LinkUp
  <2>1. Is724x
    <3>1. ~ (flaps < 0)  BY <1>3
    <3> QED BY <1>8, <3>1 DEF Tx!LinkUp, TxAssumption, ChangesReset
  <2>2. 0 \in 0 .. Size /\ Size \in 0 .. Size  BY TxSizes
  <2> QED BY <1>3, <1>8, <2>1, <2>2, TxStays
      DEF Tx!LinkUp, Tx!DmaReset, Tx!StopDesc, Tx!ring, Tx!CpuFree
<1>9. CASE Tx!LinkReset  BY <1>9, TxReset
<1>10. ~Tx!ag71xx_tx_timeout /\ ~Tx!RestartStep
  BY <1>3 DEF TxAssumption, Tx!ag71xx_tx_timeout, Tx!RestartStep, Tx!RestartDisable,
              Tx!RestartEnable, Tx!RestartStop, Tx!RestartFlush, Tx!RestartZero, Tx!RestartStart
<1>11. CASE UNCHANGED Tx!vars  BY <1>3, <1>11, TxStays DEF Tx!vars, Tx!ring, Tx!dev
<1> QED BY <1>1, <1>2, <1>4, <1>5, <1>6, <1>7, <1>8, <1>9, <1>10, <1>11 DEF Tx!Next

\* The invariant implies what is checked.
LEMMA TxMeans ==
  ASSUME TxAssumption, TxInv
  PROVE  Tx!TxRingOK
<1>1. /\ TxTypes /\ Tx!Pending \in 0 .. Size /\ Size \in Nat \ {0} /\ xmit.n \in Nat
      /\ xmit.segs # 0 => Tx!Pending + xmit.segs <= Size
      /\ xmit.segs \in Nat /\ xmit.n <= xmit.segs
  BY TxNumbers
<1>2. PICK k \in 0 .. Tx!Pending : TxShape(k) /\ (~adjusting => txDevp = At(k))
  BY DEF TxInv
<1>3. Tx!TypeOK  BY <1>1, TxSizes DEF TxTypes, Tx!TypeOK
<1>4. Tx!NoEarlyTx
  <2> SUFFICES ASSUME txe, ~empty[txDevp] PROVE Tx!InWindow(txDevp)  BY DEF Tx!NoEarlyTx
  <2>1. txDevp = At(k)  BY <1>2 DEF TxInv
  <2>2. k < Tx!Pending
    <3> SUFFICES ASSUME k = Tx!Pending PROVE FALSE  BY <1>1, <1>2
    <3>1. CASE Tx!Pending < Size
      <4>1. k \in 0 .. Size - 1  BY <1>1, <3>1
      <4>2. k < Tx!Pending \/ Tx!Pending < k  BY <1>2, <2>1, <4>1 DEF TxShape
      <4> QED BY <1>1, <4>2
    <3>2. CASE Tx!Pending = Size
      <4>1. At(k) = At(0) /\ 0 \in 0 .. Size - 1
        <5>1. txDirty \in Int /\ txDirty + 0 = txDirty /\ SizeDivides
          BY <1>1, TxSizes DEF TxTypes
        <5> QED BY <1>1, <3>2, <5>1, SlotRound DEF At
      <4>2. k <= 0 \/ Tx!Pending < 0  BY <1>2, <2>1, <4>1 DEF TxShape
      <4> QED BY <1>1, <3>2, <4>2
    <3> QED BY <1>1, <3>1, <3>2
  <2>3. k \in 0 .. Size - 1  BY <1>1, <1>2, <2>2
  <2> QED BY <1>1, <2>1, <2>2, <2>3, InWindowIs
<1>5. Tx!SkbsReachable
  <2>1. ASSUME NEW i \in Slots PROVE skb[i] <=> Tx!InWindow(i) /\ ~more[i]
    <3>1. PICK j \in 0 .. Size - 1 : i = At(j)  BY <1>1, <2>1, AtAll
    <3>2. Tx!InWindow(i) <=> j < Tx!Pending  BY <1>1, <3>1, InWindowIs
    <3> QED BY <1>2, <3>1, <3>2 DEF TxShape
  <2> QED BY <2>1, TxSizes DEF Tx!SkbsReachable
<1> QED BY <1>3, <1>4, <1>5 DEF Tx!TxRingOK

\* ag71xx_hard_start_xmit and ag71xx_tx_packets: at every ring size that goes into the
\* counters and has room for two packets, however packets are split, whatever the link
\* does and whenever the device stops, the device sends only what was handed over ("prevent
\* early tx attempt of this descriptor"), and the completion reaches each packet that is in
\* the ring and frees it once.
THEOREM NoneLost ==
  ASSUME TxAssumption
  PROVE  Tx!Spec => []Tx!TxRingOK
<1>1. Tx!Init => TxInv
  <2> SUFFICES ASSUME Tx!Init PROVE TxInv  OBVIOUS
  <2>1. /\ empty = [i \in Slots |-> TRUE] /\ more = [i \in Slots |-> FALSE]
        /\ skb = [i \in Slots |-> FALSE]
        /\ txCurr = 0 /\ txDirty = 0 /\ queueStopped = FALSE /\ xmit = Tx!NoXmit
        /\ flaps = 0 /\ adjusting = FALSE /\ restart = "idle" /\ txDevp = 0 /\ ps = 0
    BY TxSizes DEF Tx!Init
  <2>2. 0 \in 0 .. Wrap - 1 /\ 0 \in 0 .. Size /\ 0 \in 0 .. MaxSeg  BY TxSizes
  <2>3. TxTypes
    <3>1. xmit \in [segs : 0 .. MaxSeg, n : 0 .. MaxSeg] /\ xmit.n <= xmit.segs
      BY <2>1, <2>2 DEF Tx!NoXmit
    <3> QED BY <2>1, <2>2, <3>1 DEF TxTypes
  <2>4. \A i \in Slots : ~skb[i] /\ empty[i]  BY <2>1
  <2> QED BY <2>1, <2>3, <2>4, TxFresh
<1>2. TxInv /\ [Tx!Next]_Tx!vars => TxInv'  BY TxStep
<1>3. TxInv => Tx!TxRingOK  BY TxMeans
<1> QED BY <1>1, <1>2, <1>3, PTL DEF Tx!Spec
=============================================================================
