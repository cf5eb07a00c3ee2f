------------------------- MODULE NetworkSpace_proofs -------------------------
(***************************************************************************)
(* Proofs about generateIPList for addresses of any width: what splitting  *)
(* a network gives, that the loop keeps what it has done apart, and that   *)
(* it carves a single excluded network out of the included ones exactly.   *)
(***************************************************************************)
EXTENDS NetworkSpace, WellFoundedInduction, TLAPS

-----------------------------------------------------------------------------
(* Powers of two.  PowerOfTwo is defined by recursion: that a function     *)
(* with its equation exists takes induction, from the library's facts that *)
(* < is well founded on the numbers and that a set has a minimal element.  *)

LEMMA LeastNumber ==
  ASSUME NEW T, T \subseteq Nat, T # {}
  PROVE  \E x \in T : \A y \in T : x <= y
<1> DEFINE R == OpToRel(<, Nat)
<1>1. IsWellFoundedOn(R, Nat)
  BY NatLessThanWellFounded
<1>2. \A x, y \in Nat : x < y => <<x, y>> \in R
  BY DEF OpToRel
<1> HIDE DEF R
<1>3. PICK x \in T : \A y \in T : ~(<<y, x>> \in R)
  BY <1>1, WFMin
<1>4. \A y \in T : ~(y < x)
  BY <1>2, <1>3
<1> QED BY <1>4

LEMMA AllNumbers ==
  ASSUME NEW T, 0 \in T, \A n \in Nat : n \in T => n + 1 \in T
  PROVE  Nat \subseteq T
<1> SUFFICES ASSUME Nat \ T # {}
             PROVE  FALSE
  OBVIOUS
<1>1. PICK x \in Nat \ T : \A y \in Nat \ T : x <= y
  BY LeastNumber
<1>2. x - 1 \in Nat /\ x - 1 \in T
  BY <1>1
<1> QED BY <1>2

Doubles(g, k) == g = [n \in 0 .. k |-> IF n = 0 THEN 1 ELSE 2 * g[n - 1]]

LEMMA DoublesExist == \A k \in Nat : \E g : Doubles(g, k)
<1> DEFINE T == {k \in Nat : \E g : Doubles(g, k)}
<1>1. 0 \in T
  <2> DEFINE g == [n \in 0 .. 0 |-> IF n = 0 THEN 1 ELSE 2 * 1]
  <2>1. g = [n \in 0 .. 0 |-> IF n = 0 THEN 1 ELSE 2 * g[n - 1]]
    OBVIOUS
  <2> QED BY <2>1 DEF Doubles
<1>2. \A k \in Nat : k \in T => k + 1 \in T
  <2> SUFFICES ASSUME NEW k \in Nat, NEW g, Doubles(g, k)
               PROVE  \E h : Doubles(h, k + 1)
    OBVIOUS
  <2> DEFINE h == [n \in 0 .. k + 1 |-> IF n = k + 1 THEN 2 * g[k] ELSE g[n]]
  <2>1. \A n \in 0 .. k : g[n] = IF n = 0 THEN 1 ELSE 2 * g[n - 1]
    BY DEF Doubles
  <2>2. \A n \in 0 .. k + 1 : h[n] = IF n = 0 THEN 1 ELSE 2 * h[n - 1]
    BY <2>1
  <2>3. h = [n \in 0 .. k + 1 |-> h[n]]
    OBVIOUS
  <2>4. h = [n \in 0 .. k + 1 |-> IF n = 0 THEN 1 ELSE 2 * h[n - 1]]
    BY <2>2, <2>3
  <2> QED BY <2>4 DEF Doubles
<1> HIDE DEF T
<1>3. Nat \subseteq T
  BY <1>1, <1>2, AllNumbers
<1> QED BY <1>3 DEF T

LEMMA PowerEquation ==
  \A n \in 0 .. Width : PowerOfTwo[n] = IF n = 0 THEN 1 ELSE 2 * PowerOfTwo[n - 1]
<1>1. \E g : Doubles(g, Width)
  BY WidthAssumption, DoublesExist
<1>2. Doubles(PowerOfTwo, Width)
  BY <1>1 DEF Doubles, PowerOfTwo
<1> QED BY <1>2 DEF Doubles

LEMMA PowerFacts ==
  /\ PowerOfTwo[0] = 1
  /\ \A n \in 0 .. Width : PowerOfTwo[n] \in Nat /\ PowerOfTwo[n] > 0
  /\ \A n \in 0 .. Width - 1 : PowerOfTwo[n + 1] = 2 * PowerOfTwo[n]
<1> USE WidthAssumption
<1> DEFINE T == {n \in Nat : n <= Width => PowerOfTwo[n] \in Nat /\ PowerOfTwo[n] > 0}
<1>1. PowerOfTwo[0] = 1
  BY PowerEquation
<1>2. \A n \in 0 .. Width - 1 : PowerOfTwo[n + 1] = 2 * PowerOfTwo[n]
  <2> SUFFICES ASSUME NEW n \in 0 .. Width - 1
               PROVE  PowerOfTwo[n + 1] = 2 * PowerOfTwo[n]
    OBVIOUS
  <2>1. n + 1 \in 0 .. Width /\ n + 1 # 0 /\ (n + 1) - 1 = n
    OBVIOUS
  <2> QED BY <2>1, PowerEquation
<1>3. 0 \in T
  BY <1>1
<1>4. \A n \in Nat : n \in T => n + 1 \in T
  BY <1>2
<1> HIDE DEF T
<1>5. Nat \subseteq T
  BY <1>3, <1>4, AllNumbers
<1> QED BY <1>1, <1>2, <1>5 DEF T

(* The addresses: as many as the networks of a mask times their size. *)
LEMMA PowerProduct ==
  \A m \in 0 .. Width : PowerOfTwo[Width] = PowerOfTwo[m] * PowerOfTwo[Width - m]
<1> USE WidthAssumption
<1> DEFINE T == {m \in Nat : m <= Width =>
                   PowerOfTwo[Width] = PowerOfTwo[m] * PowerOfTwo[Width - m]}
<1>1. 0 \in T
  BY PowerFacts
<1>2. ASSUME NEW m \in Nat, m \in T
      PROVE  m + 1 \in T
  <2> SUFFICES ASSUME m + 1 <= Width
               PROVE  PowerOfTwo[Width] = PowerOfTwo[m + 1] * PowerOfTwo[Width - (m + 1)]
    OBVIOUS
  <2>1. PICK k \in Nat : k = Width - (m + 1) /\ k + 1 = Width - m
    OBVIOUS
  <2>2. PowerOfTwo[m + 1] = 2 * PowerOfTwo[m] /\ PowerOfTwo[k + 1] = 2 * PowerOfTwo[k]
    BY <2>1, PowerFacts
  <2>3. PowerOfTwo[Width] = PowerOfTwo[m] * PowerOfTwo[k + 1]
    BY <1>2, <2>1
  <2>4. PowerOfTwo[m] \in Nat /\ PowerOfTwo[k] \in Nat
    BY <2>1, PowerFacts
  <2>5. PICK a \in Nat, b \in Nat : a = PowerOfTwo[m] /\ b = PowerOfTwo[k]
    BY <2>4
  <2>6. a * (2 * b) = (2 * a) * b
    OBVIOUS
  <2> QED BY <2>1, <2>2, <2>3, <2>5, <2>6
<1> HIDE DEF T
<1>3. Nat \subseteq T
  BY <1>1, <1>2, AllNumbers
<1> QED BY <1>3 DEF T
-----------------------------------------------------------------------------
(* Networks and their halves. *)

Shaped(net) == net \in [first : Int, mask : Nat, included : BOOLEAN]

(* A network as CIDR has it: one of those its mask divides the addresses   *)
(* into.  What split makes of a single address is not one.                 *)
Block(net) ==
  net.mask <= Width =>
    \E k \in Nat : k < PowerOfTwo[net.mask] /\ net.first = k * Size(net)

LEMMA SizeNumber ==
  ASSUME NEW net, net.mask \in Nat
  PROVE  Size(net) \in Nat /\ Size(net) > 0
<1>1. net.mask < Width => Width - net.mask \in 0 .. Width
  BY WidthAssumption
<1> QED BY <1>1, PowerFacts DEF Size

LEMMA SizePositive ==
  ASSUME NEW net, Shaped(net)
  PROVE  Size(net) \in Nat /\ Size(net) > 0
BY SizeNumber DEF Shaped

LEMMA LastAddress ==
  ASSUME NEW net, Shaped(net)
  PROVE  Last(net) \in Int /\ net.first \in Int /\ net.first <= Last(net)
BY SizePositive DEF Last, Shaped

LEMMA SizeOf ==
  ASSUME NEW net, Shaped(net), net.mask <= Width
  PROVE  Size(net) = PowerOfTwo[Width - net.mask]
<1>1. net.mask \in Nat
  BY DEF Shaped
<1>2. net.mask = Width => Width - net.mask = 0
  BY <1>1, WidthAssumption
<1>3. net.mask < Width \/ net.mask = Width
  BY <1>1, WidthAssumption
<1>4. ~(Width < Width)
  BY WidthAssumption
<1> QED BY <1>2, <1>3, <1>4, PowerFacts DEF Size

LEMMA Halves ==
  ASSUME NEW net, Shaped(net)
  PROVE  /\ Shaped(LowerHalf(net)) /\ Shaped(UpperHalf(net))
         /\ LowerHalf(net).mask = net.mask + 1 /\ UpperHalf(net).mask = net.mask + 1
         /\ LowerHalf(net).included = net.included /\ UpperHalf(net).included = net.included
         /\ LowerHalf(net).first = net.first
         /\ UpperHalf(net).first = net.first + Size(LowerHalf(net))
<1>1. net \in [first : Int, mask : Nat, included : BOOLEAN]
  BY DEF Shaped
<1>2. /\ LowerHalf(net) \in [first : Int, mask : Nat, included : BOOLEAN]
      /\ LowerHalf(net).mask = net.mask + 1 /\ LowerHalf(net).included = net.included
      /\ LowerHalf(net).first = net.first
  BY <1>1 DEF LowerHalf
<1> PICK low : low = LowerHalf(net)
  OBVIOUS
<1>3. Size(low) \in Nat
  BY <1>2, SizePositive DEF Shaped
<1>4. Last(low) + 1 = net.first + Size(low) /\ Last(low) + 1 \in Int
  BY <1>1, <1>2, <1>3 DEF Last
<1>5. UpperHalf(net) = [low EXCEPT !.first = Last(low) + 1]
  BY DEF UpperHalf
<1> QED BY <1>2, <1>4, <1>5 DEF Shaped

LEMMA HalfSize ==
  ASSUME NEW net, Shaped(net), net.mask < Width
  PROVE  Size(net) = 2 * Size(LowerHalf(net)) /\ Size(UpperHalf(net)) = Size(LowerHalf(net))
<1>1. net.mask \in Nat /\ Shaped(LowerHalf(net)) /\ LowerHalf(net).mask = net.mask + 1
      /\ Shaped(UpperHalf(net)) /\ UpperHalf(net).mask = net.mask + 1
  BY Halves DEF Shaped
<1>2. PICK k \in 0 .. Width - 1 : k = Width - (net.mask + 1) /\ k + 1 = Width - net.mask
  BY <1>1, WidthAssumption
<1>3. net.mask + 1 <= Width /\ net.mask <= Width
  BY <1>1, WidthAssumption
<1>4. Size(net) = PowerOfTwo[k + 1] /\ Size(LowerHalf(net)) = PowerOfTwo[k]
      /\ Size(UpperHalf(net)) = PowerOfTwo[k]
  BY <1>1, <1>2, <1>3, SizeOf
<1> QED BY <1>4, PowerFacts

(* The halves of a block are blocks. *)
LEMMA HalfBlocks ==
  ASSUME NEW net, Shaped(net), Block(net)
  PROVE  Block(LowerHalf(net)) /\ Block(UpperHalf(net))
<1> USE WidthAssumption
<1>0. net.mask \in Nat
  BY DEF Shaped
<1>1. CASE ~(net.mask < Width)
  <2>1. ~(net.mask + 1 <= Width)
    BY <1>0, <1>1
  <2> QED BY <2>1, Halves DEF Block
<1>2. CASE net.mask < Width
  <2>1. PICK k \in Nat : k < PowerOfTwo[net.mask] /\ net.first = k * Size(net)
    BY <1>0, <1>2 DEF Block
  <2>2. PICK s \in Nat : s = Size(LowerHalf(net))
    BY Halves, SizePositive
  <2>3. Size(net) = 2 * s /\ Size(UpperHalf(net)) = s /\ Size(LowerHalf(net)) = s
    BY <1>2, <2>2, HalfSize
  <2>4. PICK p \in Nat : p = PowerOfTwo[net.mask]
    BY <1>0, <1>2, PowerFacts
  <2>5. PowerOfTwo[net.mask + 1] = 2 * p
    BY <1>0, <1>2, <2>4, PowerFacts
  <2>6. k * (2 * s) = (2 * k) * s /\ k * (2 * s) + s = (2 * k + 1) * s
    OBVIOUS
  <2>7. 2 * k < 2 * p /\ 2 * k + 1 < 2 * p /\ 2 * k \in Nat /\ 2 * k + 1 \in Nat
    BY <2>1, <2>4
  <2>8. LowerHalf(net).first = (2 * k) * s /\ UpperHalf(net).first = (2 * k + 1) * s
    BY <2>1, <2>2, <2>3, <2>6, Halves
  <2>9. LowerHalf(net).mask = net.mask + 1 /\ UpperHalf(net).mask = net.mask + 1
    BY Halves
  <2> QED BY <2>3, <2>5, <2>7, <2>8, <2>9 DEF Block
<1> QED BY <1>1, <1>2

LEMMA TimesMonotone ==
  ASSUME NEW a \in Nat, NEW b \in Nat, NEW s \in Nat, a <= b
  PROVE  a * s <= b * s
<1>1. PICK d \in Nat : b = a + d
  <2>1. b - a \in Nat /\ b = a + (b - a)
    OBVIOUS
  <2> QED BY <2>1
<1>2. (a + d) * s = a * s + d * s /\ d * s \in Nat /\ a * s \in Nat
  OBVIOUS
<1> QED BY <1>1, <1>2

(* A block lies within the addresses. *)
LEMMA BlockWithin ==
  ASSUME NEW net, Shaped(net), Block(net), net.mask <= Width
  PROVE  net.first \in Addresses /\ Last(net) \in Addresses
<1> USE WidthAssumption
<1>0. net.mask \in 0 .. Width
  BY DEF Shaped
<1>1. PICK k \in Nat : k < PowerOfTwo[net.mask] /\ net.first = k * Size(net)
  BY DEF Block
<1>2. PICK s \in Nat, p \in Nat : s = Size(net) /\ p = PowerOfTwo[net.mask] /\ s > 0
  BY <1>0, SizePositive, PowerFacts
<1>3. PowerOfTwo[Width] = p * s
  BY <1>0, <1>2, PowerProduct, SizeOf
<1>4. k + 1 <= p /\ k + 1 \in Nat
  BY <1>1, <1>2
<1>5. (k + 1) * s <= p * s
  <2>1. PICK n \in Nat : n = k + 1 /\ n <= p
    BY <1>4
  <2>2. n * s <= p * s
    BY <2>1, TimesMonotone
  <2> QED BY <2>1, <2>2
<1>6. (k + 1) * s = k * s + s /\ k * s \in Nat /\ p * s \in Nat
  OBVIOUS
<1>7. net.first = k * s /\ Last(net) = k * s + s - 1
  BY <1>1, <1>2 DEF Last
<1> QED BY <1>2, <1>3, <1>5, <1>6, <1>7 DEF Addresses

(* How networks nest. *)
LEMMA PowerFactor ==
  \A k \in Nat : \A m \in 0 .. Width : m + k <= Width =>
    \E d \in Nat : d > 0 /\ (k > 0 => d >= 2) /\ PowerOfTwo[m + k] = d * PowerOfTwo[m]
<1> USE WidthAssumption
<1> DEFINE T == {k \in Nat : \A m \in 0 .. Width : m + k <= Width =>
             \E d \in Nat : d > 0 /\ (k > 0 => d >= 2) /\ PowerOfTwo[m + k] = d * PowerOfTwo[m]}
<1>1. 0 \in T
  <2>1. \A m \in 0 .. Width : m + 0 = m /\ PowerOfTwo[m] = 1 * PowerOfTwo[m]
    BY PowerFacts
  <2> QED BY <2>1
<1>2. ASSUME NEW k \in Nat, k \in T
      PROVE  k + 1 \in T
  <2> SUFFICES ASSUME NEW m \in 0 .. Width, m + (k + 1) <= Width
               PROVE  \E d \in Nat : d > 0 /\ d >= 2
                                     /\ PowerOfTwo[m + (k + 1)] = d * PowerOfTwo[m]
    OBVIOUS
  <2>1. m + k <= Width /\ m + k \in 0 .. Width - 1 /\ m + (k + 1) = (m + k) + 1
    OBVIOUS
  <2>2. PICK d \in Nat : d > 0 /\ PowerOfTwo[m + k] = d * PowerOfTwo[m]
    BY <1>2, <2>1
  <2>3. PICK p \in Nat : p = PowerOfTwo[m]
    BY PowerFacts
  <2>4. PICK q : q = m + k
    OBVIOUS
  <2>5. PowerOfTwo[q + 1] = 2 * PowerOfTwo[q]
    BY <2>1, <2>4, PowerFacts
  <2>6. 2 * (d * p) = (2 * d) * p
    OBVIOUS
  <2>7. PowerOfTwo[m + (k + 1)] = (2 * d) * p
    BY <2>1, <2>2, <2>3, <2>4, <2>5, <2>6
  <2>8. 2 * d \in Nat /\ 2 * d >= 2 /\ 2 * d > 0
    BY <2>2
  <2> QED BY <2>3, <2>7, <2>8
<1> HIDE DEF T
<1>3. Nat \subseteq T
  BY <1>1, <1>2, AllNumbers
<1> QED BY <1>3 DEF T

LEMMA SizeFactor ==
  ASSUME NEW a, NEW b, Shaped(a), Shaped(b), a.mask <= b.mask, b.mask <= Width
  PROVE  \E d \in Nat : d > 0 /\ (a.mask < b.mask => d >= 2) /\ Size(a) = d * Size(b)
<1>1. a.mask \in Nat /\ b.mask \in Nat /\ a.mask <= Width
  BY WidthAssumption DEF Shaped
<1>2. PICK m \in 0 .. Width, k \in Nat :
        /\ m = Width - b.mask /\ k = b.mask - a.mask /\ m + k = Width - a.mask
  <2>1. Width - b.mask \in 0 .. Width /\ b.mask - a.mask \in Nat
        /\ (Width - b.mask) + (b.mask - a.mask) = Width - a.mask
    BY <1>1, WidthAssumption
  <2> QED BY <2>1
<1>3. m + k <= Width /\ (a.mask < b.mask => k > 0)
  BY <1>1, <1>2, WidthAssumption
<1>4. Size(a) = PowerOfTwo[m + k] /\ Size(b) = PowerOfTwo[m]
  BY <1>1, <1>2, SizeOf
<1>5. \E d \in Nat : d > 0 /\ (k > 0 => d >= 2) /\ PowerOfTwo[m + k] = d * PowerOfTwo[m]
  BY <1>3, PowerFactor
<1> QED BY <1>3, <1>4, <1>5

LEMMA LargerMask ==
  ASSUME NEW a, NEW b, Shaped(a), Shaped(b), a.mask < b.mask, b.mask <= Width
  PROVE  Size(b) < Size(a)
<1>1. a.mask \in Nat /\ b.mask \in Nat /\ a.mask <= b.mask
  BY DEF Shaped
<1>2. PICK d \in Nat : d >= 2 /\ Size(a) = d * Size(b)
  BY <1>1, SizeFactor
<1>3. PICK s \in Nat : s = Size(b) /\ s > 0
  BY SizePositive
<1>4. 2 * s <= d * s
  BY <1>2, TimesMonotone
<1>5. PICK ds \in Nat : ds = d * s
  OBVIOUS
<1> QED BY <1>2, <1>3, <1>4, <1>5

LEMMA TimesStrict ==
  ASSUME NEW a \in Int, NEW b \in Int, NEW s \in Nat, a * s < b * s
  PROVE  a < b
<1> SUFFICES ASSUME b <= a
             PROVE  FALSE
  OBVIOUS
<1>1. PICK d \in Nat : a = b + d
  <2>1. a - b \in Nat /\ a = b + (a - b)
    OBVIOUS
  <2> QED BY <2>1
<1>2. (b + d) * s = b * s + d * s /\ d * s \in Nat /\ b * s \in Int
  OBVIOUS
<1> QED BY <1>1, <1>2

(* Of two blocks that share an address the one with the larger mask is     *)
(* within the other.                                                       *)
LEMMA Nested ==
  ASSUME NEW a, NEW b, Shaped(a), Shaped(b), Block(a), Block(b),
         a.mask <= b.mask, b.mask <= Width,
         NEW x \in Int, a.first <= x, x <= Last(a), b.first <= x, x <= Last(b)
  PROVE  containsNet(a, b)
<1>1. a.mask \in Nat /\ b.mask \in Nat /\ a.mask <= Width
  BY WidthAssumption DEF Shaped
<1>2. PICK i \in Nat, j \in Nat : a.first = i * Size(a) /\ b.first = j * Size(b)
  BY <1>1 DEF Block
<1>3. PICK s \in Nat, d \in Nat : s = Size(b) /\ s > 0 /\ Size(a) = d * s
  BY SizeFactor, SizePositive
<1>4. PICK r \in Nat : r = i * d
  OBVIOUS
<1>5. i * (d * s) = r * s /\ (r + d) * s = r * s + d * s /\ (j + 1) * s = j * s + s
  BY <1>4
<1>6. PICK rs \in Nat, js \in Nat, ds \in Nat : rs = r * s /\ js = j * s /\ ds = d * s
  OBVIOUS
<1>7. a.first = rs /\ Last(a) = rs + ds - 1 /\ b.first = js /\ Last(b) = js + s - 1
  BY <1>2, <1>3, <1>5, <1>6 DEF Last
<1>8. js < rs + ds /\ rs < js + s
  BY <1>7, <1>3
<1>9. j * s < (r + d) * s /\ r * s < (j + 1) * s
  BY <1>5, <1>6, <1>8
<1>10. j < r + d /\ r < j + 1
  <2>1. r + d \in Int /\ j + 1 \in Int
    OBVIOUS
  <2>2. PICK e \in Int, f \in Int : e = r + d /\ f = j + 1
    BY <2>1
  <2>3. j * s < e * s /\ r * s < f * s
    BY <1>9, <2>2
  <2>4. j < e /\ r < f
    BY <2>3, TimesStrict
  <2> QED BY <2>2, <2>4
<1>11. r <= j /\ j + 1 <= r + d /\ j + 1 \in Nat /\ r + d \in Nat
  BY <1>10
<1>12. r * s <= j * s /\ (j + 1) * s <= (r + d) * s
  <2>1. PICK e \in Nat, f \in Nat : e = r + d /\ f = j + 1
    BY <1>11
  <2>2. f * s <= e * s
    BY <1>11, <2>1, TimesMonotone
  <2> QED BY <1>11, <2>1, <2>2, TimesMonotone
<1>13. rs <= js /\ js + s <= rs + ds
  BY <1>5, <1>6, <1>12
<1> QED BY <1>7, <1>13 DEF containsNet

LEMMA HalvesCover ==
  ASSUME NEW net, Shaped(net), net.mask < Width
  PROVE  /\ LowerHalf(net).first = net.first
         /\ UpperHalf(net).first = Last(LowerHalf(net)) + 1
         /\ Last(UpperHalf(net)) = Last(net)
         /\ net.first < UpperHalf(net).first
<1>1. PICK s \in Nat : s = Size(LowerHalf(net)) /\ s > 0
  BY Halves, SizePositive
<1>2. Size(net) = 2 * s /\ Size(UpperHalf(net)) = s
  BY <1>1, HalfSize
<1>3. LowerHalf(net).first = net.first /\ UpperHalf(net).first = net.first + s
  BY <1>1, Halves
<1>4. net.first \in Int
  BY DEF Shaped
<1> QED BY <1>1, <1>2, <1>3, <1>4 DEF Last

(* Masking an address gives the block it is in. *)
LEMMA Division ==
  ASSUME NEW a \in Nat, NEW s \in Nat, s > 0
  PROVE  \E k \in Nat : a - (a % s) = k * s /\ k * s <= a /\ a < k * s + s
<1>1. a % s \in 0 .. s - 1 /\ a \div s \in Int /\ a = (a \div s) * s + (a % s)
  OBVIOUS
<1>2. PICK k \in Int, r \in 0 .. s - 1 : k = a \div s /\ r = a % s /\ a = k * s + r
  BY <1>1
<1>3. ~(k < 0)
  <2> SUFFICES ASSUME k < 0
               PROVE  FALSE
    OBVIOUS
  <2>1. PICK d \in Nat : k = -1 - d
    <3>1. -1 - k \in Nat /\ k = -1 - (-1 - k)
      BY <1>2
    <3> QED BY <3>1
  <2>2. (-1 - d) * s = -s - d * s /\ d * s \in Nat
    OBVIOUS
  <2>3. PICK e \in Nat : e = d * s
    BY <2>2
  <2>4. a = (-s - e) + r
    BY <1>2, <2>1, <2>2, <2>3
  <2>5. s \in Nat /\ r \in Int /\ r < s
    BY <1>2
  <2>6. a < 0
    BY ONLY <2>4, <2>5, e \in Nat
  <2> QED BY <2>6
<1>4. k \in Nat
  BY <1>3
<1>5. PICK ks \in Nat : ks = k * s
  BY <1>4
<1>6. a = ks + r /\ r = a % s
  BY <1>2, <1>5
<1>7. a - r = ks /\ ks <= a /\ a < ks + s
  BY <1>2, <1>6
<1> QED BY <1>4, <1>5, <1>6, <1>7
-----------------------------------------------------------------------------
(* The queue as a set. *)

LEMMA EmptyQueue == BagToSet(EmptyBag) = {}
BY DEF BagToSet, EmptyBag, SetToBag

LEMMA QueueOfSet ==
  ASSUME NEW nets
  PROVE  BagToSet(SetToBag(nets)) = nets
BY DEF BagToSet, SetToBag

LEMMA AddedSet ==
  ASSUME NEW queue, NEW net
  PROVE  BagToSet(Add(queue, net)) = BagToSet(queue) \cup {net}
BY DEF Add, BagToSet, SetToBag, (+)

LEMMA AddedIfMissing ==
  ASSUME NEW queue, NEW net
  PROVE  BagToSet(AddIfMissing(queue, net)) \subseteq BagToSet(queue) \cup {net}
BY AddedSet DEF AddIfMissing

LEMMA RemovedSet ==
  ASSUME NEW queue, NEW net
  PROVE  BagToSet(queue (-) SetToBag({net})) \subseteq BagToSet(queue)
BY DEF BagToSet, SetToBag, (-)

(* The queue has each of its networks at least once, and poll takes one. *)
IsQueue(queue) == \A n \in BagToSet(queue) : queue[n] \in Nat /\ queue[n] > 0

LEMMA AddedQueue ==
  ASSUME NEW queue, IsQueue(queue), NEW net
  PROVE  IsQueue(Add(queue, net)) /\ IsQueue(AddIfMissing(queue, net))
<1>1. IsQueue(Add(queue, net))
  BY DEF IsQueue, Add, BagToSet, SetToBag, (+)
<1> QED BY <1>1 DEF AddIfMissing

LEMMA RemovedQueue ==
  ASSUME NEW queue, IsQueue(queue), NEW net
  PROVE  /\ IsQueue(queue (-) SetToBag({net}))
         /\ BagToSet(queue) \ {net} \subseteq BagToSet(queue (-) SetToBag({net}))
BY DEF IsQueue, BagToSet, SetToBag, (-)

LEMMA QueueMade ==
  ASSUME NEW nets
  PROVE  IsQueue(SetToBag(nets))
BY DEF IsQueue, BagToSet, SetToBag

LEMMA SmallestFirst ==
  ASSUME NEW queue, \A n \in BagToSet(queue) : Shaped(n),
         NEW next \in Smallest(queue)
  PROVE  next \in BagToSet(queue) /\ \A n \in BagToSet(queue) : next.first <= n.first
<1>1. next \in BagToSet(queue) /\ \A n \in BagToSet(queue) : ~Before(n, next)
  BY DEF Smallest
<1>2. \A n \in BagToSet(queue) : n.first \in Int
  BY DEF Shaped
<1> QED BY <1>1, <1>2 DEF Before

-----------------------------------------------------------------------------
(* The loop: the networks done are apart and end before the current one,   *)
(* and no network in the queue starts before that.                         *)

Queued == BagToSet(networks)

SpaceTyped ==
  /\ \A net \in Queued \cup currentNet \cup ipsDone : Shaped(net) /\ Block(net)
  /\ \A x, y \in currentNet : x = y

Separate(a, b) == Last(a) < b.first \/ Last(b) < a.first

Apart(nets) == \A a, b \in nets : a # b => Separate(a, b)

DoneApart ==
  /\ Apart(ipsDone)
  /\ \A c \in currentNet :
       /\ \A d \in ipsDone : Last(d) < c.first
       /\ \A q \in Queued : c.first <= q.first

LoopInv == SpaceTyped /\ DoneApart

LEMMA StartsSound ==
  ASSUME NEW nets, \A n \in nets : Shaped(n) /\ Block(n), generateIPList(nets)
  PROVE  LoopInv'
<1>1. ipsDone' = {}
  BY DEF generateIPList
<1>2. CASE nets = {}
  <2>1. currentNet' = {} /\ networks' = EmptyBag
    BY <1>2 DEF generateIPList
  <2> QED BY <1>1, <2>1, EmptyQueue DEF LoopInv, SpaceTyped, DoneApart, Apart, Queued
<1>3. CASE nets # {}
  <2>1. PICK n \in Smallest(SetToBag(nets)) :
          currentNet' = {n} /\ networks' = SetToBag(nets \ {n})
    BY <1>3 DEF generateIPList
  <2>2. n \in nets /\ \A o \in nets : n.first <= o.first
    BY QueueOfSet, SmallestFirst
  <2>3. Queued' = nets \ {n}
    BY <2>1, QueueOfSet DEF Queued
  <2> QED BY <1>1, <2>1, <2>2, <2>3 DEF LoopInv, SpaceTyped, DoneApart, Apart
<1> QED BY <1>2, <1>3

(* The current network is done, and what follows starts after its end. *)
LEMMA DoneGrows ==
  ASSUME LoopInv, NEW current \in currentNet, ipsDone' = addIP(ipsDone, current)
  PROVE  /\ Apart(ipsDone')
         /\ \A d \in ipsDone' : Shaped(d) /\ Block(d) /\ Last(d) <= Last(current)
<1>1. \A d \in ipsDone : Last(d) < current.first /\ Shaped(d) /\ Block(d)
  BY DEF LoopInv, SpaceTyped, DoneApart
<1>2. Shaped(current) /\ Block(current) /\ Last(current) \in Int
      /\ current.first \in Int /\ current.first <= Last(current)
  BY LastAddress DEF LoopInv, SpaceTyped
<1>3. ipsDone' \subseteq ipsDone \cup {current}
  BY DEF addIP
<1>4. \A d \in ipsDone : Last(d) \in Int
  BY <1>1, LastAddress
<1>5. Apart(ipsDone')
  BY <1>1, <1>3 DEF LoopInv, DoneApart, Apart, Separate
<1> QED BY <1>1, <1>2, <1>3, <1>4, <1>5

LEMMA LoopStep == LoopInv /\ GenerateStep => LoopInv'
<1> SUFFICES ASSUME LoopInv, NEW current \in currentNet,
                    \/ LastOne(current)
                    \/ \E next \in Smallest(networks) :
                         LET rest == networks (-) SetToBag({next})
                         IN  \/ NoOverlap(current, next, rest)
                             \/ ForgetCurrent(current, next, rest)
                             \/ SplitNext(current, next, rest)
                             \/ IgnoreNext(current, next, rest)
                             \/ SplitCurrent(current, next, rest)
             PROVE  LoopInv'
  BY DEF GenerateStep
<1>1. /\ \A net \in Queued \cup currentNet \cup ipsDone : Shaped(net) /\ Block(net)
      /\ currentNet = {current}
      /\ Apart(ipsDone)
      /\ \A d \in ipsDone : Last(d) < current.first
      /\ \A q \in Queued : current.first <= q.first
      /\ Shaped(current) /\ Block(current)
  BY DEF LoopInv, SpaceTyped, DoneApart
<1>2. CASE LastOne(current)
  <2>1. ipsDone' = addIP(ipsDone, current) /\ currentNet' = {} /\ Queued' = Queued
    BY <1>2 DEF LastOne, Queued
  <2>2. Apart(ipsDone') /\ \A d \in ipsDone' : Shaped(d) /\ Block(d)
    BY <2>1, DoneGrows
  <2> QED BY <1>1, <2>1, <2>2 DEF LoopInv, SpaceTyped, DoneApart
<1>3. ASSUME NEW next \in Smallest(networks), NEW rest,
             rest = networks (-) SetToBag({next}),
             \/ NoOverlap(current, next, rest)
             \/ ForgetCurrent(current, next, rest)
             \/ SplitNext(current, next, rest)
             \/ IgnoreNext(current, next, rest)
             \/ SplitCurrent(current, next, rest)
      PROVE  LoopInv'
  <2>1. next \in Queued /\ \A q \in Queued : next.first <= q.first
    BY <1>1, SmallestFirst DEF Queued
  <2>2. BagToSet(rest) \subseteq Queued
    BY <1>3, RemovedSet DEF Queued
  <2>3. Shaped(next) /\ Block(next) /\ current.first <= next.first
    BY <1>1, <2>1
  <2>4. current.first \in Int /\ next.first \in Int /\ Last(current) \in Int
    BY <1>1, <2>3, LastAddress
  <2>5. CASE NoOverlap(current, next, rest)
    <3>1. /\ ipsDone' = addIP(ipsDone, current) /\ currentNet' = {next}
          /\ Queued' = BagToSet(rest) /\ Last(current) < next.first
      BY <2>4, <2>5 DEF NoOverlap, Overlaps, Queued
    <3>2. Apart(ipsDone')
      BY <3>1, DoneGrows
    <3>3. \A d \in ipsDone' : Shaped(d) /\ Block(d) /\ Last(d) < next.first
      <4>1. \A d \in ipsDone' : Shaped(d) /\ Block(d) /\ Last(d) <= Last(current)
        BY <3>1, DoneGrows
      <4> QED BY <4>1, <3>1, <2>4, LastAddress
    <3> QED BY <1>1, <2>1, <2>2, <2>3, <3>1, <3>2, <3>3 DEF LoopInv, SpaceTyped, DoneApart
  <2>6. CASE ForgetCurrent(current, next, rest)
    <3>1. /\ ipsDone' = ipsDone /\ currentNet' = {next} /\ Queued' = BagToSet(rest)
          /\ next.first = current.first
      BY <2>6 DEF ForgetCurrent, WithinNext, Queued
    <3> QED BY <1>1, <2>1, <2>2, <2>3, <3>1 DEF LoopInv, SpaceTyped, DoneApart
  <2>7. CASE IgnoreNext(current, next, rest)
    <3>1. ipsDone' = ipsDone /\ currentNet' = currentNet /\ Queued' = BagToSet(rest)
      BY <2>7 DEF IgnoreNext, Queued
    <3> QED BY <1>1, <2>2, <3>1 DEF LoopInv, SpaceTyped, DoneApart
  <2>8. CASE SplitNext(current, next, rest)
    <3> PICK low, high : low = LowerHalf(next) /\ high = UpperHalf(next)
      OBVIOUS
    <3>1. /\ ipsDone' = ipsDone /\ currentNet' = currentNet
          /\ \/ networks' = AddIfMissing(rest, high)
             \/ networks' = AddIfMissing(AddIfMissing(rest, high), low)
      BY <2>8 DEF SplitNext
    <3>2. Queued' \subseteq BagToSet(rest) \cup {low, high}
      BY <3>1, AddedIfMissing DEF Queued
    <3>3. Shaped(low) /\ Block(low) /\ Shaped(high) /\ Block(high)
      BY <2>3, Halves, HalfBlocks
    <3>4. low.first = next.first /\ high.first >= next.first
      <4>1. Size(low) \in Nat
        BY <3>3, SizePositive
      <4>2. low.first = next.first /\ high.first = next.first + Size(low)
        BY <2>3, Halves
      <4> QED BY <4>1, <4>2, <2>4
    <3>5. \A q \in {low, high} : current.first <= q.first
      BY <3>3, <3>4, <2>3, <2>4 DEF Shaped
    <3> QED BY <1>1, <2>2, <3>1, <3>2, <3>3, <3>5 DEF LoopInv, SpaceTyped, DoneApart
  <2>9. CASE SplitCurrent(current, next, rest)
    <3> PICK low, high : low = LowerHalf(current) /\ high = UpperHalf(current)
      OBVIOUS
    <3>1. /\ ipsDone' = ipsDone /\ currentNet' = {low}
          /\ networks' = Add(rest, next) \/ networks' = Add(Add(rest, high), next)
      BY <2>9 DEF SplitCurrent
    <3>2. Queued' \subseteq BagToSet(rest) \cup {high, next}
      BY <3>1, AddedSet DEF Queued
    <3>3. Shaped(low) /\ Block(low) /\ Shaped(high) /\ Block(high)
      BY <1>1, Halves, HalfBlocks
    <3>4. low.first = current.first /\ high.first >= current.first
      <4>1. Size(low) \in Nat
        BY <3>3, SizePositive
      <4>2. low.first = current.first /\ high.first = current.first + Size(low)
        BY <1>1, Halves
      <4> QED BY <4>1, <4>2, <2>4
    <3>5. \A q \in Queued' : low.first <= q.first /\ Shaped(q) /\ Block(q)
      BY <1>1, <2>2, <2>3, <3>2, <3>3, <3>4
    <3> QED BY <1>1, <3>1, <3>3, <3>4, <3>5 DEF LoopInv, SpaceTyped, DoneApart
  <2> QED BY <1>3, <2>5, <2>6, <2>7, <2>8, <2>9
<1> QED BY <1>2, <1>3

-----------------------------------------------------------------------------
(* What the loop keeps of the networks nets it began with, when at most    *)
(* one of them is excluded and no included one is within it: the excluded  *)
(* one stays as it is and is carved out of the included ones.              *)

Live == Queued \cup currentNet \cup ipsDone

Holds(net, a) == net.first <= a /\ a <= Last(net)

InIncluded(nets, a) == \E n \in nets : n.included /\ Holds(n, a)

InExcluded(nets, a) == \E n \in nets : ~n.included /\ Holds(n, a)

OneException(nets) ==
  \A e \in nets : ~e.included =>
    \A n \in nets \ {e} : n.included /\ ~containsNet(e, n)

LoopInOrder == \A c \in currentNet, q \in Queued : ~Before(q, c)

LoopEnds == currentNet = {} => Queued = {}

CarvedOut(nets, net) == \A e \in nets : ~e.included => ~containsNet(e, net)

Carving(nets) ==
  /\ LoopInOrder
  /\ \A n \in Live : n.mask <= Width
  /\ \A e \in nets : ~e.included => e \in Live
  /\ \A n \in Live : IF n.included THEN CarvedOut(nets, n) ELSE n \in nets
  /\ \A a \in Int : InIncluded(nets, a) /\ ~InExcluded(nets, a) => InIncluded(Live, a)
  /\ \A a \in Int : InIncluded(Live, a) => InIncluded(nets, a)

LEMMA StartsCarving ==
  ASSUME NEW nets, OneException(nets),
         \A n \in nets : Shaped(n) /\ n.mask <= Width, generateIPList(nets)
  PROVE  Carving(nets)'
<1>1. Live' = nets /\ LoopInOrder'
  <2>1. CASE nets = {}
    <3>1. currentNet' = {} /\ networks' = EmptyBag /\ ipsDone' = {}
      BY <2>1 DEF generateIPList
    <3> QED BY <2>1, <3>1, EmptyQueue DEF Live, LoopInOrder, Queued
  <2>2. CASE nets # {}
    <3>1. PICK n \in Smallest(SetToBag(nets)) :
            currentNet' = {n} /\ networks' = SetToBag(nets \ {n}) /\ ipsDone' = {}
      BY <2>2 DEF generateIPList
    <3>2. n \in nets /\ \A q \in nets : ~Before(q, n)
      BY QueueOfSet DEF Smallest
    <3>3. Queued' = nets \ {n}
      BY <3>1, QueueOfSet DEF Queued
    <3> QED BY <3>1, <3>2, <3>3 DEF Live, LoopInOrder
  <2> QED BY <2>1, <2>2
<1>2. \A n \in nets : n.included => CarvedOut(nets, n)
  BY DEF OneException, CarvedOut
<1> QED BY <1>1, <1>2 DEF Carving, InIncluded

(* What a step may do to the networks there are. *)
LEMMA CarvingKept ==
  ASSUME NEW nets, Carving(nets), LoopInOrder',
         \A n \in Live' : n \in Live
           \/ /\ n.included /\ n.mask <= Width /\ CarvedOut(nets, n)
              /\ \E m \in Live : m.included /\ \A a \in Int : Holds(n, a) => Holds(m, a),
         \A n \in Live : ~n.included => n \in Live',
         \A n \in Live, a \in Int : n.included /\ Holds(n, a) /\ ~InExcluded(nets, a)
           => InIncluded(Live', a)
  PROVE  Carving(nets)'
<1> PICK new : new = Live'
  OBVIOUS
<1>1. \A n \in new : n.mask <= Width /\ IF n.included THEN CarvedOut(nets, n) ELSE n \in nets
  BY DEF Carving
<1>2. \A e \in nets : ~e.included => e \in new
  BY DEF Carving
<1>3. \A a \in Int : InIncluded(nets, a) /\ ~InExcluded(nets, a) => InIncluded(new, a)
  <2> SUFFICES ASSUME NEW a \in Int, InIncluded(nets, a), ~InExcluded(nets, a)
               PROVE  InIncluded(new, a)
    OBVIOUS
  <2>1. InIncluded(Live, a)
    BY DEF Carving
  <2> QED BY <2>1 DEF InIncluded
<1>4. \A a \in Int : InIncluded(new, a) => InIncluded(nets, a)
  <2> SUFFICES ASSUME NEW a \in Int, NEW n \in new, n.included, Holds(n, a)
               PROVE  InIncluded(nets, a)
    BY DEF InIncluded
  <2>1. InIncluded(Live, a)
    BY DEF InIncluded
  <2> QED BY <2>1 DEF Carving
<1> QED BY <1>1, <1>2, <1>3, <1>4 DEF Carving

(* The two networks an iteration looks at. *)
LEMMA Looking ==
  ASSUME NEW nets, LoopInv, Carving(nets), IsQueue(networks),
         NEW current \in currentNet, NEW next \in Smallest(networks),
         NEW rest, rest = networks (-) SetToBag({next})
  PROVE  /\ currentNet = {current} /\ next \in Queued
         /\ Shaped(current) /\ Block(current) /\ current.mask <= Width
         /\ Shaped(next) /\ Block(next) /\ next.mask <= Width
         /\ current.mask \in Nat /\ next.mask \in Nat
         /\ current.first \in Int /\ Last(current) \in Int /\ current.first <= Last(current)
         /\ next.first \in Int /\ Last(next) \in Int /\ next.first <= Last(next)
         /\ current.first <= next.first
         /\ next.first = current.first => next.mask <= current.mask
         /\ \A q \in Queued : q.first \in Int /\ q.mask \in Nat /\ next.first <= q.first
                               /\ ~Before(q, next)
         /\ BagToSet(rest) \subseteq Queued /\ Queued \ {next} \subseteq BagToSet(rest)
         /\ IsQueue(rest)
<1>1. /\ \A net \in Queued \cup currentNet : Shaped(net) /\ Block(net)
      /\ currentNet = {current} /\ \A q \in Queued : current.first <= q.first
  BY DEF LoopInv, SpaceTyped, DoneApart
<1>2. next \in Queued /\ (\A q \in Queued : next.first <= q.first /\ ~Before(q, next))
  BY <1>1, SmallestFirst DEF Queued, Smallest
<1>3. current.mask <= Width /\ next.mask <= Width /\ ~Before(next, current)
  BY <1>2 DEF Carving, Live, LoopInOrder
<1>4. \A q \in Queued \cup currentNet : q.first \in Int /\ q.mask \in Nat
  BY <1>1 DEF Shaped
<1>5. /\ Last(current) \in Int /\ current.first <= Last(current)
      /\ Last(next) \in Int /\ next.first <= Last(next)
  BY <1>1, <1>2, LastAddress
<1>6. /\ BagToSet(rest) \subseteq Queued /\ Queued \ {next} \subseteq BagToSet(rest)
      /\ IsQueue(rest)
  BY RemovedSet, RemovedQueue DEF Queued
<1>7. next.first = current.first => next.mask <= current.mask
  BY <1>2, <1>3, <1>4 DEF Before
<1> QED BY <1>1, <1>2, <1>3, <1>4, <1>5, <1>6, <1>7

(* Networks that overlap nest: what the debug assertions of the loop say.  *)
LEMMA Nests ==
  ASSUME NEW nets, LoopInv, Carving(nets), IsQueue(networks),
         NEW current \in currentNet, NEW next \in Smallest(networks), Overlaps(current, next)
  PROVE  /\ WithinNext(current, next) =>
              next.first = current.first /\ Last(current) <= Last(next)
         /\ ~WithinNext(current, next) =>
              /\ current.first < next.first /\ Last(next) <= Last(current)
              /\ current.mask < next.mask
<1> PICK rest : rest = networks (-) SetToBag({next})
  OBVIOUS
<1>1. /\ Shaped(current) /\ Block(current) /\ current.mask <= Width
      /\ Shaped(next) /\ Block(next) /\ next.mask <= Width
      /\ current.mask \in Nat /\ next.mask \in Nat
      /\ current.first \in Int /\ Last(current) \in Int /\ current.first <= Last(current)
      /\ next.first \in Int /\ Last(next) \in Int /\ next.first <= Last(next)
      /\ current.first <= next.first
      /\ next.first = current.first => next.mask <= current.mask
  BY Looking
<1>2. next.first <= Last(current)
  BY <1>1 DEF Overlaps
<1>3. current.mask <= next.mask => containsNet(current, next)
  BY <1>1, <1>2, Nested
<1>4. next.mask <= current.mask => containsNet(next, current)
  BY <1>1, <1>2, Nested
<1>5. next.mask <= current.mask \/ current.mask < next.mask
  BY <1>1
<1> QED BY <1>1, <1>3, <1>4, <1>5 DEF containsNet, WithinNext

(* Networks of the same prefix have the same addresses. *)
LEMMA SamePrefix ==
  ASSUME NEW a, NEW b, SameNet(a, b)
  PROVE  a.first = b.first /\ Last(a) = Last(b) /\ \A x : Holds(a, x) <=> Holds(b, x)
BY DEF SameNet, Holds, Last, Size
LEMMA AddedMissing ==
  ASSUME NEW queue, NEW net
  PROVE  /\ BagToSet(queue) \subseteq BagToSet(AddIfMissing(queue, net))
         /\ BagToSet(AddIfMissing(queue, net)) \subseteq BagToSet(queue) \cup {net}
         /\ \E n \in BagToSet(AddIfMissing(queue, net)) :
              SameNet(n, net) /\ (n = net \/ n \in BagToSet(queue))
BY AddedSet DEF AddIfMissing, SameNet

(* The current network is done, or left out beside a larger one of its     *)
(* type: nothing new is there.                                             *)
LEMMA LastCarving ==
  ASSUME NEW nets, LoopInv, Carving(nets), NEW current \in currentNet, LastOne(current)
  PROVE  Carving(nets)'
<1>1. ipsDone' = addIP(ipsDone, current) /\ currentNet' = {} /\ Queued' = Queued
  BY DEF LastOne, Queued
<1>2. currentNet = {current} /\ \A d \in ipsDone : Last(d) < current.first
  BY DEF LoopInv, SpaceTyped, DoneApart
<1>3. \A d \in ipsDone : ~SameNet(d, current)
  <2> SUFFICES ASSUME NEW d \in ipsDone, SameNet(d, current)
               PROVE  FALSE
    OBVIOUS
  <2>1. Shaped(d) /\ Last(d) < d.first
    BY <1>2 DEF LoopInv, SpaceTyped, SameNet
  <2> QED BY <2>1, LastAddress
<1>4. ipsDone' = ipsDone \cup {current}
  BY <1>1, <1>3 DEF addIP
<1>5. Live' = Live
  BY <1>1, <1>2, <1>4 DEF Live
<1>6. LoopInOrder'
  BY <1>1 DEF LoopInOrder
<1> QED BY <1>5, <1>6 DEF Carving

LEMMA NoOverlapCarving ==
  ASSUME NEW nets, LoopInv, Carving(nets), IsQueue(networks),
         NEW current \in currentNet, NEW next \in Smallest(networks),
         NEW rest, rest = networks (-) SetToBag({next}), NoOverlap(current, next, rest)
  PROVE  Carving(nets)'
<1>1. /\ ipsDone' = addIP(ipsDone, current) /\ currentNet' = {next}
      /\ Queued' = BagToSet(rest)
  BY DEF NoOverlap, Queued
<1>2. /\ currentNet = {current} /\ next \in Queued
      /\ BagToSet(rest) \subseteq Queued /\ Queued \ {next} \subseteq BagToSet(rest)
      /\ \A q \in Queued : ~Before(q, next)
  BY Looking
<1>3. \A d \in ipsDone : Shaped(d) /\ Last(d) < current.first
  BY DEF LoopInv, SpaceTyped, DoneApart
<1>4. \A d \in ipsDone : ~SameNet(d, current)
  <2> SUFFICES ASSUME NEW d \in ipsDone, SameNet(d, current)
               PROVE  FALSE
    OBVIOUS
  <2>1. Shaped(d) /\ Last(d) < d.first
    BY <1>3 DEF SameNet
  <2> QED BY <2>1, LastAddress
<1>5. ipsDone' = ipsDone \cup {current}
  BY <1>1, <1>4 DEF addIP
<1>6. Live' = Live
  BY <1>1, <1>2, <1>5 DEF Live
<1>7. LoopInOrder'
  BY <1>1, <1>2 DEF LoopInOrder
<1> QED BY <1>6, <1>7 DEF Carving

LEMMA ForgetCarving ==
  ASSUME NEW nets, OneException(nets), LoopInv, Carving(nets), IsQueue(networks),
         NEW current \in currentNet, NEW next \in Smallest(networks),
         NEW rest, rest = networks (-) SetToBag({next}), ForgetCurrent(current, next, rest)
  PROVE  Carving(nets)'
<1>1. /\ Overlaps(current, next) /\ WithinNext(current, next)
      /\ current.included = next.included
      /\ ipsDone' = ipsDone /\ currentNet' = {next} /\ Queued' = BagToSet(rest)
  BY DEF ForgetCurrent, Queued
<1>2. /\ currentNet = {current} /\ next \in Queued
      /\ BagToSet(rest) \subseteq Queued /\ Queued \ {next} \subseteq BagToSet(rest)
      /\ \A q \in Queued : ~Before(q, next)
      /\ Last(current) \in Int /\ Last(next) \in Int /\ next.first \in Int
  BY Looking
<1>3. next.first = current.first /\ Last(current) <= Last(next)
  BY <1>1, Nests
<1>4. LoopInOrder'
  BY <1>1, <1>2 DEF LoopInOrder
<1>5. \A n \in Live' : n \in Live
  BY <1>1, <1>2 DEF Live
<1>6. \A n \in Live : n = current \/ n \in Live'
  BY <1>1, <1>2 DEF Live
<1>7. next \in Live' /\ next \in Live /\ current \in Live
  BY <1>1, <1>2 DEF Live
<1>8. \A n \in Live : ~n.included => n \in Live'
  <2> SUFFICES ASSUME ~current.included
               PROVE  current \in Live'
    BY <1>6
  <2>1. current \in nets /\ next \in nets /\ ~next.included
    BY <1>1, <1>7 DEF Carving
  <2>2. current = next
    BY <2>1 DEF OneException
  <2> QED BY <1>7, <2>2
<1>9. \A n \in Live, a \in Int : n.included /\ Holds(n, a) => InIncluded(Live', a)
  <2> SUFFICES ASSUME NEW n \in Live, NEW a \in Int, n.included, Holds(n, a)
               PROVE  \E m \in Live' : m.included /\ Holds(m, a)
    BY DEF InIncluded
  <2>1. CASE n \in Live'
    BY <2>1
  <2>2. CASE n = current
    BY <2>2, <1>1, <1>2, <1>3, <1>7 DEF Holds
  <2> QED BY <2>1, <2>2, <1>6
<1> QED BY <1>4, <1>5, <1>8, <1>9, CarvingKept

LEMMA IgnoreCarving ==
  ASSUME NEW nets, OneException(nets), LoopInv, Carving(nets), IsQueue(networks),
         NEW current \in currentNet, NEW next \in Smallest(networks),
         NEW rest, rest = networks (-) SetToBag({next}), IgnoreNext(current, next, rest)
  PROVE  Carving(nets)'
<1>1. /\ Overlaps(current, next) /\ ~WithinNext(current, next)
      /\ current.included = next.included
      /\ ipsDone' = ipsDone /\ currentNet' = currentNet /\ Queued' = BagToSet(rest)
  BY DEF IgnoreNext, Queued
<1>2. /\ currentNet = {current} /\ next \in Queued
      /\ BagToSet(rest) \subseteq Queued /\ Queued \ {next} \subseteq BagToSet(rest)
      /\ Last(current) \in Int /\ Last(next) \in Int /\ next.first \in Int
      /\ current.first \in Int
  BY Looking
<1>3. current.first < next.first /\ Last(next) <= Last(current)
  BY <1>1, Nests
<1>4. LoopInOrder'
  BY <1>1, <1>2 DEF LoopInOrder, Carving
<1>5. \A n \in Live' : n \in Live
  BY <1>1, <1>2 DEF Live
<1>6. \A n \in Live : n = next \/ n \in Live'
  BY <1>1, <1>2 DEF Live
<1>7. current \in Live' /\ next \in Live /\ current \in Live
  BY <1>1, <1>2 DEF Live
<1>8. \A n \in Live : ~n.included => n \in Live'
  <2> SUFFICES ASSUME ~next.included
               PROVE  next \in Live'
    BY <1>6
  <2>1. current \in nets /\ next \in nets /\ ~current.included
    BY <1>1, <1>7 DEF Carving
  <2>2. current = next
    BY <2>1 DEF OneException
  <2> QED BY <1>7, <2>2
<1>9. \A n \in Live, a \in Int : n.included /\ Holds(n, a) => InIncluded(Live', a)
  <2> SUFFICES ASSUME NEW n \in Live, NEW a \in Int, n.included, Holds(n, a)
               PROVE  \E m \in Live' : m.included /\ Holds(m, a)
    BY DEF InIncluded
  <2>1. CASE n \in Live'
    BY <2>1
  <2>2. CASE n = next
    BY <2>2, <1>1, <1>2, <1>3, <1>7 DEF Holds
  <2> QED BY <2>1, <2>2, <1>6
<1> QED BY <1>4, <1>5, <1>8, <1>9, CarvingKept

(* The network that is split is always an included one: the other is the   *)
(* excluded one, which is strictly within it.                              *)
LEMMA SplitNextCarving ==
  ASSUME NEW nets, OneException(nets), LoopInv, Carving(nets), IsQueue(networks),
         NEW current \in currentNet, NEW next \in Smallest(networks),
         NEW rest, rest = networks (-) SetToBag({next}), SplitNext(current, next, rest)
  PROVE  Carving(nets)'
<1> PICK low, high : low = LowerHalf(next) /\ high = UpperHalf(next)
  OBVIOUS
<1> PICK upper, both : upper = AddIfMissing(rest, high) /\ both = AddIfMissing(upper, low)
  OBVIOUS
<1>1. /\ Overlaps(current, next) /\ WithinNext(current, next)
      /\ current.included # next.included
      /\ ipsDone' = ipsDone /\ currentNet' = currentNet
      /\ Queued' = IF Last(low) = Last(current) THEN BagToSet(upper) ELSE BagToSet(both)
  BY DEF SplitNext, Queued
<1>2. /\ currentNet = {current} /\ next \in Queued
      /\ BagToSet(rest) \subseteq Queued /\ Queued \ {next} \subseteq BagToSet(rest)
      /\ Shaped(current) /\ Block(current) /\ current.mask <= Width
      /\ Shaped(next) /\ Block(next) /\ next.mask <= Width
      /\ current.mask \in Nat /\ next.mask \in Nat
      /\ Last(current) \in Int /\ Last(next) \in Int /\ next.first \in Int
      /\ current.first \in Int /\ current.first <= Last(current)
  BY Looking
<1>2a. \A q \in Queued : q.first \in Int /\ q.mask \in Nat
  BY Looking
<1>3. next.first = current.first /\ Last(current) <= Last(next) /\ current.mask >= next.mask
  BY <1>1, Nests DEF WithinNext
<1>4. next \in Live /\ current \in Live
  BY <1>2 DEF Live
<1>5. /\ current.included \in BOOLEAN /\ next.included \in BOOLEAN
  BY <1>2 DEF Shaped
<1>6. ~current.included /\ next.included /\ current \in nets
  <2>1. CASE next.included
    BY <1>1, <1>4, <1>5, <2>1 DEF Carving
  <2>2. CASE ~next.included
    <3>1. next \in nets /\ current.included /\ CarvedOut(nets, current)
      BY <1>1, <1>4, <1>5, <2>2 DEF Carving
    <3>2. containsNet(next, current)
      BY <1>2, <1>3 DEF containsNet
    <3> QED BY <2>2, <3>1, <3>2 DEF CarvedOut
  <2> QED BY <2>1, <2>2
<1>7. ~containsNet(current, next) /\ \A e \in nets : ~e.included => e = current
  <2>1. CarvedOut(nets, next)
    BY <1>4, <1>6 DEF Carving
  <2> QED BY <1>6, <2>1 DEF CarvedOut, OneException
<1>8. next.mask < current.mask
  <2> SUFFICES ASSUME next.mask = current.mask
               PROVE  FALSE
    BY <1>2, <1>3
  <2>1. SameNet(current, next)
    BY <1>3 DEF SameNet
  <2>2. Last(current) = Last(next)
    BY <2>1, SamePrefix
  <2> QED BY <1>2, <1>3, <1>7, <2>2 DEF containsNet
<1>9. next.mask < Width
  BY <1>2, <1>8, WidthAssumption
<1>10. /\ Shaped(low) /\ Shaped(high) /\ Block(low) /\ Block(high)
       /\ low.mask = next.mask + 1 /\ high.mask = next.mask + 1
       /\ low.included /\ high.included
       /\ low.first = next.first
       /\ high.first = Last(low) + 1 /\ Last(high) = Last(next) /\ next.first < high.first
  BY <1>2, <1>6, <1>9, Halves, HalfBlocks, HalvesCover
<1>11. /\ low.first \in Int /\ Last(low) \in Int /\ low.first <= Last(low)
       /\ high.first \in Int /\ Last(high) \in Int /\ high.first <= Last(high)
  BY <1>10, LastAddress
<1>12. low.mask <= current.mask /\ low.mask <= Width /\ high.mask <= Width
  BY <1>2, <1>8, <1>10, WidthAssumption
<1>13. Last(current) <= Last(low)
  <2>1. containsNet(low, current)
    BY <1>2, <1>3, <1>10, <1>11, <1>12, Nested
  <2> QED BY <2>1 DEF containsNet
<1>14. CarvedOut(nets, high)
  <2>1. ~containsNet(current, high)
    BY <1>2, <1>10, <1>11, <1>13 DEF containsNet
  <2> QED BY <1>7, <2>1 DEF CarvedOut
<1>15. Last(low) # Last(current) => CarvedOut(nets, low)
  <2>1. Last(low) # Last(current) => ~containsNet(current, low)
    BY <1>2, <1>11, <1>13 DEF containsNet
  <2> QED BY <1>7, <2>1 DEF CarvedOut
<1>16. /\ BagToSet(rest) \subseteq BagToSet(upper)
       /\ BagToSet(upper) \subseteq BagToSet(rest) \cup {high}
       /\ \E n \in BagToSet(upper) : SameNet(n, high) /\ (n = high \/ n \in Queued)
  BY <1>2, AddedMissing
<1>17. /\ BagToSet(upper) \subseteq BagToSet(both)
       /\ BagToSet(both) \subseteq BagToSet(upper) \cup {low}
       /\ \E n \in BagToSet(both) : SameNet(n, low) /\ (n = low \/ n \in BagToSet(upper))
  BY AddedMissing
<1>18. /\ BagToSet(rest) \subseteq Queued' /\ BagToSet(upper) \subseteq Queued'
       /\ Queued' \subseteq Queued \cup {low, high}
       /\ low \in Queued' => low \in Queued \/ Last(low) # Last(current) \/ low = high
  BY <1>1, <1>2, <1>16, <1>17
<1>19. low # high
  BY <1>10, <1>11
<1>20. LoopInOrder'
  <2> SUFFICES ASSUME NEW q \in Queued'
               PROVE  ~Before(q, current)
    BY <1>1, <1>2 DEF LoopInOrder
  <2>1. CASE q \in Queued
    BY <1>2, <2>1 DEF Carving, LoopInOrder
  <2>2. CASE q = low
    BY <2>2, <1>2, <1>3, <1>10, <1>12 DEF Before
  <2>3. CASE q = high
    BY <2>3, <1>2, <1>3, <1>10, <1>11 DEF Before
  <2> QED BY <1>18, <2>1, <2>2, <2>3
<1>21. \A n \in Live' : n \in Live
         \/ /\ n.included /\ n.mask <= Width /\ CarvedOut(nets, n)
            /\ \E m \in Live : m.included /\ \A a \in Int : Holds(n, a) => Holds(m, a)
  <2> SUFFICES ASSUME NEW n \in Live', n \notin Live
               PROVE  /\ n.included /\ n.mask <= Width /\ CarvedOut(nets, n)
                      /\ \A a \in Int : Holds(n, a) => Holds(next, a)
    BY <1>4, <1>6
  <2>1. n \in {low, high} /\ n \in Queued' /\ n \notin Queued
    BY <1>1, <1>18 DEF Live
  <2>2. CASE n = high
    BY <2>2, <1>2, <1>10, <1>11, <1>12, <1>14 DEF Holds
  <2>3. CASE n = low
    <3>1. CarvedOut(nets, low)
      BY <2>1, <2>3, <1>15, <1>18, <1>19
    <3> QED BY <2>3, <3>1, <1>2, <1>10, <1>11, <1>12 DEF Holds
  <2> QED BY <2>1, <2>2, <2>3
<1>22. \A n \in Live : n = next \/ n \in Live'
  BY <1>1, <1>2, <1>18 DEF Live
<1>23. \A n \in Live : ~n.included => n \in Live'
  BY <1>6, <1>22
(* A network of the same prefix that is in the queue already is included,  *)
(* as the excluded one is another.                                         *)
<1>24. ASSUME NEW n \in Queued', NEW half \in {low, high}, SameNet(n, half),
              ~(half = low /\ Last(low) = Last(current))
       PROVE  n \in Live' /\ n.included /\ \A a \in Int : Holds(half, a) => Holds(n, a)
  <2>1. n \in Live' /\ \A a \in Int : Holds(half, a) => Holds(n, a)
    BY <1>24, SamePrefix DEF Live
  <2>2. n.first = half.first /\ Last(n) = Last(half)
    BY <1>24, SamePrefix
  <2>3. n # current
    BY <1>24, <2>2, <1>2, <1>3, <1>10, <1>11
  <2>4. n.included
    <3>1. CASE n \in {low, high}
      BY <3>1, <1>10
    <3>2. CASE n \in Queued
      BY <2>3, <3>2, <1>7 DEF Carving, Live
    <3> QED BY <3>1, <3>2, <1>18
  <2> QED BY <2>1, <2>4
<1>25. \A n \in Live, a \in Int : n.included /\ Holds(n, a) /\ ~InExcluded(nets, a)
         => InIncluded(Live', a)
  <2> SUFFICES ASSUME NEW n \in Live, NEW a \in Int, n.included, Holds(n, a),
                      ~InExcluded(nets, a)
               PROVE  \E m \in Live' : m.included /\ Holds(m, a)
    BY DEF InIncluded
  <2>1. CASE n \in Live'
    BY <2>1
  <2>2. CASE n = next
    <3>1. ~Holds(current, a)
      BY <1>6 DEF InExcluded
    <3>2. CASE Holds(high, a)
      BY <3>2, <1>16, <1>18, <1>19, <1>24
    <3>3. CASE Holds(low, a)
      <4>1. Last(low) # Last(current)
        BY <3>1, <3>3, <1>3, <1>10 DEF Holds
      <4>2. Queued' = BagToSet(both)
        BY <4>1, <1>1
      <4> QED BY <3>3, <4>1, <4>2, <1>17, <1>24
    <3>4. Holds(low, a) \/ Holds(high, a)
      BY <2>2, <1>2, <1>10, <1>11 DEF Holds
    <3> QED BY <3>2, <3>3, <3>4
  <2> QED BY <2>1, <2>2, <1>22
<1> QED BY <1>20, <1>21, <1>23, <1>25, CarvingKept
LEMMA SplitCurrentCarving ==
  ASSUME NEW nets, OneException(nets), LoopInv, Carving(nets), IsQueue(networks),
         NEW current \in currentNet, NEW next \in Smallest(networks),
         NEW rest, rest = networks (-) SetToBag({next}), SplitCurrent(current, next, rest)
  PROVE  Carving(nets)'
<1> PICK low, high : low = LowerHalf(current) /\ high = UpperHalf(current)
  OBVIOUS
<1>1. /\ Overlaps(current, next) /\ ~WithinNext(current, next)
      /\ current.included # next.included
      /\ ipsDone' = ipsDone /\ currentNet' = {low}
      /\ networks' = IF high.mask = next.mask THEN Add(rest, next)
                     ELSE Add(Add(rest, high), next)
  BY DEF SplitCurrent
<1>2. /\ currentNet = {current} /\ next \in Queued
      /\ BagToSet(rest) \subseteq Queued /\ Queued \ {next} \subseteq BagToSet(rest)
      /\ Shaped(current) /\ Block(current) /\ current.mask <= Width
      /\ Shaped(next) /\ Block(next) /\ next.mask <= Width
      /\ current.mask \in Nat /\ next.mask \in Nat
      /\ Last(current) \in Int /\ Last(next) \in Int /\ next.first \in Int
      /\ current.first \in Int /\ next.first <= Last(next)
  BY Looking
<1>2a. \A q \in Queued : q.first \in Int /\ q.mask \in Nat /\ next.first <= q.first
  BY Looking
<1>3. current.first < next.first /\ Last(next) <= Last(current) /\ current.mask < next.mask
  BY <1>1, Nests
<1>4. next \in Live /\ current \in Live
  BY <1>2 DEF Live
<1>5. /\ current.included \in BOOLEAN /\ next.included \in BOOLEAN
  BY <1>2 DEF Shaped
<1>6. current.included /\ ~next.included /\ next \in nets
  <2>1. CASE ~next.included
    BY <1>1, <1>4, <1>5, <2>1 DEF Carving
  <2>2. CASE next.included
    <3>1. current \in nets /\ ~current.included /\ CarvedOut(nets, next)
      BY <1>1, <1>4, <1>5, <2>2 DEF Carving
    <3>2. containsNet(current, next)
      BY <1>2, <1>3 DEF containsNet
    <3> QED BY <3>1, <3>2 DEF CarvedOut
  <2> QED BY <2>1, <2>2
<1>7. \A e \in nets : ~e.included => e = next
  BY <1>6 DEF OneException
<1>8. current.mask < Width
  BY <1>2, <1>3, WidthAssumption
<1>9. /\ Shaped(low) /\ Shaped(high) /\ Block(low) /\ Block(high)
      /\ low.mask = current.mask + 1 /\ high.mask = current.mask + 1
      /\ low.included /\ high.included
      /\ low.first = current.first
      /\ high.first = Last(low) + 1 /\ Last(high) = Last(current) /\ current.first < high.first
  BY <1>2, <1>6, <1>8, Halves, HalfBlocks, HalvesCover
<1>10. /\ low.first \in Int /\ Last(low) \in Int /\ low.first <= Last(low)
       /\ high.first \in Int /\ Last(high) \in Int /\ high.first <= Last(high)
  BY <1>9, LastAddress
<1>11. low.mask <= next.mask /\ low.mask <= Width /\ high.mask <= Width /\ high.mask <= next.mask
  BY <1>2, <1>3, <1>9, WidthAssumption
<1>12. CarvedOut(nets, low)
  <2>1. ~containsNet(next, low)
    BY <1>2, <1>3, <1>9, <1>10 DEF containsNet
  <2> QED BY <1>7, <2>1 DEF CarvedOut
<1>13. high.mask # next.mask => CarvedOut(nets, high)
  <2> SUFFICES ASSUME high.mask # next.mask, containsNet(next, high)
               PROVE  FALSE
    BY <1>7 DEF CarvedOut
  <2>1. next.first <= high.first /\ Last(high) <= Last(next)
    BY DEF containsNet
  <2>2. high.mask < next.mask
    BY <1>2, <1>9, <1>11
  <2>3. containsNet(high, next)
    BY <2>1, <1>2, <1>9, <1>10, <1>11, Nested
  <2>4. high.first = next.first /\ Last(high) = Last(next)
    BY <2>1, <2>3, <1>2, <1>10 DEF containsNet
  <2>5. Size(next) < Size(high) /\ Size(next) \in Nat /\ Size(high) \in Nat
    BY <2>2, <1>2, <1>9, LargerMask, SizePositive
  <2> QED BY <2>4, <2>5, <1>2 DEF Last
(* If it has the mask of the upper half it is the upper half. *)
<1>14. high.mask = next.mask => \A a \in Int : Holds(high, a) => Holds(next, a)
  <2> SUFFICES ASSUME high.mask = next.mask
               PROVE  containsNet(next, high)
    BY <1>2, <1>10 DEF containsNet, Holds
  <2>0. /\ next.mask <= low.mask /\ next.mask <= high.mask
        /\ low.mask <= Width /\ high.mask <= Width
        /\ Shaped(next) /\ Block(next) /\ Shaped(low) /\ Block(low) /\ Shaped(high) /\ Block(high)
        /\ next.first <= next.first /\ next.first <= Last(next)
    BY <1>2, <1>9, <1>11
  <2>a. PICK x \in Int : x = next.first
    BY <1>2
  <2>1. CASE next.first <= Last(low)
    <3>1. low.first <= next.first /\ next.first <= Last(low)
      BY <2>1, <1>2, <1>3, <1>9
    <3>2. containsNet(next, low)
      BY <3>1, <2>0, <2>a, Nested
    <3> QED BY <3>2, <1>2, <1>3, <1>9, <1>10 DEF containsNet
  <2>2. CASE next.first > Last(low)
    <3>1. high.first <= next.first /\ next.first <= Last(high)
      BY <2>2, <1>2, <1>3, <1>9, <1>10
    <3> QED BY <3>1, <2>0, <2>a, Nested
  <2>3. next.first <= Last(low) \/ next.first > Last(low)
    BY <1>2, <1>10
  <2> QED BY <2>1, <2>2, <2>3
<1>15. Queued' = IF high.mask = next.mask THEN BagToSet(rest) \cup {next}
                 ELSE BagToSet(rest) \cup {high, next}
  <2>1. BagToSet(Add(rest, next)) = BagToSet(rest) \cup {next}
    BY AddedSet
  <2>2. BagToSet(Add(Add(rest, high), next)) = BagToSet(rest) \cup {high, next}
    BY AddedSet
  <2> QED BY <2>1, <2>2, <1>1 DEF Queued
<1>16. LoopInOrder'
  <2> SUFFICES ASSUME NEW q \in Queued'
               PROVE  ~Before(q, low)
    BY <1>1 DEF LoopInOrder
  <2>1. CASE q \in Queued
    BY <2>1, <1>2, <1>2a, <1>3, <1>9 DEF Before
  <2>2. CASE q = high
    BY <2>2, <1>2, <1>9, <1>10 DEF Before
  <2> QED BY <2>1, <2>2, <1>2, <1>15
<1>17. \A n \in Live' : n \in Live
         \/ /\ n.included /\ n.mask <= Width /\ CarvedOut(nets, n)
            /\ \E m \in Live : m.included /\ \A a \in Int : Holds(n, a) => Holds(m, a)
  <2> SUFFICES ASSUME NEW n \in Live', n \notin Live
               PROVE  /\ n.included /\ n.mask <= Width /\ CarvedOut(nets, n)
                      /\ \A a \in Int : Holds(n, a) => Holds(current, a)
    BY <1>4, <1>6
  <2>1. n = low \/ (n = high /\ high.mask # next.mask)
    BY <1>1, <1>2, <1>15 DEF Live
  <2>2. CASE n = low
    BY <2>2, <1>2, <1>9, <1>10, <1>11, <1>12 DEF Holds
  <2>3. CASE n = high /\ high.mask # next.mask
    BY <2>3, <1>2, <1>9, <1>10, <1>11, <1>13 DEF Holds
  <2> QED BY <2>1, <2>2, <2>3
<1>18. \A n \in Live : n = current \/ n \in Live'
  BY <1>1, <1>2, <1>15 DEF Live
<1>19. \A n \in Live : ~n.included => n \in Live'
  BY <1>6, <1>18
<1>20. low \in Live' /\ (high.mask # next.mask => high \in Live')
  BY <1>1, <1>15 DEF Live
<1>21. \A n \in Live, a \in Int : n.included /\ Holds(n, a) /\ ~InExcluded(nets, a)
         => InIncluded(Live', a)
  <2> SUFFICES ASSUME NEW n \in Live, NEW a \in Int, n.included, Holds(n, a),
                      ~InExcluded(nets, a)
               PROVE  \E m \in Live' : m.included /\ Holds(m, a)
    BY DEF InIncluded
  <2>1. CASE n \in Live'
    BY <2>1
  <2>2. CASE n = current
    <3>1. ~Holds(next, a)
      BY <1>6 DEF InExcluded
    <3>2. Holds(low, a) \/ Holds(high, a)
      BY <2>2, <1>2, <1>9, <1>10 DEF Holds
    <3>3. Holds(high, a) => high.mask # next.mask
      BY <3>1, <1>14
    <3> QED BY <3>2, <3>3, <1>9, <1>20
  <2> QED BY <2>1, <2>2, <1>18
<1> QED BY <1>16, <1>17, <1>19, <1>21, CarvingKept

LEMMA CarvingStep ==
  ASSUME NEW nets, OneException(nets), LoopInv, Carving(nets), IsQueue(networks), GenerateStep
  PROVE  Carving(nets)'
<1>1. PICK current \in currentNet :
        \/ LastOne(current)
        \/ \E next \in Smallest(networks) :
             LET rest == networks (-) SetToBag({next})
             IN  \/ NoOverlap(current, next, rest)
                 \/ ForgetCurrent(current, next, rest)
                 \/ SplitNext(current, next, rest)
                 \/ IgnoreNext(current, next, rest)
                 \/ SplitCurrent(current, next, rest)
  BY DEF GenerateStep
<1>2. ASSUME NEW next \in Smallest(networks), NEW rest,
             rest = networks (-) SetToBag({next}),
             \/ NoOverlap(current, next, rest)
             \/ ForgetCurrent(current, next, rest)
             \/ SplitNext(current, next, rest)
             \/ IgnoreNext(current, next, rest)
             \/ SplitCurrent(current, next, rest)
      PROVE  Carving(nets)'
  BY <1>2, NoOverlapCarving, ForgetCarving, SplitNextCarving, IgnoreCarving,
     SplitCurrentCarving
<1> QED BY <1>1, <1>2, LastCarving

(* The queue stays a bag, and is empty once there is no current network. *)
LEMMA QueueStep ==
  ASSUME IsQueue(networks), LoopEnds, GenerateStep
  PROVE  (IsQueue(networks) /\ LoopEnds)'
<1>1. PICK current \in currentNet :
        \/ LastOne(current)
        \/ \E next \in Smallest(networks) :
             LET rest == networks (-) SetToBag({next})
             IN  \/ NoOverlap(current, next, rest)
                 \/ ForgetCurrent(current, next, rest)
                 \/ SplitNext(current, next, rest)
                 \/ IgnoreNext(current, next, rest)
                 \/ SplitCurrent(current, next, rest)
  BY DEF GenerateStep
<1>2. CASE LastOne(current)
  BY <1>2, EmptyQueue DEF LastOne, LoopEnds, Queued
<1>3. ASSUME NEW next \in Smallest(networks), NEW rest,
             rest = networks (-) SetToBag({next}),
             \/ NoOverlap(current, next, rest)
             \/ ForgetCurrent(current, next, rest)
             \/ SplitNext(current, next, rest)
             \/ IgnoreNext(current, next, rest)
             \/ SplitCurrent(current, next, rest)
      PROVE  (IsQueue(networks) /\ LoopEnds)'
  <2>1. IsQueue(rest)
    BY <1>3, RemovedQueue
  <2>2. currentNet' # {}
    BY <1>3 DEF NoOverlap, ForgetCurrent, SplitNext, IgnoreNext, SplitCurrent
  <2>3. networks' = rest => IsQueue(networks')
    BY <2>1
  <2>4. CASE SplitNext(current, next, rest)
    BY <2>1, <2>2, <2>4, AddedQueue DEF SplitNext, LoopEnds
  <2>5. CASE SplitCurrent(current, next, rest)
    BY <2>1, <2>2, <2>5, AddedQueue DEF SplitCurrent, LoopEnds
  <2>6. CASE NoOverlap(current, next, rest) \/ ForgetCurrent(current, next, rest)
             \/ IgnoreNext(current, next, rest)
    BY <2>1, <2>2, <2>6 DEF NoOverlap, ForgetCurrent, IgnoreNext, LoopEnds
  <2> QED BY <1>3, <2>4, <2>5, <2>6
<1> QED BY <1>1, <1>2, <1>3

(* What the loop leaves: the addresses of the included networks without    *)
(* those of the excluded one.                                              *)
LEMMA Carved ==
  ASSUME NEW nets, LoopInv, Carving(nets), LoopEnds, Generated, NEW a \in Int
  PROVE  InIncluded(ipsDone, a) <=> InIncluded(nets, a) /\ ~InExcluded(nets, a)
<1>1. Live = ipsDone
  BY DEF Live, LoopEnds, Generated
<1>2. ASSUME InIncluded(ipsDone, a), InExcluded(nets, a)
      PROVE  FALSE
  <2>1. PICK n \in ipsDone : n.included /\ Holds(n, a)
    BY <1>2 DEF InIncluded
  <2>2. PICK e \in ipsDone : ~e.included /\ Holds(e, a)
    BY <1>1, <1>2 DEF InExcluded, Carving
  <2>3. Separate(n, e)
    BY <2>1, <2>2 DEF LoopInv, DoneApart, Apart
  <2>4. Shaped(n) /\ Shaped(e)
    BY DEF LoopInv, SpaceTyped
  <2>5. /\ n.first \in Int /\ Last(n) \in Int /\ e.first \in Int /\ Last(e) \in Int
    BY <2>4, LastAddress
  <2> QED BY <2>1, <2>2, <2>3, <2>5 DEF Holds, Separate
<1> QED BY <1>1, <1>2 DEF Carving

=============================================================================
