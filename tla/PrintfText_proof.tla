-------------------------- MODULE PrintfText_proof --------------------------
(***************************************************************************)
(* What is printed is the number, rounded once and as it was asked, and    *)
(* the text says so and stays in its buffer.                               *)
(*                                                                         *)
(* The code never looks at the number it drops: it cuts one digit less,    *)
(* takes the last digit of that quotient and whether anything is left      *)
(* behind it, and may then have one digit too many, which it divides away  *)
(* without rounding again.  The first part of the proof compares the cut   *)
(* with the remainder the mode is defined by, the second follows the carry *)
(* through the loop.  The third shows that each notation is a text whose   *)
(* digits are those of the number, wherever it is filled up, cut or        *)
(* trimmed.  The next does the same for %a, which rounds the bits: the cut *)
(* it compares with is half of a power of sixteen, which is a power of two.*)
(* The last shows that enough digits tell the number from its neighbours.  *)
(***************************************************************************)
EXTENDS PrintfText, Texts_proof

---------------------------------------------------------------------------
(* Numbers *)

\* The last digit of a quotient and what is left behind it are the remainder
\* of ten times the divisor.
LEMMA OneDigitMore ==
  ASSUME NEW n \in Nat, NEW u \in Nat \ {0}
  PROVE  /\ n \div u \in Nat /\ (n \div u) % 10 \in 0 .. 9 /\ n % u \in 0 .. u - 1
         /\ n \div (10 * u) = (n \div u) \div 10
         /\ n % (10 * u) = u * ((n \div u) % 10) + (n % u)
<1> DEFINE q == n \div u
           t == n % u
           k == q \div 10
           d == q % 10
<1>1. q \in Nat /\ t \in 0 .. u - 1 /\ n = u * q + t
  BY DivMod
<1>2. k \in Nat /\ d \in 0 .. 9 /\ q = 10 * k + d
  BY <1>1
<1> HIDE DEF q, t, k, d
<1>3. u * q = (10 * u) * k + u * d
  BY <1>1, <1>2
<1>4. u * d \in Nat /\ u * d <= 9 * u
  <2>1. d \in {0, 1, 2, 3, 4, 5, 6, 7, 8, 9}
    BY <1>2
  <2> QED
    BY <2>1
<1>5. 10 * u \in Nat \ {0} /\ u * d + t \in 0 .. 10 * u - 1
  BY <1>1, <1>4
<1>6. n = (10 * u) * k + (u * d + t)
  <2>1. (10 * u) * k \in Nat
    BY <1>2
  <2> QED
    BY <1>1, <1>3, <1>4, <2>1
<1>7. n \div (10 * u) = k /\ n % (10 * u) = u * d + t
  <2> DEFINE w == 10 * u
             r == u * d + t
  <2>1. w \in Nat \ {0} /\ r \in 0 .. w - 1 /\ n = w * k + r
    BY <1>5, <1>6
  <2> HIDE DEF w, r
  <2>2. n \div w = k /\ n % w = r
    BY <1>2, <2>1, DivModIs
  <2> QED
    BY <2>2 DEF w, r
<1> QED
  BY <1>1, <1>2, <1>7 DEF q, t, k, d

---------------------------------------------------------------------------
(* Powers of ten, and the length of a number *)

LEMMA Sizes ==
  /\ MaxDigits \in Nat /\ MaxDigits > 1 /\ Capacity \in Nat /\ Capacity <= MaxDigits
  /\ LimbDigits \in Nat \ {0} /\ DefaultPrecision \in Nat /\ MaxPrecision \in Nat
  /\ DefaultPrecision + 1 < MaxDigits /\ MaxPrecision + 1 < MaxDigits
BY PrintfAssumption, SizeAssumption

LEMMA Tens ==
  ASSUME NEW k \in 0 .. MaxDigits
  PROVE  /\ 10 ^ k \in Nat \ {0}
         /\ k > 0 => 10 ^ k = 10 * 10 ^ (k - 1)
         /\ k = 0 => 10 ^ k = 1
<1>1. PowersUpTo(10, MaxDigits) /\ MaxDigits \in Nat
  BY PowersAssumption, Sizes
<1>2. 10 ^ k \in Nat \ {0}
  BY <1>1, PowerPositive
<1>3. ASSUME k > 0 PROVE 10 ^ k = 10 * 10 ^ (k - 1)
  <2>1. k - 1 \in 0 .. MaxDigits - 1 /\ (k - 1) + 1 = k
    BY <1>3, <1>1
  <2>2. 10 ^ ((k - 1) + 1) = 10 * 10 ^ (k - 1)
    BY <1>1, <2>1 DEF PowersUpTo
  <2> QED
    BY <2>1, <2>2
<1>4. ASSUME k = 0 PROVE 10 ^ k = 1
  BY <1>1, <1>4 DEF PowersUpTo
<1> QED
  BY <1>2, <1>3, <1>4

LEMMA TensSum ==
  ASSUME NEW j \in Nat, NEW k \in Nat, j + k <= MaxDigits
  PROVE  10 ^ (j + k) = 10 ^ j * 10 ^ k
<1>1. PowersUpTo(10, MaxDigits) /\ MaxDigits \in Nat
  BY PowersAssumption, Sizes
<1> QED
  BY <1>1, PowerSum

LEMMA TensOrder ==
  ASSUME NEW j \in 0 .. MaxDigits, NEW k \in 0 .. MaxDigits, j <= k
  PROVE  10 ^ j <= 10 ^ k
<1>1. PowersUpTo(10, MaxDigits) /\ MaxDigits \in Nat
  BY PowersAssumption, Sizes
<1> QED
  BY <1>1, PowerOrder

\* A number below the largest power has a length.
LEMMA Length ==
  ASSUME NEW n \in Nat, n < 10 ^ MaxDigits
  PROVE  /\ DecimalLen(n) \in 1 .. MaxDigits
         /\ n < 10 ^ DecimalLen(n)
         /\ DecimalLen(n) > 1 => 10 ^ (DecimalLen(n) - 1) <= n
<1> DEFINE T == {k \in 1 .. MaxDigits : n < 10 ^ k}
<1>1. T \subseteq Nat /\ MaxDigits \in T
  BY Sizes
<1>2. PICK k \in T : \A j \in T : k <= j
  BY <1>1, LeastMember
<1>3. k \in 1 .. MaxDigits /\ n < 10 ^ k
  OBVIOUS
<1>4. ASSUME k > 1 PROVE 10 ^ (k - 1) <= n
  <2>1. k - 1 \in 0 .. MaxDigits /\ k - 1 \in 1 .. MaxDigits /\ k - 1 \notin T
    BY <1>2, <1>3, <1>4, Sizes
  <2>2. 10 ^ (k - 1) \in Nat
    BY <2>1, Tens
  <2> QED
    BY <2>1, <2>2
<1>5. \E j \in 1 .. MaxDigits : n < 10 ^ j /\ (j > 1 => 10 ^ (j - 1) <= n)
  BY <1>3, <1>4
<1> QED
  BY <1>5 DEF DecimalLen

\* The limbs of a number have room for its digits.
LEMMA LimbsHold ==
  ASSUME NEW n \in Nat, n < 10 ^ MaxDigits
  PROVE  LimbLen(n) \in Nat /\ DecimalLen(n) <= LimbDigits * LimbLen(n)
<1> DEFINE l == DecimalLen(n)
           a == l + LimbDigits - 1
<1>1. l \in 1 .. MaxDigits
  BY Length
<1>4. LimbLen(n) = a \div LimbDigits
  BY DEF LimbLen
<1> HIDE DEF l
<1>2. a \in Nat /\ LimbDigits \in Nat \ {0}
  BY <1>1, Sizes
<1>3. a \div LimbDigits \in Nat /\ a % LimbDigits \in 0 .. LimbDigits - 1
      /\ a = LimbDigits * (a \div LimbDigits) + (a % LimbDigits)
  BY <1>2, DivMod
<1>5. LimbDigits * (a \div LimbDigits) \in Nat
  <2>1. \A x, y \in Nat : x * y \in Nat
    OBVIOUS
  <2> QED
    BY <1>2, <1>3, <2>1
<1>6. l <= LimbDigits * (a \div LimbDigits)
  BY <1>1, <1>2, <1>3, <1>5
<1> QED
  BY <1>3, <1>4, <1>6 DEF l

---------------------------------------------------------------------------
(* The cut *)

\* What the mode makes of a remainder of ten times u.
RoundsRest(rest, unit, odd) ==
  CASE mode = "TOWARD_ZERO" -> FALSE
    [] mode = "TOWARD_POS" -> ~negative /\ rest # 0
    [] mode = "TOWARD_NEG" -> negative /\ rest # 0
    [] OTHER -> 2 * rest > unit \/ (2 * rest = unit /\ odd)

\* The digit and the tail tell as much as the remainder they come from.
LEMMA RoundsUpRest ==
  ASSUME NEW u \in Nat \ {0}, NEW d \in 0 .. 9, NEW t \in 0 .. u - 1, NEW odd \in BOOLEAN,
         mode \in Modes, negative \in BOOLEAN
  PROVE  RoundsUp(d, t # 0, odd) <=> RoundsRest(u * d + t, 10 * u, odd)
<1> DEFINE r == u * d + t
<1>1. d \in {0, 1, 2, 3, 4, 5, 6, 7, 8, 9}
  OBVIOUS
<1>2. r \in Nat /\ (r # 0 <=> d > 0 \/ t # 0)
  BY <1>1
<1>3. 2 * r > 10 * u <=> d > 5 \/ (d = 5 /\ t # 0)
  BY <1>1
<1>4. 2 * r = 10 * u <=> d = 5 /\ t = 0
  BY <1>1
<1> HIDE DEF r
<1>5. CASE mode = "TOWARD_ZERO"
  BY <1>5 DEF RoundsUp, RoundsRest, r
<1>6. CASE mode = "TOWARD_POS"
  BY <1>2, <1>6 DEF RoundsUp, RoundsRest, r
<1>7. CASE mode = "TOWARD_NEG"
  BY <1>2, <1>7 DEF RoundsUp, RoundsRest, r
<1>8. CASE mode = "NEAREST_EVEN"
  BY <1>3, <1>4, <1>8 DEF RoundsUp, RoundsRest, r
<1> QED
  BY <1>5, <1>6, <1>7, <1>8 DEF Modes

LEMMA RoundedToIs ==
  ASSUME NEW n \in Nat, NEW k \in 1 .. MaxDigits
  PROVE  RoundedTo(n, k) = IF RoundsRest(n % 10 ^ k, 10 ^ k, (n \div 10 ^ k) % 2 = 1)
                             THEN (n \div 10 ^ k) + 1 ELSE n \div 10 ^ k
<1>1. ~ (k <= 0)
  OBVIOUS
<1> QED
  BY <1>1 DEF RoundedTo, RoundsRest

\* Cutting within the number rounds it.
LEMMA DropDigitsRounds ==
  ASSUME NEW n \in Nat, NEW k \in 1 .. MaxDigits, mode \in Modes, negative \in BOOLEAN
  PROVE  DropDigits(n, k) = RoundedTo(n, k)
<1> DEFINE u == 10 ^ (k - 1)
           unit == 10 ^ k
           d == (n \div u) % 10
           t == n % u
           odd == (n \div unit) % 2 = 1
<1>1. u \in Nat \ {0} /\ unit = 10 * u
  BY Tens, Sizes
<1>2. /\ d \in 0 .. 9 /\ t \in 0 .. u - 1
      /\ n % (10 * u) = u * d + t
  <2> HIDE DEF u
  <2> QED
    BY <1>1, OneDigitMore
<1>3. odd \in BOOLEAN
  OBVIOUS
<1>4. DropDigits(n, k) = IF RoundsUp(d, t # 0, odd) THEN (n \div unit) + 1 ELSE n \div unit
  BY DEF DropDigits
<1>5. RoundedTo(n, k) = IF RoundsRest(n % unit, unit, odd) THEN (n \div unit) + 1 ELSE n \div unit
  BY RoundedToIs
<1> HIDE DEF u, unit, d, t, odd
<1>6. RoundsUp(d, t # 0, odd) <=> RoundsRest(u * d + t, 10 * u, odd)
  BY <1>1, <1>2, <1>3, RoundsUpRest
<1>7. n % unit = u * d + t /\ unit = 10 * u
  BY <1>1, <1>2
<1>8. RoundsUp(d, t # 0, odd) <=> RoundsRest(n % unit, unit, odd)
  BY <1>6, <1>7, Zenon
<1>9. CASE RoundsUp(d, t # 0, odd)
  BY <1>4, <1>5, <1>8, <1>9, Zenon
<1>10. CASE ~ RoundsUp(d, t # 0, odd)
  BY <1>4, <1>5, <1>8, <1>10, Zenon
<1> QED
  BY <1>9, <1>10

\* What is rounded has no more digits than are kept, but for a carry.
LEMMA RoundedToBound ==
  ASSUME NEW n \in Nat, NEW k \in Int, NEW m \in Nat,
         -k <= MaxDigits, k <= MaxDigits, k + m \in 0 .. MaxDigits, m <= MaxDigits,
         n < 10 ^ (k + m)
  PROVE  /\ RoundedTo(n, k) \in Nat /\ RoundedTo(n, k) <= 10 ^ m
         /\ k <= 0 => RoundedTo(n, k) < 10 ^ m
<1>1. CASE k <= 0
  <2> DEFINE j == -k
  <2>1. j \in 0 .. MaxDigits /\ m = (k + m) + j /\ k + m \in Nat
    BY <1>1
  <2>2. 10 ^ ((k + m) + j) = 10 ^ (k + m) * 10 ^ j
    BY <2>1, TensSum
  <2>3. 10 ^ m = 10 ^ (k + m) * 10 ^ j
    BY <2>1, <2>2
  <2>4. 10 ^ j \in Nat \ {0} /\ 10 ^ (k + m) \in Nat
    BY <2>1, Tens
  <2>5. RoundedTo(n, k) = n * 10 ^ j
    BY <1>1 DEF RoundedTo
  <2>6. \A x, y \in Nat, z \in Nat \ {0} : x < y => x * z \in Nat /\ x * z < y * z
    <3> SUFFICES ASSUME NEW x \in Nat, NEW y \in Nat, NEW z \in Nat \ {0}, x < y
                 PROVE  x * z \in Nat /\ x * z < y * z
      OBVIOUS
    <3>1. y - x - 1 \in Nat /\ y = x + 1 + (y - x - 1)
      OBVIOUS
    <3>2. PICK w \in Nat : y = x + 1 + w
      BY <3>1
    <3>3. y * z = x * z + z + w * z /\ w * z \in Nat /\ x * z \in Nat
      BY <3>2
    <3> QED
      BY <3>3
  <2>7. n * 10 ^ j \in Nat /\ n * 10 ^ j < 10 ^ (k + m) * 10 ^ j
    BY <2>4, <2>6
  <2>8. 10 ^ (k + m) * 10 ^ j \in Nat
    BY <2>4
  <2> QED
    BY <2>3, <2>5, <2>7, <2>8
<1>2. CASE k > 0
  <2>1. k \in 1 .. MaxDigits /\ k \in Nat
    BY <1>2
  <2>2. 10 ^ (k + m) = 10 ^ k * 10 ^ m
    BY <2>1, TensSum
  <2>3. 10 ^ k \in Nat \ {0} /\ 10 ^ m \in Nat
    BY <2>1, Tens
  <2>4. n \div 10 ^ k < 10 ^ m /\ n \div 10 ^ k \in Nat
    <3> DEFINE a == 10 ^ k
               b == 10 ^ m
    <3>1. a \in Nat \ {0} /\ b \in Nat /\ n < a * b
      BY <2>2, <2>3
    <3> HIDE DEF a, b
    <3>2. n \div a < b /\ n \div a \in Nat
      BY <3>1, QuotientBelow, DivMod
    <3> QED
      BY <3>2 DEF a, b
  <2>5. RoundedTo(n, k) \in {n \div 10 ^ k, (n \div 10 ^ k) + 1}
    BY <2>1, RoundedToIs, Zenon
  <2> QED
    BY <1>2, <2>3, <2>4, <2>5
<1> QED
  BY <1>1, <1>2

\* A number below the power it is divided by.
LEMMA BelowUnit ==
  ASSUME NEW n \in Nat, NEW k \in 1 .. MaxDigits, n < 10 ^ k
  PROVE  n \div 10 ^ k = 0 /\ n % 10 ^ k = n
<1> DEFINE u == 10 ^ k
<1>1. u \in Nat \ {0} /\ n < u
  BY Tens
<1> HIDE DEF u
<1>2. n = u * 0 + n /\ n \in 0 .. u - 1
  BY <1>1
<1>3. n \div u = 0 /\ n % u = n
  BY <1>1, <1>2, DivModIs
<1> QED
  BY <1>3 DEF u

\* Rounding to the places asked for, wherever the cut lies among the limbs.
LEMMA RoundDivRounds ==
  ASSUME NEW n \in Nat, n < 10 ^ MaxDigits, NEW k \in 1 .. MaxDigits,
         mode \in Modes, negative \in BOOLEAN
  PROVE  \/ RoundDivPow10(n, k) = RoundedTo(n, k)
         \/ k > DecimalLen(n) /\ RoundDivPow10(n, k) = 0 /\ RoundedTo(n, k) = 1
<1> DEFINE len == DecimalLen(n)
           limbs == LimbLen(n)
<1>1. /\ len \in 1 .. MaxDigits /\ n < 10 ^ len
      /\ limbs \in Nat /\ len <= LimbDigits * limbs
  BY Length, LimbsHold
<1>2. CASE k \div LimbDigits < limbs
  <2>1. RoundDivPow10(n, k) = DropDigits(n, k)
    BY <1>1, <1>2, Sizes DEF RoundDivPow10
  <2> QED
    BY <2>1, DropDigitsRounds, Zenon
<1>3. CASE k \div LimbDigits >= limbs
  <2>1. RoundDivPow10(n, k) = DropAllLimbs(n, k)
    BY <1>1, <1>3, Sizes DEF RoundDivPow10
  <2>2. LimbDigits * limbs \in Nat /\ LimbDigits * limbs <= k
    <3> DEFINE q == k \div LimbDigits
    <3>1. q \in Nat /\ k % LimbDigits \in Nat /\ k = LimbDigits * q + (k % LimbDigits)
      BY DivMod, Sizes
    <3>2. q >= limbs
      BY <1>3
    <3> HIDE DEF q, limbs
    <3>3. \A x, y, z \in Nat : x <= y => z * x \in Nat /\ z * y \in Nat /\ z * x <= z * y
      OBVIOUS
    <3>4. LimbDigits * limbs \in Nat /\ LimbDigits * q \in Nat /\ LimbDigits * limbs <= LimbDigits * q
      BY <1>1, <3>1, <3>2, <3>3, Sizes
    <3> QED
      BY <3>1, <3>4
  <2>3. CASE k = len
    <3> DEFINE u == 10 ^ (k - 1)
    <3>1. u \in Nat \ {0} /\ 10 ^ k = 10 * u
      BY Tens, Sizes
    <3>2. n < 10 ^ k /\ n \div 10 ^ k = 0
      BY <1>1, <2>3, BelowUnit
    <3>3. n \div u \in Nat /\ n \div u < 10
      <4> DEFINE c == 10
      <4>1. n < u * c /\ c \in Nat
        BY <3>1, <3>2
      <4> HIDE DEF u, c
      <4>2. n \div u < c /\ n \div u \in Nat
        BY <3>1, <4>1, QuotientBelow, DivMod
      <4> QED
        BY <4>2 DEF c
    <3>4. (n \div u) % 10 = n \div u
      <4>1. \A x \in Nat : x < 10 => x % 10 = x
        OBVIOUS
      <4> QED
        BY <3>3, <4>1, Zenon
    <3>5. ~ (0 % 2 = 1)
      OBVIOUS
    <3>6. LimbDigits * LimbLen(n) = k /\ DecimalLen(n) = k
      BY <1>1, <2>2, <2>3
    <3>7. DropAllLimbs(n, k) = IF RoundsUp(n \div u, n % u # 0, FALSE) THEN 1 ELSE 0
      BY <3>6 DEF DropAllLimbs
    <3>8. DropDigits(n, k) = IF RoundsUp((n \div u) % 10, n % u # 0, (n \div 10 ^ k) % 2 = 1)
                               THEN (n \div 10 ^ k) + 1 ELSE n \div 10 ^ k
      BY DEF DropDigits
    <3>9. DropDigits(n, k) = IF RoundsUp(n \div u, n % u # 0, 0 % 2 = 1) THEN 0 + 1 ELSE 0
      BY <3>2, <3>4, <3>8, Zenon
    <3>10. (0 % 2 = 1) = FALSE /\ 0 + 1 = 1
      OBVIOUS
    <3>11. DropDigits(n, k) = DropAllLimbs(n, k)
      BY <3>7, <3>9, <3>10, Zenon
    <3> QED
      BY <2>1, <3>11, DropDigitsRounds, Zenon
  <2>4. CASE k > len
    <3>1. n < 10 ^ k
      BY <1>1, <2>4, Tens, TensOrder, Sizes
    <3>2. n \div 10 ^ k = 0
      BY <3>1, BelowUnit
    <3>3. RoundedTo(n, k) \in {n \div 10 ^ k, (n \div 10 ^ k) + 1}
      BY RoundedToIs, Zenon
    <3>4. RoundedTo(n, k) \in {0, 1}
      <4>1. RoundedTo(n, k) \in {0, 0 + 1}
        BY <3>2, <3>3, Zenon
      <4> QED
        BY <4>1
    <3>5. RoundDivPow10(n, k) = 0
      <4>1. DecimalLen(n) # k
        BY <1>1, <2>4
      <4>2. DropAllLimbs(n, k) = 0
        BY <4>1, Zenon DEF DropAllLimbs
      <4> QED
        BY <2>1, <4>2
    <3> QED
      BY <2>4, <3>4, <3>5
  <2>5. k >= len
    BY <1>1, <2>2
  <2> QED
    BY <1>1, <2>3, <2>4, <2>5
<1>4. k \div LimbDigits \in Nat
  BY DivMod, Sizes
<1> QED
  BY <1>1, <1>2, <1>3, <1>4

\* A carry that fills one digit more is still the number rounded, to one digit less.
LEMMA CarryRounds ==
  ASSUME NEW n \in Nat, NEW k \in 1 .. MaxDigits - 1, NEW m \in 1 .. MaxDigits - 1,
         k + m <= MaxDigits, n < 10 ^ (k + m), RoundedTo(n, k) = 10 ^ m,
         mode \in Modes, negative \in BOOLEAN
  PROVE  RoundedTo(n, k + 1) = 10 ^ (m - 1)
<1> DEFINE u == 10 ^ k
           q == n \div u
           t == n % u
           p == 10 ^ (m - 1)
           odd == q % 2 = 1
           odder == (q \div 10) % 2 = 1
<1>1. u \in Nat \ {0} /\ p \in Nat \ {0} /\ 10 ^ m = 10 * p /\ 10 ^ (k + 1) = 10 * u
  <2>1. k + 1 \in 0 .. MaxDigits /\ k + 1 > 0 /\ (k + 1) - 1 = k /\ k \in 0 .. MaxDigits
        /\ m \in 0 .. MaxDigits /\ m - 1 \in 0 .. MaxDigits /\ m > 0
    BY Sizes
  <2>2. 10 ^ (k + 1) = 10 * 10 ^ ((k + 1) - 1) /\ 10 ^ m = 10 * 10 ^ (m - 1)
    BY <2>1, Tens
  <2>3. 10 ^ k \in Nat \ {0} /\ 10 ^ (m - 1) \in Nat \ {0}
    BY <2>1, Tens
  <2> QED
    BY <2>1, <2>2, <2>3
<1>2. q \in Nat /\ t \in 0 .. u - 1 /\ n = u * q + t
  BY <1>1, DivMod
<1>3. q < 10 * p
  <2>1. 10 ^ (k + m) = u * 10 ^ m
    BY TensSum
  <2> DEFINE c == 10 * p
  <2>2. n < u * c /\ c \in Nat
    BY <1>1, <2>1
  <2> HIDE DEF u, c
  <2>3. n \div u < c
    BY <1>1, <2>2, QuotientBelow
  <2> QED
    BY <2>3 DEF c
<1>4. RoundedTo(n, k) = IF RoundsRest(t, u, odd) THEN q + 1 ELSE q
  <2>1. k \in 1 .. MaxDigits
    BY Sizes
  <2> QED
    BY <2>1, RoundedToIs, Zenon
<1>5. RoundsRest(t, u, odd) /\ q = 10 * p - 1
  <2>1. CASE RoundsRest(t, u, odd)
    BY <1>1, <1>2, <1>4, <2>1
  <2>2. CASE ~ RoundsRest(t, u, odd)
    BY <1>1, <1>2, <1>3, <1>4, <2>2
  <2> QED
    BY <2>1, <2>2
<1>6. q = 10 * (p - 1) + 9 /\ p - 1 \in Nat
  BY <1>1, <1>5
<1>7. q \div 10 = p - 1 /\ q % 10 = 9
  BY <1>2, <1>6
<1>8. n \div 10 ^ (k + 1) = p - 1 /\ n % 10 ^ (k + 1) = u * 9 + t
  <2>1. n \div (10 * u) = q \div 10 /\ n % (10 * u) = u * (q % 10) + t
    <3> HIDE DEF u
    <3> QED
      BY <1>1, OneDigitMore
  <2> QED
    BY <1>1, <1>7, <2>1
<1>9. RoundsRest(u * 9 + t, 10 * u, odder)
  <2> HIDE DEF u, q, t, p
  <2>1. u * 9 + t # 0 /\ 2 * (u * 9 + t) > 10 * u
    BY <1>1, <1>2
  <2>2. mode # "TOWARD_ZERO"
    BY <1>5 DEF RoundsRest
  <2>3. mode = "TOWARD_POS" => ~ negative
    BY <1>5 DEF RoundsRest
  <2>4. mode = "TOWARD_NEG" => negative
    BY <1>5 DEF RoundsRest
  <2> QED
    BY <2>1, <2>2, <2>3, <2>4 DEF RoundsRest, Modes
<1>10. RoundedTo(n, k + 1) = IF RoundsRest(n % 10 ^ (k + 1), 10 ^ (k + 1), (n \div 10 ^ (k + 1)) % 2 = 1)
                               THEN (n \div 10 ^ (k + 1)) + 1 ELSE n \div 10 ^ (k + 1)
  <2>1. k + 1 \in 1 .. MaxDigits
    BY Sizes
  <2> QED
    BY <2>1, RoundedToIs
<1>11. RoundsRest(n % 10 ^ (k + 1), 10 ^ (k + 1), (n \div 10 ^ (k + 1)) % 2 = 1)
  <2>1. n \div 10 ^ (k + 1) = q \div 10 /\ 10 ^ (k + 1) = 10 * u
    BY <1>1, <1>7, <1>8
  <2> QED
    BY <1>8, <1>9, <2>1, Zenon
<1>12. RoundedTo(n, k + 1) = (p - 1) + 1
  BY <1>8, <1>10, <1>11, Zenon
<1> QED
  BY <1>1, <1>12

---------------------------------------------------------------------------
(* The call *)

LEMMA Format ==
  /\ Hidden \in Nat \ {0} /\ EMax + Bias + 1 \in Nat /\ InfBits \in Nat
  /\ InfBits = Hidden * (EMax + Bias + 1)
  /\ EMin \in Int /\ EMax \in Int /\ Prec \in Nat /\ Prec > 1 /\ Bias = 1 - EMin /\ Bias \in Int
  /\ UnitExp = Prec - 1 - EMin /\ UnitExp \in Int
<1>1. PowersUpTo(2, MaxDigits) /\ MaxDigits \in Nat /\ Prec - 1 \in 0 .. MaxDigits
  BY PowersAssumption, SizeAssumption, FormatAssumption
<1>2. Hidden \in Nat \ {0}
  BY <1>1, PowerPositive DEF Hidden
<1>3. EMin \in Int /\ EMax \in Int /\ Prec \in Nat /\ Prec > 1
      /\ Bias = 1 - EMin /\ Bias \in Int /\ EMax + Bias + 1 \in Nat
      /\ UnitExp = Prec - 1 - EMin /\ UnitExp \in Int
  BY FormatAssumption DEF Bias, UnitExp
<1>4. \A x, y \in Nat : y * x = x * y /\ x * y \in Nat
  OBVIOUS
<1>5. InfBits = Hidden * (EMax + Bias + 1) /\ InfBits \in Nat
  BY <1>2, <1>3, <1>4 DEF InfBits
<1> QED
  BY <1>2, <1>3, <1>5

\* The digits asked for are fewer than any power of ten reaches.
LEMMA Precision ==
  ASSUME TypeInv, Accepted
  PROVE  /\ Effective \in 0 .. MaxDigits
         /\ kind \in {"e", "g"} => SigDigits \in 1 .. MaxDigits - 1
<1>1. precision \in -1 .. MaxPrecision
  BY DEF Accepted
<1>2. Effective \in Nat /\ Effective + 1 < MaxDigits
  BY <1>1, Sizes DEF Effective
<1>3. SigDigits \in {Effective + 1, 1, Effective} /\ SigDigits # 0
  BY <1>2 DEF SigDigits
<1> QED
  BY <1>2, <1>3, Sizes

LEMMA InitInv ==
  ASSUME Init
  PROVE  IInv
<1>1. bits \in Nat /\ precision \in Int
  BY Format, PrintfAssumption DEF Init, FiniteBits, NanBits
<1> QED
  BY <1>1 DEF Init, IInv, TypeInv, ExactInv, ShrinkInv, EmitInv, RoundsAsAsked, InDecimal, Printed

LEMMA RejectStep ==
  ASSUME IInv, Reject
  PROVE  IInv'
<1>1. TypeInv'
  BY DEF IInv, TypeInv, Reject, Answer, spec, exactly
<1>2. pc' = "done" /\ status' # "OK"
  BY DEF Reject, Answer
<1> QED
  BY <1>1, <1>2 DEF IInv, ExactInv, ShrinkInv, EmitInv, RoundsAsAsked, InDecimal, Printed

LEMMA NotFiniteStep ==
  ASSUME IInv, NotFinite
  PROVE  IInv'
<1>1. TypeInv'
  BY DEF IInv, TypeInv, NotFinite, Answer, spec, exactly
<1>2. pc' = "done" /\ bits' \notin FiniteBits
  BY DEF NotFinite, Answer, spec
<1> QED
  BY <1>1, <1>2 DEF IInv, ExactInv, ShrinkInv, EmitInv, RoundsAsAsked, InDecimal, Printed

LEMMA ExactStep ==
  ASSUME IInv, Exact
  PROVE  IInv'
<1> DEFINE biased == bits \div Hidden
           frac == bits % Hidden
           mantissa == IF biased = 0 THEN bits ELSE Hidden + frac
           exp2 == (IF biased = 0 THEN 0 ELSE biased - 1) - UnitExp
<1>1. /\ pc = "check" /\ Accepted /\ bits \in FiniteBits /\ kind # "a"
      /\ TypeInv /\ rounded = 0 /\ exp10 = 0
      /\ pc' = IF kind = "f" THEN "fractional" ELSE "significant"
      /\ UNCHANGED <<bits, negative, kind, precision, mode, rounded, exp10, status, places>>
  BY DEF IInv, ExactInv, Exact, spec
<1>2. /\ digits' = IF exp2 >= 0 THEN mantissa * 2 ^ exp2 ELSE mantissa * 5 ^ (-exp2)
      /\ scale' = IF exp2 >= 0 \/ mantissa = 0 THEN 0 ELSE -exp2
  BY DEF Exact
<1>3. bits \in Nat /\ bits < InfBits
  BY <1>1, Format DEF FiniteBits
<1>4. /\ biased \in Nat /\ biased < EMax + Bias + 1
      /\ frac \in 0 .. Hidden - 1 /\ bits = Hidden * biased + frac
  <2> DEFINE h == Hidden
             c == EMax + Bias + 1
  <2>1. h \in Nat \ {0} /\ c \in Nat /\ bits < h * c
    BY <1>3, Format
  <2> HIDE DEF h, c
  <2>2. bits \div h \in Nat /\ bits \div h < c /\ bits % h \in 0 .. h - 1
        /\ bits = h * (bits \div h) + (bits % h)
    BY <1>3, <2>1, QuotientBelow, DivMod
  <2> QED
    BY <2>2 DEF h, c
<1>5. mantissa \in 0 .. 2 * Hidden - 1
  <2>1. CASE biased = 0
    <3>1. Hidden * 0 = 0
      BY Format
    <3>2. bits = frac
      BY <1>4, <2>1, <3>1
    <3> QED
      BY <1>4, <2>1, <3>2, Format
  <2>2. CASE biased # 0
    <3> HIDE DEF biased, frac
    <3> QED
      BY <1>4, <2>2, Format
  <2> QED
    BY <2>1, <2>2
<1>6. exp2 \in Int /\ exp2 <= EMax - Prec + 1 /\ -exp2 <= UnitExp
  <2> HIDE DEF biased
  <2> QED
    BY <1>4, Format, FormatAssumption
<1> HIDE DEF biased, frac, mantissa, exp2
<1>7. /\ digits' \in Nat /\ digits' < 10 ^ MaxDigits
      /\ scale' \in Nat /\ scale' <= MaxDigits /\ (digits' = 0 => scale' = 0)
  <2>1. \A x, y \in Nat : x * y \in Nat
    OBVIOUS
  <2>2. CASE exp2 >= 0
    <3>1. exp2 \in 0 .. EMax - Prec + 1 /\ exp2 \in 0 .. MaxDigits
      BY <1>6, <2>2, Format, SizeAssumption
    <3>2. 2 ^ exp2 \in Nat
      BY <3>1, PowersAssumption, Sizes, PowerType
    <3>3. mantissa * 2 ^ exp2 < 10 ^ MaxDigits
      BY <1>5, <3>1, SizeAssumption
    <3>4. digits' = mantissa * 2 ^ exp2 /\ scale' = 0
      BY <1>2, <2>2
    <3> QED
      BY <1>5, <2>1, <3>2, <3>3, <3>4, Sizes, Format
  <2>3. CASE exp2 < 0
    <3>1. -exp2 \in 0 .. UnitExp /\ -exp2 \in 0 .. MaxDigits
      BY <1>6, <2>3, Format, SizeAssumption
    <3>2. 5 ^ (-exp2) \in Nat \ {0}
      BY <3>1, PowersAssumption, Sizes, PowerPositive
    <3>3. mantissa * 5 ^ (-exp2) < 10 ^ MaxDigits
      BY <1>5, <3>1, SizeAssumption
    <3>4. digits' = mantissa * 5 ^ (-exp2) /\ scale' = IF mantissa = 0 THEN 0 ELSE -exp2
      BY <1>2, <1>6, <2>3
    <3>5. \A x \in Nat, y \in Nat \ {0} : x # 0 => x * y # 0
      OBVIOUS
    <3>6. mantissa # 0 => mantissa * 5 ^ (-exp2) # 0
      BY <1>5, <3>2, <3>5, Format
    <3> QED
      BY <1>5, <2>1, <3>1, <3>2, <3>3, <3>4, <3>6, Sizes, Format
  <2> QED
    BY <1>6, <2>2, <2>3
<1>8. TypeInv'
  BY <1>1, <1>7 DEF TypeInv
<1>9. ExactInv'
  BY <1>1, <1>7 DEF ExactInv, TypeInv, Kinds, Accepted
<1>10. pc' \in {"fractional", "significant"}
  BY <1>1
<1> QED
  BY <1>8, <1>9, <1>10 DEF IInv, ShrinkInv, EmitInv, RoundsAsAsked, InDecimal, Printed

LEMMA FractionalStep ==
  ASSUME IInv, Fractional
  PROVE  IInv'
<1>1. /\ pc = "fractional" /\ kind = "f" /\ TypeInv /\ Accepted
      /\ digits < 10 ^ MaxDigits /\ scale <= MaxDigits
      /\ UNCHANGED <<bits, negative, kind, precision, mode, digits, scale, exp10>>
      /\ pc' = "done"
  BY DEF IInv, ExactInv, Fractional, Answer, spec, exactly
<1>2. Effective \in 0 .. MaxDigits
  BY <1>1, Precision
<1>3. CASE status' # "OK"
  <2>1. TypeInv'
    BY <1>1, <1>3 DEF TypeInv, Fractional, Answer
  <2> QED
    BY <1>1, <1>3, <2>1 DEF IInv, ExactInv, ShrinkInv, EmitInv, RoundsAsAsked, InDecimal, Printed
<1>4. CASE scale <= Effective /\ rounded' = digits * 10 ^ (Effective - scale) /\ Answer("OK", Effective)
  <2>1. Effective - scale \in 0 .. MaxDigits /\ -(scale - Effective) = Effective - scale
        /\ scale - Effective <= 0
    BY <1>1, <1>2, <1>4, Sizes DEF TypeInv
  <2>2. 10 ^ (Effective - scale) \in Nat
    BY <2>1, Tens
  <2>3. rounded' \in Nat /\ places' = Effective
    <3>1. \A x, y \in Nat : x * y \in Nat
      OBVIOUS
    <3> QED
      BY <1>1, <1>4, <2>2, <3>1 DEF TypeInv, Answer
  <2>4. Asked' = digits * 10 ^ (-(scale - Effective))
    BY <1>1, <2>1, <2>3 DEF Asked, RoundedTo
  <2>5. rounded' = Asked'
    BY <1>4, <2>1, <2>4, Zenon
  <2>6. TypeInv'
    BY <1>1, <1>2, <2>3 DEF TypeInv
  <2> QED
    BY <1>1, <2>5, <2>6 DEF IInv, ExactInv, ShrinkInv, EmitInv, RoundsAsAsked
<1>5. CASE scale > Effective /\ rounded' = RoundDivPow10(digits, scale - Effective) /\ Answer("OK", Effective)
  <2> DEFINE k == scale - Effective
  <2>1. k \in 1 .. MaxDigits /\ digits \in Nat /\ mode \in Modes /\ negative \in BOOLEAN
    BY <1>1, <1>2, <1>5, Sizes DEF TypeInv
  <2>2. places' = Effective
    BY <1>5 DEF Answer
  <2>3. Asked' = RoundedTo(digits, k)
    BY <1>1, <2>2 DEF Asked, RoundedTo
  <2>4. scale' - places' = k /\ DecimalLen(digits') = DecimalLen(digits) /\ kind' = "f"
    BY <1>1, <2>2
  <2> HIDE DEF k
  <2>5. rounded' = RoundDivPow10(digits, k)
    BY <1>5 DEF k
  <2>6. \/ rounded' = Asked'
        \/ k > DecimalLen(digits) /\ rounded' = 0 /\ Asked' = 1
    BY <1>1, <2>1, <2>3, <2>5, RoundDivRounds
  <2>7. RoundsAsAsked'
    BY <2>4, <2>6 DEF RoundsAsAsked, AllDropped
  <2>8. rounded' \in Nat
    <3>1. RoundedTo(digits, k) \in Nat
      <4>1. RoundedTo(digits, k) \in {digits \div 10 ^ k, (digits \div 10 ^ k) + 1}
        BY <2>1, RoundedToIs, Zenon
      <4>2. 10 ^ k \in Nat \ {0}
        BY <2>1, Tens
      <4>3. digits \div 10 ^ k \in Nat
        BY <2>1, <4>2, DivMod
      <4> QED
        BY <4>1, <4>3
    <3> QED
      BY <2>3, <2>6, <3>1
  <2>9. TypeInv'
    BY <1>1, <1>2, <2>2, <2>8 DEF TypeInv
  <2> QED
    BY <1>1, <2>7, <2>9 DEF IInv, ExactInv, ShrinkInv, EmitInv
<1> QED
  BY <1>3, <1>4, <1>5 DEF Fractional, Answer

LEMMA ZeroSignificantStep ==
  ASSUME IInv, ZeroSignificant
  PROVE  IInv'
<1>1. /\ pc = "significant" /\ digits = 0 /\ TypeInv /\ Accepted /\ kind \in {"e", "g"}
      /\ scale = 0 /\ rounded = 0 /\ exp10 = 0 /\ digits < 10 ^ MaxDigits
      /\ UNCHANGED <<bits, negative, kind, precision, mode, digits, scale, rounded, exp10, places>>
      /\ pc' = "emit"
  BY DEF IInv, ExactInv, ZeroSignificant, spec, exactly
<1>2. SigDigits \in 1 .. MaxDigits - 1
  BY <1>1, Precision
<1>3. LeftOut' = 1 - SigDigits
  BY <1>1, <1>2 DEF LeftOut, SigDigits, Effective
<1>4. RoundedTo(0, 1 - SigDigits) = 0
  <2>1. 1 - SigDigits <= 0 /\ -(1 - SigDigits) \in 0 .. MaxDigits
    BY <1>2, Sizes
  <2>2. 10 ^ (-(1 - SigDigits)) \in Nat
    BY <2>1, Tens
  <2>3. RoundedTo(0, 1 - SigDigits) = 0 * 10 ^ (-(1 - SigDigits))
    BY <2>1 DEF RoundedTo
  <2> QED
    BY <2>2, <2>3
<1>5. RoundedTo(digits, LeftOut)' = RoundedTo(0, 1 - SigDigits)
  BY <1>1, <1>3 DEF RoundedTo
<1>6. EmitInv'
  BY <1>1, <1>4, <1>5 DEF EmitInv
<1>7. TypeInv' /\ ExactInv'
  BY <1>1, Sizes DEF TypeInv, ExactInv, Accepted
<1> QED
  BY <1>1, <1>6, <1>7 DEF IInv, ShrinkInv, RoundsAsAsked, InDecimal, Printed

LEMMA SignificantStep ==
  ASSUME IInv, Significant
  PROVE  IInv'
<1> DEFINE len == DecimalLen(digits)
           k == len - SigDigits
<1>1. /\ pc = "significant" /\ digits # 0 /\ TypeInv /\ Accepted /\ kind \in {"e", "g"}
      /\ scale <= MaxDigits /\ digits < 10 ^ MaxDigits /\ (digits = 0 => scale = 0)
      /\ UNCHANGED <<bits, negative, kind, precision, mode, digits, scale>>
      /\ exp10' = len - scale - 1
      /\ digits \in Nat /\ scale \in Nat /\ mode \in Modes /\ negative \in BOOLEAN
  BY DEF IInv, ExactInv, TypeInv, Significant, spec, exactly
<1>2. SigDigits \in 1 .. MaxDigits - 1
  BY <1>1, Precision
<1>3. len \in 1 .. MaxDigits /\ digits < 10 ^ len
  BY <1>1, Length
<1>4. k \in Int /\ k <= MaxDigits /\ -k <= MaxDigits /\ k + SigDigits = len /\ exp10' \in Int
      /\ LeftOut' = k /\ SigDigits' = SigDigits
  <2>1. SigDigits' = SigDigits /\ scale' = scale
    BY <1>1 DEF SigDigits, Effective
  <2> HIDE DEF len
  <2> QED
    BY <1>1, <1>2, <1>3, <2>1, Sizes DEF LeftOut
<1>5. CASE status' # "OK" /\ pc' = "done" /\ UNCHANGED rounded /\ places' = 0
  <2>1. TypeInv'
    BY <1>1, <1>4, <1>5 DEF TypeInv
  <2> QED
    BY <1>5, <2>1 DEF IInv, ExactInv, ShrinkInv, EmitInv, RoundsAsAsked, InDecimal, Printed
<1>6. CASE pc' = "shrink" /\ UNCHANGED places /\ rounded' = RoundedTo(digits, k)
  <2>1. RoundedTo(digits, k) \in Nat /\ RoundedTo(digits, k) <= 10 ^ SigDigits
    <3> HIDE DEF len, k
    <3>1. SigDigits \in Nat /\ SigDigits <= MaxDigits /\ k + SigDigits \in 0 .. MaxDigits
      BY <1>2, <1>3, <1>4, Sizes
    <3>2. digits < 10 ^ (k + SigDigits)
      BY <1>3, <1>4
    <3> QED
      BY <1>1, <1>4, <3>1, <3>2, RoundedToBound
  <2>2. RoundedTo(digits, LeftOut)' = RoundedTo(digits, k)
    <3> HIDE DEF k
    <3> QED
      BY <1>1, <1>4 DEF RoundedTo
  <2>3. ShrinkInv'
    <3>1. DecimalLen(digits') - SigDigits' = k /\ digits' # 0
      BY <1>1, <1>4
    <3> HIDE DEF k
    <3> QED
      BY <1>4, <1>6, <2>1, <2>2, <3>1 DEF ShrinkInv
  <2>4. TypeInv'
    BY <1>1, <1>4, <1>6, <2>1 DEF TypeInv
  <2>5. ExactInv'
    BY <1>1, <1>6 DEF ExactInv, Accepted
  <2> QED
    BY <1>6, <2>3, <2>4, <2>5 DEF IInv, EmitInv, RoundsAsAsked, InDecimal, Printed
<1>7. CASE len > SigDigits /\ rounded' = RoundDivPow10(digits, k) /\ pc' = "shrink" /\ UNCHANGED <<status, places>>
  <2>1. k \in 1 .. MaxDigits /\ ~ (k > len)
    <3> HIDE DEF len
    <3> QED
      BY <1>2, <1>3, <1>7, Sizes
  <2>2. RoundDivPow10(digits, k) = RoundedTo(digits, k)
    <3> HIDE DEF k
    <3> QED
      BY <1>1, <2>1, RoundDivRounds
  <2> QED
    BY <1>6, <1>7, <2>2
<1>8. CASE len <= SigDigits /\ rounded' = digits * 10 ^ (SigDigits - len) /\ pc' = "shrink" /\ UNCHANGED <<status, places>>
  <2>1. k <= 0 /\ -k = SigDigits - len
    <3> HIDE DEF len
    <3> QED
      BY <1>2, <1>3, <1>8
  <2>2. RoundedTo(digits, k) = digits * 10 ^ (-k)
    <3> HIDE DEF k
    <3> QED
      BY <2>1 DEF RoundedTo
  <2>3. RoundedTo(digits, k) = rounded'
    BY <1>8, <2>1, <2>2, Zenon
  <2> QED
    BY <1>6, <1>8, <2>3
<1> QED
  BY <1>5, <1>7, <1>8 DEF Significant, Answer

\* A number that has one digit more than 10^m may have is 10^m.
LEMMA Carried ==
  ASSUME NEW n \in Nat, NEW m \in 1 .. MaxDigits - 1, n <= 10 ^ m
  PROVE  /\ n < 10 ^ MaxDigits
         /\ DecimalLen(n) > m => 10 ^ m <= n
         /\ DecimalLen(n) <= m => n < 10 ^ m
<1>1. 10 ^ (m + 1) = 10 * 10 ^ m /\ 10 ^ m \in Nat \ {0}
  <2>1. m + 1 \in 0 .. MaxDigits /\ m + 1 > 0 /\ (m + 1) - 1 = m /\ m \in 0 .. MaxDigits
    BY Sizes
  <2>2. 10 ^ (m + 1) = 10 * 10 ^ ((m + 1) - 1)
    BY <2>1, Tens
  <2>. QED  BY <2>1, <2>2, Tens
<1>2. n < 10 ^ MaxDigits
  <2>1. 10 ^ (m + 1) <= 10 ^ MaxDigits /\ 10 ^ MaxDigits \in Nat
    BY TensOrder, Tens, Sizes
  <2>. QED  BY <1>1, <2>1
<1> DEFINE l == DecimalLen(n)
<1>3. l \in 1 .. MaxDigits /\ n < 10 ^ l /\ (l > 1 => 10 ^ (l - 1) <= n)
  BY <1>2, Length
<1> HIDE DEF l
<1>4. ASSUME l > m PROVE 10 ^ m <= n
  <2>1. l > 1 /\ l - 1 \in 0 .. MaxDigits /\ m <= l - 1 /\ m \in 0 .. MaxDigits
    BY <1>3, <1>4, Sizes
  <2>2. 10 ^ m <= 10 ^ (l - 1) /\ 10 ^ (l - 1) \in Nat
    BY <2>1, TensOrder, Tens
  <2>. QED  BY <1>1, <1>3, <2>1, <2>2
<1>5. ASSUME l <= m PROVE n < 10 ^ m
  <2>1. l \in 0 .. MaxDigits /\ m \in 0 .. MaxDigits
    BY <1>3, Sizes
  <2>2. 10 ^ l <= 10 ^ m /\ 10 ^ l \in Nat
    BY <1>5, <2>1, TensOrder, Tens
  <2>. QED  BY <1>1, <1>3, <2>2
<1>. QED  BY <1>2, <1>4, <1>5 DEF l

LEMMA ShrinkStep ==
  ASSUME IInv, Shrink
  PROVE  IInv'
<1> DEFINE asked == DecimalLen(digits) - SigDigits
<1>1. /\ pc = "shrink" /\ TypeInv /\ Accepted /\ kind \in {"e", "g"}
      /\ scale <= MaxDigits /\ digits < 10 ^ MaxDigits /\ digits # 0
      /\ UNCHANGED <<bits, negative, kind, precision, mode, digits, scale, places>>
      /\ rounded = RoundedTo(digits, LeftOut)
      /\ \/ LeftOut = asked /\ rounded <= 10 ^ SigDigits
         \/ LeftOut = asked + 1 /\ rounded < 10 ^ SigDigits
      /\ digits \in Nat /\ scale \in Nat /\ mode \in Modes /\ negative \in BOOLEAN
      /\ rounded \in Nat /\ exp10 \in Int
  BY DEF IInv, ExactInv, ShrinkInv, TypeInv, Shrink, spec, exactly
<1>2. /\ SigDigits \in 1 .. MaxDigits - 1
      /\ 10 ^ SigDigits = 10 * 10 ^ (SigDigits - 1)
      /\ 10 ^ SigDigits \in Nat \ {0} /\ 10 ^ (SigDigits - 1) \in Nat \ {0}
  <2>1. SigDigits \in 1 .. MaxDigits - 1
    BY <1>1, Precision
  <2> QED
    BY <2>1, Tens, Sizes
<1>3. DecimalLen(digits) \in 1 .. MaxDigits /\ digits < 10 ^ DecimalLen(digits)
  BY <1>1, Length
<1>4. SigDigits' = SigDigits
  BY <1>1 DEF SigDigits, Effective
<1>5. CASE DecimalLen(rounded) > SigDigits /\ rounded' = rounded \div 10 /\ exp10' = exp10 + 1 /\ UNCHANGED pc
  <2>2. rounded <= 10 ^ SigDigits /\ 10 ^ SigDigits <= rounded
    BY <1>1, <1>2, <1>5, Carried
  <2>3. LeftOut = asked /\ rounded = 10 ^ SigDigits
    BY <1>1, <1>2, <2>2
  <2> HIDE DEF asked
  <2>4. asked + SigDigits = DecimalLen(digits) /\ asked \in Int /\ asked <= MaxDigits - 1 /\ -asked <= MaxDigits
    BY <1>2, <1>3, Sizes DEF asked
  <2>5. digits < 10 ^ (asked + SigDigits)
    BY <1>3, <2>4
  <2>6. asked > 0
    <3>1. SUFFICES ASSUME asked <= 0 PROVE FALSE
      BY <2>4
    <3>2. RoundedTo(digits, asked) < 10 ^ SigDigits
      <4>1. /\ asked <= MaxDigits /\ asked + SigDigits \in 0 .. MaxDigits
            /\ SigDigits \in Nat /\ SigDigits <= MaxDigits
        BY <1>2, <1>3, <2>4, Sizes
      <4> QED
        BY <1>1, <2>4, <2>5, <3>1, <4>1, RoundedToBound
    <3>3. RoundedTo(digits, asked) = 10 ^ SigDigits
      BY <1>1, <2>3
    <3> QED
      BY <1>2, <3>2, <3>3
  <2>7. RoundedTo(digits, asked + 1) = 10 ^ (SigDigits - 1)
    <3>1. asked \in 1 .. MaxDigits - 1 /\ asked + SigDigits <= MaxDigits
      BY <1>3, <2>4, <2>6, Sizes
    <3>2. RoundedTo(digits, asked) = 10 ^ SigDigits
      BY <1>1, <2>3
    <3> QED
      BY <1>1, <1>2, <2>5, <3>1, <3>2, CarryRounds
  <2>8. rounded' = 10 ^ (SigDigits - 1) /\ rounded' < 10 ^ SigDigits
    <3>1. \A x \in Nat : (10 * x) \div 10 = x
      OBVIOUS
    <3>2. (10 * 10 ^ (SigDigits - 1)) \div 10 = 10 ^ (SigDigits - 1)
      BY <1>2, <3>1
    <3>3. rounded' = (10 * 10 ^ (SigDigits - 1)) \div 10
      BY <1>2, <1>5, <2>3, Zenon
    <3> QED
      BY <1>2, <3>2, <3>3
  <2>9. LeftOut' = asked + 1
    <3>1. LeftOut' = scale + (exp10 + 1) + 1 - SigDigits
      BY <1>1, <1>4, <1>5 DEF LeftOut
    <3>2. LeftOut = scale + exp10 + 1 - SigDigits
      BY DEF LeftOut
    <3> QED
      BY <1>1, <1>2, <2>3, <3>1, <3>2
  <2>10. RoundedTo(digits, LeftOut)' = RoundedTo(digits, asked + 1)
    BY <1>1, <2>9 DEF RoundedTo
  <2>11. ShrinkInv'
    <3>1. DecimalLen(digits') - SigDigits' = asked /\ digits' # 0
      BY <1>1, <1>4 DEF asked
    <3>2. 10 ^ SigDigits' = 10 ^ SigDigits
      BY <1>4
    <3> QED
      BY <1>5, <2>7, <2>8, <2>9, <2>10, <3>1, <3>2 DEF ShrinkInv
  <2>12. TypeInv'
    BY <1>1, <1>2, <1>5, <2>8 DEF TypeInv
  <2>13. ExactInv'
    BY <1>1, <1>5 DEF ExactInv, Accepted
  <2> QED
    BY <1>1, <1>5, <2>11, <2>12, <2>13 DEF IInv, EmitInv, RoundsAsAsked, InDecimal, Printed
<1>6. CASE pc' = "emit" /\ UNCHANGED <<rounded, exp10>>
  <2>1. LeftOut' = LeftOut
    BY <1>1, <1>4, <1>6 DEF LeftOut
  <2>2. RoundedTo(digits, LeftOut)' = RoundedTo(digits, LeftOut)
    BY <1>1, <2>1 DEF RoundedTo
  <2>3. EmitInv' /\ TypeInv' /\ ExactInv'
    BY <1>1, <1>6, <2>2 DEF EmitInv, TypeInv, ExactInv, Accepted
  <2> QED
    BY <1>6, <2>3 DEF IInv, ShrinkInv, RoundsAsAsked, InDecimal, Printed
<1> QED
  BY <1>5, <1>6 DEF Shrink

LEMMA EmitStep ==
  ASSUME IInv, Emit
  PROVE  IInv'
<1>1. /\ pc = "emit" /\ TypeInv /\ Accepted /\ kind \in {"e", "g"}
      /\ UNCHANGED <<bits, negative, kind, precision, mode, digits, scale, rounded, exp10>>
      /\ rounded = RoundedTo(digits, LeftOut)
      /\ scale \in Nat /\ exp10 \in Int /\ pc' = "done" /\ status' = "OK"
  BY DEF IInv, ExactInv, EmitInv, TypeInv, Emit, Answer, spec, exactly
<1>2. SigDigits \in 1 .. MaxDigits - 1
  BY <1>1, Precision
<1>3. places' = SigDigits - 1 - exp10
  <2>1. CASE Scientific /\ Answer("OK", SigDigits - 1 - exp10)
    BY <2>1 DEF Answer
  <2>2. CASE ~ Scientific /\ Answer("OK", IF SigDigits - (exp10 + 1) < 0 THEN 0 ELSE SigDigits - (exp10 + 1))
    <3>1. exp10 < SigDigits
      BY <1>1, <1>2, <2>2 DEF Scientific
    <3> QED
      BY <1>1, <1>2, <2>2, <3>1 DEF Answer
  <2> QED
    BY <2>1, <2>2 DEF Emit
<1>4. scale' - places' = LeftOut
  BY <1>1, <1>2, <1>3 DEF LeftOut
<1>5. Asked' = RoundedTo(digits, LeftOut)
  BY <1>1, <1>4 DEF Asked, RoundedTo
<1>6. RoundsAsAsked'
  BY <1>1, <1>5 DEF RoundsAsAsked
<1>7. TypeInv'
  BY <1>1, <1>2, <1>3 DEF TypeInv
<1> QED
  BY <1>1, <1>6, <1>7 DEF IInv, ExactInv, ShrinkInv, EmitInv

LEMMA SixteenIs ==
  /\ HexBits \in Nat \ {0} /\ HexDigits \in Nat \ {0} /\ HexBits * HexDigits = Prec - 1
  /\ Sixteen \in Nat \ {0, 1} /\ PowersUpTo(Sixteen, HexDigits)
<1>1. /\ HexBits \in Nat \ {0} /\ HexDigits \in Nat /\ HexBits * HexDigits = Prec - 1
      /\ Sixteen \in Nat \ {0} /\ PowersUpTo(Sixteen, HexDigits)
  BY HexAssumption, PrintfAssumption DEF PowersUpTo
<1>2. Prec \in Nat /\ Prec > 1 /\ Prec <= MaxDigits /\ MaxDigits \in Nat
  BY Format, SizeAssumption
<1>3. HexDigits # 0
  <2>1. HexBits * 0 = 0
    BY <1>1
  <2>. QED  BY <1>1, <1>2, <2>1
<1>4. HexBits \in 1 .. MaxDigits
  <2>1. HexBits <= HexBits * HexDigits
    BY <1>1, <1>3, Products
  <2>. QED  BY <1>1, <1>2, <2>1
<1>5. PowersUpTo(2, MaxDigits)
  BY PowersAssumption
<1>6. 2 ^ 0 < 2 ^ HexBits /\ 2 ^ 0 = 1
  <2> DEFINE b == 2
             j == 0
  <2>1. b \in Nat \ {0, 1} /\ j \in 0 .. MaxDigits /\ HexBits \in 0 .. MaxDigits /\ j < HexBits
    BY <1>2, <1>4
  <2>2. PowersUpTo(b, MaxDigits)
    BY <1>5
  <2> HIDE DEF b, j
  <2>3. b ^ j < b ^ HexBits
    BY <1>2, <2>1, <2>2, PowerGrows
  <2>. QED  BY <1>5, <2>3 DEF b, j, PowersUpTo
<1>. QED  BY <1>1, <1>3, <1>6 DEF Sixteen

\* What %a rounds, and how far.
LEMMA HexType ==
  ASSUME bits \in Nat, precision \in Int
  PROVE  /\ Fraction \in 0 .. Hidden - 1 /\ Leading \in 0 .. 1
         /\ Needed \in 0 .. HexDigits
         /\ Fraction % Sixteen ^ (HexDigits - Needed) = 0
         /\ Needed > 0 => Fraction % Sixteen ^ (HexDigits - Needed + 1) # 0
         /\ Shown \in Nat /\ Kept \in 0 .. HexDigits /\ Kept <= Shown
         /\ Shown < HexDigits => Kept = Shown
         /\ Shown >= HexDigits => Kept = HexDigits
<1>1. HexDigits \in Nat \ {0} /\ Sixteen \in Nat \ {0} /\ PowersUpTo(Sixteen, HexDigits)
  BY SixteenIs
<1>2. Fraction \in 0 .. Hidden - 1 /\ Fraction \in Nat /\ Leading \in 0 .. 1
  BY Format, DivMod DEF Fraction, Leading
<1>3. PICK d \in 0 .. HexDigits : /\ Fraction % Sixteen ^ (HexDigits - d) = 0
                                  /\ d > 0 => Fraction % Sixteen ^ (HexDigits - d + 1) # 0
  <2> DEFINE T == {d \in 0 .. HexDigits : Fraction % Sixteen ^ (HexDigits - d) = 0}
  <2>1. HexDigits \in T
    <3>1. HexDigits - HexDigits = 0 /\ Sixteen ^ 0 = 1
      BY <1>1 DEF PowersUpTo
    <3>2. Fraction % 1 = 0
      BY <1>2
    <3>3. Fraction % Sixteen ^ (HexDigits - HexDigits) = 0
      BY <3>1, <3>2, Zenon
    <3>. QED  BY <1>1, <3>3
  <2>2. PICK d \in T : \A e \in T : d <= e
    <3>1. T \subseteq Nat /\ T # {}
      BY <2>1
    <3> HIDE DEF T
    <3>. QED  BY <3>1, LeastMember
  <2>3. d \in 0 .. HexDigits /\ Fraction % Sixteen ^ (HexDigits - d) = 0
    OBVIOUS
  <2>4. ASSUME d > 0 PROVE Fraction % Sixteen ^ (HexDigits - d + 1) # 0
    <3>1. d - 1 \in 0 .. HexDigits /\ HexDigits - (d - 1) = HexDigits - d + 1
      BY <1>1, <2>3, <2>4
    <3>2. d - 1 \notin T
      BY <2>2, <2>3, <3>1
    <3>3. Fraction % Sixteen ^ (HexDigits - (d - 1)) # 0
      BY <3>1, <3>2
    <3>. QED  BY <3>1, <3>3, Zenon
  <2>. QED  BY <2>3, <2>4
<1>4. /\ Needed \in 0 .. HexDigits /\ Fraction % Sixteen ^ (HexDigits - Needed) = 0
      /\ Needed > 0 => Fraction % Sixteen ^ (HexDigits - Needed + 1) # 0
  BY <1>3 DEF Needed
<1>5. Shown \in Nat
  BY <1>4 DEF Shown
<1>6. /\ Kept \in 0 .. HexDigits /\ Kept <= Shown /\ (Shown < HexDigits => Kept = Shown)
      /\ Shown >= HexDigits => Kept = HexDigits
  BY <1>1, <1>5 DEF Kept
<1>. QED  BY <1>2, <1>4, <1>5, <1>6

\* What is left of the fraction fits the digits kept.
LEMMA HexRoundedType ==
  ASSUME bits \in Nat, precision \in Int
  PROVE  /\ \A k \in 0 .. HexDigits : Sixteen ^ k \in Nat \ {0} /\ Sixteen ^ k = 2 ^ (HexBits * k)
         /\ HexRounded.leading \in 0 .. 2 /\ HexRounded.frac \in 0 .. Sixteen ^ Kept - 1
<1> DEFINE c == HexDigits - Kept
           cut == Sixteen ^ c
           most == Sixteen ^ Kept
<1>1. HexDigits \in Nat \ {0} /\ Sixteen \in Nat \ {0, 1} /\ PowersUpTo(Sixteen, HexDigits)
      /\ HexBits \in Nat \ {0} /\ HexBits * HexDigits = Prec - 1
  BY SixteenIs
<1>2. \A k \in 0 .. HexDigits : Sixteen ^ k \in Nat \ {0}
  BY <1>1, PowerPositive
<1>3. \A k \in 0 .. HexDigits : Sixteen ^ k = 2 ^ (HexBits * k)
  <2> DEFINE two == 2
  <2>1. two \in Nat /\ PowersUpTo(two, MaxDigits) /\ MaxDigits \in Nat /\ HexBits * HexDigits <= MaxDigits
    BY <1>1, PowersAssumption, SizeAssumption, Format
  <2>2. PowersUpTo(two ^ HexBits, HexDigits)
    BY <1>1 DEF Sixteen
  <2> HIDE DEF two
  <2>3. HexBits \in Nat /\ HexDigits \in Nat
    BY <1>1
  <2>4. ASSUME NEW k \in 0 .. HexDigits PROVE two ^ (HexBits * k) = (two ^ HexBits) ^ k
    BY <2>1, <2>2, <2>3, PowerPower
  <2>. QED  BY <2>4 DEF two, Sixteen
<1>4. /\ Fraction \in 0 .. Hidden - 1 /\ Fraction \in Nat /\ Leading \in 0 .. 1
      /\ Kept \in 0 .. HexDigits /\ c \in 0 .. HexDigits /\ c + Kept = HexDigits /\ c \in Nat /\ Kept \in Nat
  <2>1. Fraction \in 0 .. Hidden - 1 /\ Leading \in 0 .. 1 /\ Kept \in 0 .. HexDigits
    BY HexType
  <2>. QED  BY <1>1, <2>1
<1>5. cut \in Nat \ {0} /\ most \in Nat \ {0}
  BY <1>2, <1>4
<1>6. Hidden = cut * most
  <2>1. Hidden = Sixteen ^ HexDigits
    BY <1>1, <1>3 DEF Hidden
  <2> HIDE DEF c
  <2>2. Sixteen ^ (c + Kept) = Sixteen ^ c * Sixteen ^ Kept
    BY <1>1, <1>4, PowerSum
  <2>. QED  BY <1>4, <2>1, <2>2
<1> DEFINE kept == Fraction \div cut
           up == RoundsUpAt(kept, Fraction % cut, cut \div 2)
           lost == cut > 1 /\ Fraction # 0
<1>7. HexRounded = CASE lost /\ up -> IF kept + 1 >= most THEN [leading |-> Leading + 1, frac |-> 0]
                                      ELSE [leading |-> Leading, frac |-> kept + 1]
                     [] OTHER -> [leading |-> Leading, frac |-> kept]
  BY Zenon DEF HexRounded
<1> HIDE DEF cut, most, up, lost
<1>8. kept \in Nat /\ kept < most
  <2>1. Fraction < cut * most
    <3>1. Fraction < Hidden
      BY <1>4, Format
    <3>. QED  BY <1>6, <3>1
  <2>. QED  BY <1>4, <1>5, <2>1, DivMod, QuotientBelow
<1> HIDE DEF kept
<1>9. HexRounded.leading \in 0 .. 2 /\ HexRounded.frac \in 0 .. most - 1
  <2>1. CASE lost /\ up /\ kept + 1 >= most
    BY <1>4, <1>5, <1>7, <2>1
  <2>2. CASE lost /\ up /\ ~ (kept + 1 >= most)
    BY <1>4, <1>5, <1>7, <1>8, <2>2
  <2>3. CASE ~ (lost /\ up)
    BY <1>4, <1>5, <1>7, <1>8, <2>3
  <2>. QED  BY <2>1, <2>2, <2>3
<1>. QED  BY <1>2, <1>3, <1>9 DEF most

\* %a is rounded by digits of its own.
LEMMA HexadecimalStep ==
  ASSUME IInv, Hexadecimal
  PROVE  IInv'
<1>1. /\ pc = "check" /\ Accepted /\ bits \in FiniteBits /\ kind = "a" /\ TypeInv
      /\ UNCHANGED <<bits, negative, kind, precision, mode, digits, scale>>
      /\ pc' = "done" /\ places' = Shown /\ bits \in Nat /\ precision \in Int
  BY DEF IInv, TypeInv, Hexadecimal, Answer, spec, exactly
<1>2. Shown \in Nat /\ Kept \in 0 .. HexDigits
  BY <1>1, HexType
<1>3. Sixteen ^ Kept \in Nat /\ HexRounded.leading \in Nat /\ HexRounded.frac \in Nat
  BY <1>1, <1>2, HexRoundedType
<1>4. rounded' \in Nat
  <2>1. \A x, y, z \in Nat : x * y + z \in Nat
    OBVIOUS
  <2>2. rounded' = HexRounded.leading * Sixteen ^ Kept + HexRounded.frac
    BY DEF Hexadecimal
  <2>. QED  BY <1>3, <2>1, <2>2
<1>5. exp10' \in Int
  <2>1. exp10' \in {0, EMin, bits \div Hidden - Bias}
    BY DEF Hexadecimal, HexExp10
  <2> QED
    BY <1>1, <2>1, Format, DivMod
<1>6. TypeInv'
  BY <1>1, <1>2, <1>4, <1>5 DEF TypeInv
<1> QED
  BY <1>1, <1>6 DEF IInv, ExactInv, ShrinkInv, EmitInv, RoundsAsAsked, InDecimal

LEMMA StutterStep ==
  ASSUME IInv, UNCHANGED vars
  PROVE  IInv'
<1>1. UNCHANGED <<bits, negative, kind, precision, mode, pc, digits, scale, rounded, exp10, status, places>>
  BY DEF vars, spec, exactly
<1> QED
  BY <1>1 DEF IInv, TypeInv, ExactInv, ShrinkInv, EmitInv, RoundsAsAsked, InDecimal, Printed, Asked,
              AllDropped, RoundedTo, LeftOut, SigDigits, Effective, Accepted

(***************************************************************************)
(* The invariant holds in every state of every call: the types, the bounds *)
(* of the exact decimal, and what each stage of the significant digits has *)
(* to do with the number.                                                  *)
(***************************************************************************)
THEOREM Invariance == TSpec => []IInv
<1>1. TInit => IInv
  BY InitInv DEF TInit
<1>2. IInv /\ [TNext]_<<vars, out>> => IInv'
  <2> SUFFICES ASSUME IInv, [TNext]_<<vars, out>> PROVE IInv'
    OBVIOUS
  <2>1. CASE UNCHANGED vars
    BY <2>1, StutterStep
  <2>2. CASE Compute
    BY <2>2, RejectStep, NotFiniteStep, ExactStep, FractionalStep, ZeroSignificantStep,
       SignificantStep, ShrinkStep, EmitStep, HexadecimalStep DEF Compute, Next
  <2> QED
    BY <2>1, <2>2 DEF TNext, LayOut
<1> QED
  BY <1>1, <1>2, PTL DEF TSpec

(***************************************************************************)
(* What %e, %f and %g print is the exact decimal rounded once, in the mode *)
(* asked for, to the places printed, for every format, size of the limbs   *)
(* and of the bigint: the cut at a limb's border, the carry that needs a   *)
(* digit more and the change of notation round nothing twice.  The only    *)
(* exception is the one the code makes where %f drops every digit.         *)
(***************************************************************************)
THEOREM RoundedOnce == TSpec => []RoundsAsAsked
<1>1. IInv => RoundsAsAsked
  BY DEF IInv
<1> QED
  BY <1>1, Invariance, PTL

---------------------------------------------------------------------------
(* How many digits the rounded number has *)

\* What is rounded keeps its first digit.
LEMMA RoundedToFloor ==
  ASSUME NEW n \in Nat, NEW k \in Int, NEW m \in Nat, m > 0,
         -k <= MaxDigits, k <= MaxDigits, k + m \in 1 .. MaxDigits, m <= MaxDigits,
         10 ^ ((k + m) - 1) <= n
  PROVE  10 ^ (m - 1) <= RoundedTo(n, k)
<1>1. CASE k <= 0
  <2> DEFINE j == -k
             h == (k + m) - 1
  <2>1. j \in 0 .. MaxDigits /\ m - 1 = h + j /\ h \in Nat /\ j \in Nat /\ h \in 0 .. MaxDigits
        /\ h + j <= MaxDigits
    BY <1>1, Sizes
  <2> HIDE DEF h
  <2>2. 10 ^ (m - 1) = 10 ^ h * 10 ^ j
    BY <2>1, TensSum
  <2>3. RoundedTo(n, k) = n * 10 ^ j
    BY <1>1 DEF RoundedTo
  <2> HIDE DEF j
  <2>4. 10 ^ h \in Nat /\ 10 ^ j \in Nat /\ 10 ^ h <= n
    BY <2>1, Tens DEF h
  <2> DEFINE x == 10 ^ h
             y == 10 ^ j
  <2>5. x \in Nat /\ y \in Nat /\ x <= n
    BY <2>4
  <2> HIDE DEF x, y
  <2>6. x * y <= n * y
    <3>1. n - x \in Nat /\ n = x + (n - x)
      BY <2>5
    <3>2. PICK d \in Nat : n = x + d
      BY <3>1
    <3>3. n * y = x * y + d * y /\ d * y \in Nat /\ x * y \in Nat
      BY <2>5, <3>2
    <3>. QED  BY <3>3
  <2>. QED  BY <2>2, <2>3, <2>6 DEF x, y
<1>2. CASE k > 0
  <2>1. k \in 1 .. MaxDigits /\ k \in Nat /\ m - 1 \in Nat /\ k + (m - 1) = (k + m) - 1 /\ m - 1 \in 0 .. MaxDigits
        /\ k + (m - 1) <= MaxDigits /\ k \in 0 .. MaxDigits
    BY <1>2, Sizes
  <2> DEFINE a == 10 ^ k
             c == 10 ^ (m - 1)
             q == n \div a
  <2>2. a \in Nat \ {0} /\ c \in Nat
    BY <2>1, Tens
  <2>3. 10 ^ (k + (m - 1)) = 10 ^ k * 10 ^ (m - 1)
    BY <2>1, TensSum
  <2>4. a * c <= n
    BY <2>1, <2>3
  <2>5. RoundedTo(n, k) = q \/ RoundedTo(n, k) = q + 1
    BY <2>1, RoundedToIs, Zenon
  <2> HIDE DEF a, c, q
  <2>6. q \in Nat /\ n % a \in 0 .. a - 1 /\ n = a * q + (n % a)
    BY <2>2, DivMod DEF q
  <2>7. c <= q
    <3> SUFFICES ASSUME q < c PROVE FALSE
      BY <2>2, <2>6
    <3>1. c - q - 1 \in Nat /\ c = q + 1 + (c - q - 1)
      BY <2>2, <2>6
    <3>2. PICK d \in Nat : c = q + 1 + d
      BY <3>1
    <3>3. a * c = a * q + a + a * d /\ a * d \in Nat /\ a * q \in Nat
      BY <2>2, <2>6, <3>2
    <3>. QED  BY <2>2, <2>4, <2>6, <3>3
  <2>. QED  BY <2>2, <2>5, <2>6, <2>7 DEF c
<1>. QED  BY <1>1, <1>2

\* The first digit of a number that is not zero.
LEMMA FirstDigit ==
  ASSUME NEW n \in Nat, n # 0, n < 10 ^ MaxDigits
  PROVE  10 ^ (DecimalLen(n) - 1) <= n
<1> DEFINE l == DecimalLen(n)
<1>1. l \in 1 .. MaxDigits /\ (l > 1 => 10 ^ (l - 1) <= n)
  BY Length
<1> HIDE DEF l
<1>2. CASE l = 1
  <2>1. l - 1 = 0
    BY <1>2
  <2>2. 10 ^ 0 = 1
    BY Tens, Sizes
  <2>. QED  BY <2>1, <2>2 DEF l
<1>. QED  BY <1>1, <1>2 DEF l

\* What %f drops leaves a number of no more digits.
LEMMA FixedBound ==
  ASSUME NEW n \in Nat, n < 10 ^ MaxDigits, NEW k \in 1 .. MaxDigits, mode \in Modes, negative \in BOOLEAN
  PROVE  RoundDivPow10(n, k) < 10 ^ MaxDigits
<1>1. 10 ^ MaxDigits \in Nat /\ 10 ^ (MaxDigits - 1) \in Nat \ {0} /\ 10 ^ MaxDigits = 10 * 10 ^ (MaxDigits - 1)
  BY Tens, Sizes
<1>2. RoundedTo(n, k) \in Nat /\ RoundedTo(n, k) <= 10 ^ (MaxDigits - 1)
  <2>1. k \in Int /\ -k <= MaxDigits /\ k <= MaxDigits
    BY Sizes
  <2> DEFINE m == MaxDigits - k
  <2>2. m \in Nat /\ m <= MaxDigits /\ k + m = MaxDigits /\ k + m \in 0 .. MaxDigits /\ m \in 0 .. MaxDigits
        /\ m <= MaxDigits - 1 /\ MaxDigits - 1 \in 0 .. MaxDigits
    BY Sizes
  <2> HIDE DEF m
  <2>3. n < 10 ^ (k + m)
    BY <2>2
  <2>4. RoundedTo(n, k) \in Nat /\ RoundedTo(n, k) <= 10 ^ m
    BY <2>1, <2>2, <2>3, RoundedToBound
  <2>5. 10 ^ m <= 10 ^ (MaxDigits - 1) /\ 10 ^ m \in Nat
    BY <2>2, TensOrder, Tens
  <2>. QED  BY <1>1, <2>4, <2>5
<1>3. RoundDivPow10(n, k) = RoundedTo(n, k) \/ RoundDivPow10(n, k) = 0
  BY RoundDivRounds
<1>. QED  BY <1>1, <1>2, <1>3

LEMMA ShapeInit ==
  ASSUME Init
  PROVE  ShapeInv
BY DEF Init, ShapeInv, Printed

\* The steps that end a call without a number.
LEMMA ShapeNothing ==
  ASSUME ShapeInv, Reject \/ NotFinite \/ Exact
  PROVE  ShapeInv'
<1>1. CASE Reject
  <2>1. pc' = "done" /\ status' # "OK"
    BY <1>1 DEF Reject, Answer
  <2>. QED  BY <2>1 DEF ShapeInv, Printed
<1>2. CASE NotFinite
  <2>1. pc' = "done" /\ bits' \notin FiniteBits
    BY <1>2 DEF NotFinite, Answer, spec
  <2>. QED  BY <2>1 DEF ShapeInv, Printed
<1>3. CASE Exact
  <2>1. pc' \in {"fractional", "significant"}
    BY <1>3 DEF Exact
  <2>. QED  BY <2>1 DEF ShapeInv, Printed
<1>. QED  BY <1>1, <1>2, <1>3

LEMMA ShapeFractional ==
  ASSUME IInv, ShapeInv, Fractional
  PROVE  ShapeInv'
<1>1. /\ pc = "fractional" /\ kind = "f" /\ TypeInv /\ Accepted
      /\ digits < 10 ^ MaxDigits /\ scale <= MaxDigits /\ digits \in Nat /\ scale \in Nat
      /\ mode \in Modes /\ negative \in BOOLEAN
      /\ UNCHANGED <<bits, negative, kind, precision, mode, digits, scale, exp10>>
      /\ pc' = "done"
  BY DEF IInv, ExactInv, TypeInv, Fractional, Answer, spec, exactly
<1>2. Effective \in 0 .. MaxDigits
  BY <1>1, Precision
<1>3. Accepted' /\ Effective' = Effective /\ kind' = "f"
  BY <1>1 DEF Accepted, Effective
<1>4. CASE status' # "OK"
  BY <1>1, <1>4 DEF ShapeInv, Printed
<1>5. SUFFICES ASSUME rounded' < 10 ^ MaxDigits, places' = Effective PROVE ShapeInv'
  <2> SUFFICES ASSUME status' = "OK" PROVE rounded' < 10 ^ MaxDigits /\ places' = Effective
    BY <1>4
  <2>1. CASE /\ scale <= Effective /\ Padded(digits, Effective - scale)
             /\ rounded' = digits * 10 ^ (Effective - scale) /\ Answer("OK", Effective)
    <3> DEFINE j == Effective - scale
               l == DecimalLen(digits)
    <3>1. j \in 0 .. MaxDigits
      BY <1>1, <1>2, <2>1, Sizes
    <3>2. CASE digits = 0
      <4>1. 10 ^ j \in Nat
        BY <3>1, Tens
      <4>2. 0 * 10 ^ j = 0 /\ 0 < 10 ^ MaxDigits
        BY <4>1, Tens, Sizes
      <4>3. rounded' = 0
        BY <2>1, <3>2, <4>2
      <4>. QED  BY <2>1, <4>2, <4>3 DEF Answer
    <3>3. CASE digits # 0
      <4>1. l \in 1 .. MaxDigits /\ digits < 10 ^ l
        BY <1>1, Length
      <4>2. l + j <= MaxDigits
        <5>1. l + j <= Capacity
          BY <2>1, <3>3 DEF Padded
        <5> HIDE DEF l, j
        <5>. QED  BY <3>1, <4>1, <5>1, Sizes
      <4> HIDE DEF l, j
      <4>3. 10 ^ (l + j) = 10 ^ l * 10 ^ j
        BY <3>1, <4>1, <4>2, TensSum
      <4>4. 10 ^ (l + j) <= 10 ^ MaxDigits
        BY <3>1, <4>1, <4>2, TensOrder, Sizes
      <4>5. 10 ^ l \in Nat \ {0} /\ 10 ^ j \in Nat \ {0} /\ 10 ^ MaxDigits \in Nat
        BY <3>1, <4>1, Tens, Sizes
      <4>6. digits * 10 ^ j \in Nat /\ digits * 10 ^ j < 10 ^ l * 10 ^ j
        BY <1>1, <4>1, <4>5, Products
      <4>7. rounded' = digits * 10 ^ j
        BY <2>1 DEF j
      <4>8. 10 ^ l * 10 ^ j <= 10 ^ MaxDigits
        BY <4>3, <4>4
      <4>9. 10 ^ l * 10 ^ j \in Nat
        BY <4>5
      <4> DEFINE u == digits * 10 ^ j
                 v == 10 ^ l * 10 ^ j
                 w == 10 ^ MaxDigits
      <4>10. u \in Nat /\ v \in Nat /\ w \in Nat /\ u < v /\ v <= w
        BY <4>5, <4>6, <4>8, <4>9
      <4> HIDE DEF u, v, w
      <4>11. u < w
        BY <4>10
      <4>. QED  BY <2>1, <4>7, <4>11 DEF Answer, u, w
    <3>. QED  BY <3>2, <3>3
  <2>2. CASE /\ scale > Effective /\ rounded' = RoundDivPow10(digits, scale - Effective)
             /\ Answer("OK", Effective)
    <3>1. scale - Effective \in 1 .. MaxDigits
      BY <1>1, <1>2, <2>2, Sizes
    <3>2. RoundDivPow10(digits, scale - Effective) < 10 ^ MaxDigits
      BY <1>1, <3>1, FixedBound
    <3>. QED  BY <2>2, <3>2 DEF Answer
  <2>3. CASE Answer("UNSUPPORTED", 0)
    BY <2>3 DEF Answer
  <2>. QED  BY <2>1, <2>2, <2>3 DEF Fractional
<1>. QED  BY <1>1, <1>3, <1>5 DEF ShapeInv, Printed

LEMMA ShapeZero ==
  ASSUME IInv, ShapeInv, ZeroSignificant
  PROVE  ShapeInv'
<1>1. /\ pc' = "emit" /\ digits' = 0 /\ rounded' = 0 /\ exp10' = 0
  BY DEF IInv, ExactInv, ZeroSignificant, spec, exactly
<1>. QED  BY <1>1 DEF ShapeInv, Printed, Significand

LEMMA ShapeSignificant ==
  ASSUME IInv, ShapeInv, Significant
  PROVE  ShapeInv'
<1> DEFINE len == DecimalLen(digits)
           k == len - SigDigits
<1>1. /\ pc = "significant" /\ digits # 0 /\ TypeInv /\ Accepted /\ kind \in {"e", "g"}
      /\ digits < 10 ^ MaxDigits
      /\ UNCHANGED <<bits, negative, kind, precision, mode, digits, scale>>
      /\ digits \in Nat /\ mode \in Modes /\ negative \in BOOLEAN
  BY DEF IInv, ExactInv, TypeInv, Significant, spec, exactly
<1>2. SigDigits \in 1 .. MaxDigits - 1
  BY <1>1, Precision
<1>3. len \in 1 .. MaxDigits /\ 10 ^ (len - 1) <= digits
  BY <1>1, Length, FirstDigit
<1>4. SigDigits' = SigDigits
  BY <1>1 DEF SigDigits, Effective
<1>5. k \in Int /\ k <= MaxDigits /\ -k <= MaxDigits /\ k + SigDigits = len
      /\ SigDigits \in Nat /\ SigDigits > 0 /\ SigDigits <= MaxDigits
  <2> HIDE DEF len
  <2>. QED  BY <1>2, <1>3, Sizes
<1> HIDE DEF len, k
<1>6. 10 ^ (SigDigits - 1) <= RoundedTo(digits, k)
  <2>1. 10 ^ ((k + SigDigits) - 1) <= digits /\ k + SigDigits \in 1 .. MaxDigits
    BY <1>3, <1>5
  <2>. QED  BY <1>1, <1>5, <2>1, RoundedToFloor
<1>7. CASE pc' = "done" /\ status' # "OK"
  BY <1>7 DEF ShapeInv, Printed
<1>8. CASE pc' = "shrink" /\ rounded' = RoundedTo(digits, k)
  <2>1. 10 ^ (SigDigits' - 1) <= rounded'
    BY <1>4, <1>6, <1>8
  <2>. QED  BY <1>8, <2>1 DEF ShapeInv, Printed
<1>9. CASE len > SigDigits /\ rounded' = RoundDivPow10(digits, k) /\ pc' = "shrink"
  <2>1. k \in 1 .. MaxDigits /\ ~ (k > len)
    BY <1>2, <1>3, <1>5, <1>9, Sizes
  <2>2. RoundDivPow10(digits, k) = RoundedTo(digits, k)
    BY <1>1, <2>1, RoundDivRounds DEF len
  <2>. QED  BY <1>8, <1>9, <2>2
<1>10. CASE len <= SigDigits /\ rounded' = digits * 10 ^ (SigDigits - len) /\ pc' = "shrink"
  <2>1. k <= 0 /\ -k = SigDigits - len
    BY <1>2, <1>3, <1>5, <1>10
  <2>2. RoundedTo(digits, k) = digits * 10 ^ (-k)
    BY <2>1 DEF RoundedTo
  <2>. QED  BY <1>8, <1>10, <2>1, <2>2, Zenon
<1>. QED  BY <1>7, <1>9, <1>10 DEF Significant, Answer, len, k

LEMMA ShapeShrink ==
  ASSUME IInv, ShapeInv, Shrink
  PROVE  ShapeInv'
<1> DEFINE asked == DecimalLen(digits) - SigDigits
<1>1. /\ pc = "shrink" /\ TypeInv /\ Accepted /\ kind \in {"e", "g"}
      /\ scale <= MaxDigits /\ digits < 10 ^ MaxDigits /\ digits # 0
      /\ UNCHANGED <<bits, negative, kind, precision, mode, digits, scale, places>>
      /\ \/ LeftOut = asked /\ rounded <= 10 ^ SigDigits
         \/ LeftOut = asked + 1 /\ rounded < 10 ^ SigDigits
      /\ digits \in Nat /\ scale \in Nat
      /\ rounded \in Nat /\ exp10 \in Int
      /\ 10 ^ (SigDigits - 1) <= rounded
  BY DEF IInv, ExactInv, ShrinkInv, TypeInv, ShapeInv, Shrink, spec, exactly
<1>2. /\ SigDigits \in 1 .. MaxDigits - 1
      /\ 10 ^ SigDigits = 10 * 10 ^ (SigDigits - 1)
      /\ 10 ^ SigDigits \in Nat \ {0} /\ 10 ^ (SigDigits - 1) \in Nat \ {0}
  <2>1. SigDigits \in 1 .. MaxDigits - 1
    BY <1>1, Precision
  <2>. QED  BY <2>1, Tens, Sizes
<1>3. DecimalLen(digits) \in 1 .. MaxDigits
  BY <1>1, Length
<1>4. SigDigits' = SigDigits
  BY <1>1 DEF SigDigits, Effective
<1>5. rounded <= 10 ^ SigDigits
  BY <1>1, <1>2
<1>6. CASE DecimalLen(rounded) > SigDigits /\ rounded' = rounded \div 10 /\ UNCHANGED pc
  <2>1. rounded = 10 ^ SigDigits
    BY <1>1, <1>2, <1>5, <1>6, Carried
  <2>2. \A x \in Nat : (10 * x) \div 10 = x
    OBVIOUS
  <2>3. rounded' = 10 ^ (SigDigits - 1)
    BY <1>2, <1>6, <2>1, <2>2, Zenon
  <2>. QED  BY <1>1, <1>2, <1>4, <1>6, <2>3 DEF ShapeInv, Printed
<1>7. CASE DecimalLen(rounded) <= SigDigits /\ pc' = "emit" /\ UNCHANGED <<rounded, exp10>>
  <2>1. rounded < 10 ^ SigDigits
    BY <1>1, <1>2, <1>5, <1>7, Carried
  <2>2. exp10 \in -MaxDigits .. MaxDigits
    <3> DEFINE l == DecimalLen(digits)
    <3>1. l \in 1 .. MaxDigits /\ (LeftOut = l - SigDigits \/ LeftOut = (l - SigDigits) + 1)
      BY <1>1, <1>3
    <3> HIDE DEF l
    <3>. QED  BY <1>1, <1>2, <3>1, Sizes DEF LeftOut
  <2>3. Significand'
    BY <1>1, <1>4, <1>7, <2>1, <2>2 DEF Significand
  <2>. QED  BY <1>7, <2>3 DEF ShapeInv, Printed
<1>. QED  BY <1>6, <1>7 DEF Shrink

LEMMA ShapeEmit ==
  ASSUME IInv, ShapeInv, Emit
  PROVE  ShapeInv'
<1>1. /\ pc = "emit" /\ TypeInv /\ Accepted /\ kind \in {"e", "g"}
      /\ UNCHANGED <<bits, negative, kind, precision, mode, digits, scale, rounded, exp10>>
      /\ exp10 \in Int /\ pc' = "done" /\ status' = "OK" /\ Significand
  BY DEF IInv, ExactInv, EmitInv, TypeInv, ShapeInv, Emit, Answer, spec, exactly
<1>2. SigDigits \in 1 .. MaxDigits - 1
  BY <1>1, Precision
<1>3. places' = SigDigits - 1 - exp10
  <2>1. CASE Scientific /\ Answer("OK", SigDigits - 1 - exp10)
    BY <2>1 DEF Answer
  <2>2. CASE ~ Scientific /\ Answer("OK", IF SigDigits - (exp10 + 1) < 0 THEN 0 ELSE SigDigits - (exp10 + 1))
    <3>1. exp10 < SigDigits
      BY <1>1, <1>2, <2>2 DEF Scientific
    <3> QED
      BY <1>1, <1>2, <2>2, <3>1 DEF Answer
  <2> QED
    BY <2>1, <2>2 DEF Emit
<1>4. Accepted' /\ SigDigits' = SigDigits /\ kind' = kind
  BY <1>1 DEF Accepted, SigDigits, Effective
<1>5. Significand'
  BY <1>1, <1>4 DEF Significand
<1>. QED  BY <1>1, <1>3, <1>4, <1>5 DEF ShapeInv

LEMMA SpecSame ==
  ASSUME UNCHANGED spec
  PROVE  /\ Fraction' = Fraction /\ Leading' = Leading /\ Needed' = Needed /\ Shown' = Shown /\ Kept' = Kept
         /\ HexRounded' = HexRounded /\ HexExp10' = HexExp10 /\ (Accepted' <=> Accepted)
         /\ Effective' = Effective /\ SigDigits' = SigDigits
<1>1. UNCHANGED <<bits, negative, kind, precision, mode>>
  BY DEF spec
<1>2. /\ Fraction' = Fraction /\ Leading' = Leading /\ (Accepted' <=> Accepted) /\ HexExp10' = HexExp10
      /\ Effective' = Effective
  BY <1>1 DEF Fraction, Leading, Accepted, HexExp10, Effective
<1>3. Needed' = Needed
  BY <1>2 DEF Needed
<1>4. Shown' = Shown
  BY <1>1, <1>3 DEF Shown
<1>5. Kept' = Kept
  BY <1>4 DEF Kept
<1>6. HexRounded' = HexRounded
  BY <1>1, <1>2, <1>4, <1>5, Zenon DEF HexRounded, RoundsUpAt
<1>7. SigDigits' = SigDigits
  BY <1>1, <1>2 DEF SigDigits
<1>. QED  BY <1>2, <1>3, <1>4, <1>5, <1>6, <1>7

LEMMA ShapeHexadecimal ==
  ASSUME ShapeInv, Hexadecimal
  PROVE  ShapeInv'
<1>1. /\ pc = "check" /\ Accepted /\ bits \in FiniteBits /\ kind = "a"
      /\ UNCHANGED <<bits, negative, kind, precision, mode, digits, scale>>
      /\ pc' = "done" /\ places' = Shown /\ exp10' = HexExp10
      /\ rounded' = HexRounded.leading * Sixteen ^ Kept + HexRounded.frac
  BY DEF Hexadecimal, Answer, spec, exactly
<1>2. /\ Accepted' /\ HexExp10' = HexExp10 /\ Shown' = Shown /\ Kept' = Kept
      /\ HexRounded' = HexRounded
  <2>1. UNCHANGED spec
    BY DEF Hexadecimal
  <2>. QED  BY <1>1, <2>1, SpecSame
<1>. QED  BY <1>1, <1>2 DEF ShapeInv

LEMMA ShapeStutter ==
  ASSUME ShapeInv, UNCHANGED vars
  PROVE  ShapeInv'
<1>1. UNCHANGED <<bits, negative, kind, precision, mode, pc, digits, scale, rounded, exp10, status, places>>
      /\ UNCHANGED spec
  BY DEF vars, spec, exactly
<1>2. (Significand' <=> Significand) /\ (Printed' <=> Printed)
  BY <1>1, SpecSame DEF Significand, Printed
<1>3. /\ Effective' = Effective /\ SigDigits' = SigDigits /\ (Accepted' <=> Accepted) /\ Shown' = Shown
      /\ HexExp10' = HexExp10 /\ HexRounded' = HexRounded /\ Kept' = Kept
  BY <1>1, SpecSame
<1>. QED  BY <1>1, <1>2, <1>3 DEF ShapeInv

(***************************************************************************)
(* The number that is laid out has the digits its notation asks for, in    *)
(* every call: those of %f are fewer than any number of the format has,    *)
(* those of %e and %g are as many as are asked for, after the carry too,   *)
(* and those of %a are the fraction as it was rounded.                     *)
(***************************************************************************)
THEOREM DigitsInvariance == TSpec => []ShapeInv
<1>1. TInit => ShapeInv
  BY ShapeInit DEF TInit
<1>2. IInv /\ ShapeInv /\ [TNext]_<<vars, out>> => ShapeInv'
  <2> SUFFICES ASSUME IInv, ShapeInv, [TNext]_<<vars, out>> PROVE ShapeInv'
    OBVIOUS
  <2>1. CASE UNCHANGED vars
    BY <2>1, ShapeStutter
  <2>2. CASE Compute
    BY <2>2, ShapeNothing, ShapeFractional, ShapeZero, ShapeSignificant, ShapeShrink, ShapeEmit,
       ShapeHexadecimal DEF Compute, Next
  <2>. QED  BY <2>1, <2>2 DEF TNext, LayOut
<1>. QED  BY <1>1, <1>2, Invariance, PTL DEF TSpec

---------------------------------------------------------------------------
(* Nothing but the text is written *)

LEMMA PiecesSame ==
  ASSUME UNCHANGED vars, NEW l
  PROVE  Pieces(l)' = Pieces(l)
<1>1. UNCHANGED <<bits, negative, kind, precision, rounded, exp10, places>> /\ UNCHANGED spec
  BY DEF vars, spec, exactly
<1>2. Shown' = Shown /\ Kept' = Kept /\ SigDigits' = SigDigits
  BY <1>1, SpecSame
<1>3. Sign(l)' = Sign(l) /\ Digs' = Digs /\ ExpSign' = ExpSign /\ ExpWidth' = ExpWidth
  BY <1>1 DEF Sign, Digs, ExpSign, ExpWidth
<1>4. ExpText' = ExpText
  BY <1>1, <1>3 DEF ExpText
<1>5. Exponent' = Exponent
  BY <1>3, <1>4, Zenon DEF Exponent
<1>6. Hex(l)' = Hex(l)
  BY <1>1, <1>2, <1>3, <1>4, Zenon DEF Hex
<1>7. Fixed(places, l)' = Fixed(places, l)
  BY <1>1, <1>3, Zenon DEF Fixed
<1>8. Scientifically(SigDigits - 1, l)' = Scientifically(SigDigits - 1, l)
  BY <1>2, <1>3, <1>5, Zenon DEF Scientifically
<1>9. Scientific' <=> Scientific
  BY <1>1, <1>2 DEF Scientific
<1>10. Body(l)' = Body(l)
  BY <1>1, <1>6, <1>7, <1>8, <1>9 DEF Body
<1>. QED  BY <1>1, <1>3, <1>10, Zenon DEF Pieces

LEMMA FinishedSame ==
  ASSUME UNCHANGED vars, NEW w, NEW l
  PROVE  Finished(w, l)' = Finished(w, l)
<1>1. UNCHANGED <<bits, kind>>
  BY DEF vars, spec
<1>. QED  BY <1>1, Zenon DEF Finished

(***************************************************************************)
(* What is in the buffer is what its pieces came to in it, and the call    *)
(* that wrote it had an answer; nothing is computed behind it.             *)
(***************************************************************************)
THEOREM TextInvariance == TSpec => []OutInv
<1>1. TInit => OutInv
  BY DEF TInit, OutInv
<1>2. OutInv /\ [TNext]_<<vars, out>> => OutInv'
  <2> SUFFICES ASSUME OutInv, [TNext]_<<vars, out>> PROVE OutInv'
    OBVIOUS
  <2>1. CASE Compute
    <3>1. pc # "done" /\ out' = out
      BY <2>1 DEF Compute, Next, Reject, NotFinite, Exact, Fractional, ZeroSignificant, Significant,
                  Shrink, Emit, Hexadecimal
    <3>. QED  BY <3>1 DEF OutInv
  <2>2. CASE LayOut
    <3>1. PICK l \in Layouts :
            LET text == Finished(Written(Pieces(l), l.cap), l)
            IN  out' = [status |-> text.status, text |-> text.text, layout |-> l]
      BY <2>2 DEF LayOut
    <3>2. pc' = "done" /\ status' = "OK" /\ UNCHANGED vars
      BY <2>2 DEF LayOut, vars
    <3> DEFINE p == Pieces(l)
               w == Written(p, l.cap)
               f == Finished(w, l)
    <3>3. out' = [status |-> f.status, text |-> f.text, layout |-> l]
      BY <3>1
    <3>4. out'.layout = l /\ out'.status = f.status /\ out'.text = f.text
      <4> HIDE DEF f
      <4>. QED  BY <3>3
    <3>5. Pieces(l)' = p
      BY <3>2, PiecesSame
    <3>6. Finished(Written(Pieces(l), l.cap), l)' = f
      <4>1. Written(Pieces(l), l.cap)' = w
        BY <3>5
      <4>2. UNCHANGED <<bits, kind>>
        BY <3>2 DEF vars, spec
      <4> HIDE DEF p
      <4>. QED  BY <4>1, <4>2, Zenon DEF Finished
    <3>. QED  BY <3>2, <3>4, <3>6 DEF OutInv
  <2>3. CASE UNCHANGED <<vars, out>>
    <3>1. UNCHANGED vars /\ out' = out /\ pc' = pc /\ status' = status
      BY <2>3 DEF vars
    <3>. QED  BY <3>1, PiecesSame, FinishedSame DEF OutInv
  <2>. QED  BY <2>1, <2>2, <2>3 DEF TNext
<1>. QED  BY <1>1, <1>2, PTL DEF TSpec

---------------------------------------------------------------------------
(* The parts of a text *)

LEMMA Widths ==
  /\ ExpBase \in Nat \ {0, 1} /\ ExpBase <= 10 /\ MaxExpWidth \in Nat \ {0}
  /\ PowersUpTo(ExpBase, MaxExpWidth)
<1>1. ExpBase \in Nat \ {0, 1} /\ ExpBase <= 10 /\ MaxExpWidth \in Nat /\ PowersUpTo(ExpBase, MaxExpWidth)
  BY ExpBaseAssumption
<1>2. MaxExpWidth # 0
  <2> SUFFICES ASSUME MaxExpWidth = 0 PROVE FALSE
    OBVIOUS
  <2>1. ExpBase ^ 0 = 1
    BY <1>1 DEF PowersUpTo
  <2>2. 2 * MaxDigits < ExpBase ^ 0
    BY ExpWidthAssumption
  <2>. QED  BY <2>1, <2>2, Sizes
<1>. QED  BY <1>1, <1>2

\* The exponent fits the texts there are for exponents.
ExpFits == exp10 \in Int /\ Abs(exp10) < ExpBase ^ MaxExpWidth

LEMMA ExpTextIs ==
  ASSUME ExpFits
  PROVE  /\ Abs(exp10) \in Nat /\ ExpWidth \in Nat /\ ExpWidth > 0
         /\ ExpText \in Seq(Digits) /\ ExpText \in Seq(Nat) /\ Len(ExpText) = ExpWidth
         /\ ValueOf(ExpText, ExpBase) = Abs(exp10)
         /\ ExpWidth > 1 => ExpText[1] # 0
<1> DEFINE e == Abs(exp10)
           k == ExpWidth
<1>1. e \in Nat /\ e < ExpBase ^ MaxExpWidth
  BY DEF ExpFits, Abs
<1>2. k \in 1 .. MaxExpWidth /\ e < ExpBase ^ k /\ (k > 1 => ExpBase ^ (k - 1) <= e)
  <2>1. \E j \in 1 .. MaxExpWidth : e < ExpBase ^ j /\ (j > 1 => ExpBase ^ (j - 1) <= e)
    <3> HIDE DEF e
    <3>. QED  BY <1>1, Widths, LeastPower
  <2>. QED  BY <2>1, Zenon DEF Width, ExpWidth
<1>3. ExpText = Spelled(e, ExpBase, k)
  BY DEF ExpText
<1> HIDE DEF e, k
<1>4. PowersUpTo(ExpBase, k) /\ k \in Nat /\ k > 0
  BY <1>2, Widths DEF PowersUpTo
<1>5. ValueOf(Spelled(e, ExpBase, k), ExpBase) = e
  BY <1>1, <1>2, <1>4, Widths, SpelledValue
<1>6. /\ Spelled(e, ExpBase, k) \in Seq(0 .. ExpBase - 1) /\ Spelled(e, ExpBase, k) \in Seq(Nat)
      /\ Len(Spelled(e, ExpBase, k)) = k
      /\ (k > 0 /\ e < ExpBase ^ k /\ ExpBase ^ (k - 1) <= e) => Spelled(e, ExpBase, k)[1] # 0
  BY <1>1, <1>4, Widths, SpelledType
<1>7. Spelled(e, ExpBase, k) \in Seq(Digits)
  <2>1. 0 .. ExpBase - 1 \subseteq Digits
    BY Widths DEF Digits
  <2>. QED  BY <1>6, <2>1, SeqMonotonic
<1>8. k > 1 => Spelled(e, ExpBase, k)[1] # 0
  BY <1>2, <1>4, <1>6
<1>. QED  BY <1>1, <1>3, <1>4, <1>5, <1>6, <1>7, <1>8 DEF e, k

\* The exponent of %e and %g has two digits or more.
ExpDigits == If(ExpWidth = 1, <<0>>) \o ExpText

LEMMA ExpDigitsAre ==
  ASSUME ExpFits
  PROVE  /\ ExpDigits \in Seq(Digits) /\ ExpDigits \in Seq(Nat)
         /\ Len(ExpDigits) = 2 \/ (Len(ExpDigits) > 2 /\ ExpDigits[1] # 0)
         /\ ValueOf(ExpDigits, ExpBase) = Abs(exp10)
<1>1. /\ ExpWidth \in Nat /\ ExpWidth > 0
      /\ ExpText \in Seq(Digits) /\ ExpText \in Seq(Nat) /\ Len(ExpText) = ExpWidth
      /\ ValueOf(ExpText, ExpBase) = Abs(exp10)
      /\ ExpWidth > 1 => ExpText[1] # 0
  BY ExpTextIs
<1>2. CASE ExpWidth = 1
  <2> DEFINE z == <<0>>
  <2>1. ExpDigits = z \o ExpText
    BY <1>2 DEF ExpDigits, If
  <2>2. z \in Seq(Nat) /\ z \in Seq(Digits) /\ Len(z) = 1 /\ z[1] = 0
    BY DEF Digits
  <2> HIDE DEF z
  <2>3. z \o ExpText \in Seq(Digits) /\ z \o ExpText \in Seq(Nat) /\ Len(z \o ExpText) = 2
    <3>1. z \o ExpText \in Seq(Digits) /\ Len(z \o ExpText) = Len(z) + Len(ExpText)
      BY <1>1, <2>2, Joined, ZenonT(60)
    <3>2. z \o ExpText \in Seq(Nat)
      BY <1>1, <2>2, Joined
    <3>. QED  BY <1>1, <1>2, <2>2, <3>1, <3>2
  <2>4. ValueOf(z \o ExpText, ExpBase) = ValueOf(ExpText, ExpBase)
    <3>1. \A i \in 1 .. Len(z) : z[i] = 0
      <4>1. \A i \in 1 .. Len(z) : i = 1
        BY <2>2
      <4>. QED  BY <2>2, <4>1
    <3>2. ExpBase \in Nat
      BY Widths
    <3>. QED  BY <1>1, <2>2, <3>1, <3>2, LeadingZeros
  <2>. QED  BY <1>1, <2>1, <2>3, <2>4
<1>3. CASE ExpWidth # 1
  <2>1. ExpDigits = <<>> \o ExpText
    BY <1>3 DEF ExpDigits, If
  <2>2. ExpDigits = ExpText
    BY <1>1, <2>1, ConcatEmptySeq
  <2>. QED  BY <1>1, <1>3, <2>2
<1>. QED  BY <1>2, <1>3

LEMMA Symbols ==
  ASSUME NEW c \in {Exp, Point, Minus, Plus, Space, 0, X}
  PROVE  c \in Nat /\ <<c>> \in Seq(Nat) /\ Len(<<c>>) = 1 /\ <<c>>[1] = c
<1>1. c \in Nat
  BY DEF Exp, Point, Minus, Plus, Space, X
<1>. QED  BY <1>1

LEMMA ExponentIs ==
  ASSUME ExpFits
  PROVE  /\ Sound(Exponent, 0)
         /\ Whole(Exponent) = <<Exp>> \o (<<ExpSign>> \o ExpDigits)
<1> DEFINE z == If(ExpWidth = 1, <<0>>)
           a == <<Exp>>
           c == <<ExpSign>>
           h == <<Exp, ExpSign>> \o z
<1>1. ExpWidth \in Nat /\ ExpWidth > 0 /\ Len(ExpText) = ExpWidth
  BY ExpTextIs
<1>2. ExpText \in Seq(Nat)
  BY ExpTextIs
<1>3. (z = <<0>> \/ z = <<>>) /\ <<0>> \in Seq(Nat) /\ <<>> \in Seq(Nat) /\ Len(<<0>>) = 1 /\ Len(<<>>) = 0
  BY EmptySeq DEF If
<1>4. /\ a \in Seq(Nat) /\ c \in Seq(Nat)
      /\ Len(a) = 1 /\ Len(c) = 1
  <2>1. ExpSign \in {Minus, Plus}
    BY DEF ExpSign
  <2>. QED  BY <2>1, Symbols
<1>5. h = (a \o c) \o z
  <2>1. <<Exp, ExpSign>> = a \o c
    OBVIOUS
  <2> HIDE DEF a, c, z
  <2>. QED  BY <2>1
<1>6. Exponent = <<Piece(5, h)>> \o <<Piece(ExpWidth + 1, ExpText)>>
  <2>1. Exponent = <<Piece(5, h), Piece(ExpWidth + 1, ExpText)>>
    BY DEF Exponent
  <2> HIDE DEF h
  <2>. QED  BY <2>1
<1>7. ExpDigits = z \o ExpText
  BY DEF ExpDigits
<1> HIDE DEF z, a, c, h
<1>8. z \in Seq(Nat)
  BY <1>3, Zenon
<1>9. Len(z) \in 0 .. 1
  <2>1. Len(z) = 0 \/ Len(z) = 1
    BY <1>3, Zenon
  <2>. QED  BY <2>1
<1>10. a \o c \in Seq(Nat) /\ h \in Seq(Nat) /\ z \o ExpText \in Seq(Nat)
  BY <1>2, <1>4, <1>5, <1>8, Joining, Zenon
<1>11. Len(h) \in 2 .. 3
  <2>1. Len(h) = (1 + 1) + Len(z)
    <3>1. Len(h) = Len(a \o c) + Len(z)
      BY <1>5, <1>8, <1>10, Joining, Zenon
    <3>2. Len(a \o c) = Len(a) + Len(c)
      BY <1>4, Joining, Zenon
    <3>. QED  BY <1>4, <3>1, <3>2, Zenon
  <2> DEFINE n == Len(z)
  <2>2. n \in 0 .. 1 /\ Len(h) = (1 + 1) + n
    BY <1>9, <2>1
  <2> HIDE DEF n
  <2>. QED  BY <2>2
<1>12. Sound(<<Piece(5, h)>>, 0) /\ Whole(<<Piece(5, h)>>) = h
  <2>1. \A n \in 2 .. 3 : n <= 5 /\ 5 <= 2 * n + 1 + 2 * 0 /\ 5 \in Nat /\ 0 \in Nat
    OBVIOUS
  <2>. QED  BY <1>10, <1>11, <2>1, SoundOne, Zenon
<1>13. Sound(<<Piece(ExpWidth + 1, ExpText)>>, 0) /\ Whole(<<Piece(ExpWidth + 1, ExpText)>>) = ExpText
  <2>1. /\ Len(ExpText) <= ExpWidth + 1 /\ ExpWidth + 1 <= 2 * Len(ExpText) + 1 + 2 * 0
        /\ ExpWidth + 1 \in Nat /\ 0 \in Nat
    BY <1>1
  <2>. QED  BY <1>2, <2>1, SoundOne, Zenon
<1>14. Sound(Exponent, 0) /\ Whole(Exponent) = h \o ExpText
  BY <1>6, <1>12, <1>13, SoundConcat, ZenonT(60)
<1>15. h \o ExpText = a \o (c \o (z \o ExpText))
  <2>1. ((a \o c) \o z) \o ExpText = (a \o c) \o (z \o ExpText)
    BY <1>2, <1>8, <1>10, Grouping, ZenonT(60)
  <2>2. (a \o c) \o (z \o ExpText) = a \o (c \o (z \o ExpText))
    BY <1>4, <1>10, Grouping, Zenon
  <2>. QED  BY <1>5, <2>1, <2>2, Zenon
<1>. QED  BY <1>7, <1>14, <1>15, Zenon DEF a, c

---------------------------------------------------------------------------
(* The digits of a number *)

LEMMA DigsAre ==
  ASSUME rounded \in Nat, rounded < 10 ^ MaxDigits
  PROVE  /\ Digs \in Seq(Digits) /\ Digs \in Seq(Nat)
         /\ Len(Digs) = DecimalLen(rounded) /\ Len(Digs) \in 1 .. MaxDigits
         /\ ValueOf(Digs, 10) = rounded
         /\ rounded # 0 => Digs[1] # 0
         /\ rounded = 0 => Len(Digs) = 1 /\ Digs[1] = 0
         /\ \A i \in 1 .. Len(Digs) : Digs[i] \in Digits
<1> DEFINE n == DecimalLen(rounded)
<1>1. n \in 1 .. MaxDigits /\ rounded < 10 ^ n /\ (n > 1 => 10 ^ (n - 1) <= rounded)
  BY Length
<1>2. Digs = Spelled(rounded, 10, n)
  BY DEF Digs
<1> HIDE DEF n
<1>3. PowersUpTo(10, n) /\ n \in Nat /\ n > 0
  <2>1. PowersUpTo(10, MaxDigits) /\ MaxDigits \in Nat
    BY PowersAssumption, Sizes
  <2>2. \A k \in 0 .. n - 1 : k \in 0 .. MaxDigits - 1
    BY <1>1, <2>1
  <2>. QED  BY <1>1, <2>1, <2>2 DEF PowersUpTo
<1>4. 10 \in Nat \ {0, 1} /\ 0 .. 10 - 1 = Digits
  BY DEF Digits
<1>5. ValueOf(Digs, 10) = rounded
  BY <1>1, <1>2, <1>3, <1>4, SpelledValue
<1>6. /\ Digs \in Seq(0 .. 10 - 1) /\ Digs \in Seq(Nat) /\ Len(Digs) = n
      /\ (n > 0 /\ rounded < 10 ^ n /\ 10 ^ (n - 1) <= rounded) => Digs[1] # 0
  BY <1>2, <1>3, <1>4, SpelledType
<1>7. Digs \in Seq(Digits)
  BY <1>4, <1>6
<1>8. rounded # 0 => Digs[1] # 0
  <2>1. rounded # 0 => 10 ^ (n - 1) <= rounded
    BY FirstDigit DEF n
  <2>. QED  BY <1>1, <1>3, <1>6, <2>1
<1>9. rounded = 0 => n = 1
  <2> SUFFICES ASSUME rounded = 0, n > 1 PROVE FALSE
    BY <1>1
  <2>1. n - 1 \in 0 .. MaxDigits
    BY <1>1, Sizes
  <2>2. 10 ^ (n - 1) \in Nat \ {0}
    BY <2>1, Tens
  <2>. QED  BY <1>1, <2>2
<1>10. \A i \in 1 .. Len(Digs) : Digs[i] \in Digits
  BY <1>7, ElementOfSeq
<1>11. rounded = 0 => Digs[1] = 0
  <2> SUFFICES ASSUME rounded = 0 PROVE Digs[1] = 0
    OBVIOUS
  <2>1. n = 1
    BY <1>9
  <2>2. Digs[1] = (0 \div 10 ^ (n - 1)) % 10
    <3>1. \A i \in 1 .. n : Spelled(rounded, 10, n)[i] = (rounded \div 10 ^ (n - i)) % 10
      BY <1>3, <1>4, SpelledType
    <3>2. 1 \in 1 .. n
      BY <2>1
    <3>. QED  BY <1>2, <3>1, <3>2
  <2>3. 10 ^ (n - 1) = 1
    <3>1. n - 1 = 0
      BY <2>1
    <3>2. 10 ^ 0 = 1
      BY Tens, Sizes
    <3>. QED  BY <3>1, <3>2
  <2>. QED  BY <2>2, <2>3
<1>. QED  BY <1>1, <1>5, <1>6, <1>7, <1>8, <1>9, <1>10, <1>11 DEF n

\* Zeros are digits.
LEMMA ZerosAre ==
  ASSUME NEW n \in Nat
  PROVE  /\ Zeros(n) \in Seq(Digits) /\ Zeros(n) \in Seq(Nat) /\ Len(Zeros(n)) = n
         /\ \A i \in 1 .. n : Zeros(n)[i] = 0
<1>1. Zeros(n) = [i \in 1 .. n |-> 0]
  BY DEF Zeros
<1>2. 0 \in Digits /\ 0 \in Nat
  BY DEF Digits
<1> HIDE DEF Zeros
<1>. QED  BY <1>1, <1>2

LEMMA NoZeros ==
  ASSUME NEW n \in Int, n <= 0
  PROVE  Zeros(n) = <<>>
<1>1. 1 .. n = {}
  OBVIOUS
<1>2. Zeros(n) = [i \in {} |-> 0]
  BY <1>1, Zenon DEF Zeros
<1>3. <<>> = [i \in 1 .. 0 |-> 0]
  OBVIOUS
<1>4. 1 .. 0 = {}
  OBVIOUS
<1>. QED  BY <1>2, <1>3, <1>4

\* What ryu_write_sign writes is the sign.
LEMMA SignIs ==
  ASSUME NEW l
  PROVE  /\ Sound(Sign(l), 0) /\ Whole(Sign(l)) = SignText(negative, l.sign)
         /\ SignText(negative, l.sign) \in SignTexts
<1>1. \A c \in {Minus, Plus, Space} : Sound(<<Piece(1, <<c>>)>>, 0) /\ Whole(<<Piece(1, <<c>>)>>) = <<c>>
  <2> TAKE c \in {Minus, Plus, Space}
  <2> DEFINE t == <<c>>
             one == 1
  <2>1. t \in Seq(Nat) /\ Len(t) = 1
    BY Symbols
  <2>2. Len(t) <= one /\ one <= 2 * Len(t) + 1 + 2 * 0 /\ one \in Nat /\ 0 \in Nat
    BY <2>1
  <2> HIDE DEF t, one
  <2>3. Sound(<<Piece(one, t)>>, 0) /\ Whole(<<Piece(one, t)>>) = t
    BY <2>1, <2>2, SoundOne, Zenon
  <2>. QED  BY <2>3 DEF t, one
<1>2. Sound(<<>>, 0) /\ Whole(<<>>) = <<>>
  BY SoundNone, WholeNone
<1>. QED  BY <1>1, <1>2, Zenon DEF Sign, Signed, SignText, SignTexts

---------------------------------------------------------------------------
(* The notation of %f *)

\* No more zeros at the end than there are powers of ten.
FewZeros(frac) == \A z \in 0 .. Len(frac) :
                    (\A i \in Len(frac) - z + 1 .. Len(frac) : frac[i] = 0) => z <= MaxDigits

\* The digits before the point and the n digits behind it are the number.
Tells(int, frac, n) == /\ int \in Seq(Digits) /\ frac \in Seq(Digits) /\ Len(int) > 0 /\ Len(frac) = n
                       /\ ValueOf(int \o frac, 10) = rounded
                       /\ Len(int) > 1 => int[1] # 0
                       /\ FewZeros(frac)

FixedShown(p, n, pointed) ==
  /\ Safe(p)
  /\ \E int, frac : /\ Shows(Whole(p), pointed, FALSE, <<>>, int, frac, <<>>, <<>>)
                    /\ Tells(int, frac, n)
                    /\ int = <<0>> \/ Len(int) + Len(frac) = Len(Digs)

LEMMA FixedPiece ==
  ASSUME NEW n \in Nat, NEW pointed \in BOOLEAN, n > 0 => pointed, NEW int, NEW frac, Tells(int, frac, n),
         int = << 0 >> \/ Len(int) + Len(frac) = Len(Digs), NEW pt, pt = PointIf(pointed),
         NEW t, t = int \o (pt \o frac), NEW room \in Nat,
         Len(int) + (Len(pt) + Len(frac)) < room, room <= 2 * (Len(int) + (Len(pt) + Len(frac))) + 1
  PROVE  FixedShown(<<Piece(room, t)>>, n, pointed)
<1>1. int \in Seq(Digits) /\ Len(int) > 0 /\ frac \in Seq(Digits)
  BY DEF Tells
<1>2. ~ pointed => frac = <<>>
  <2>1. ~ pointed => Len(frac) = 0
    BY DEF Tells
  <2>. QED  BY <1>1, <2>1, EmptySeq
<1>3. /\ Shows(t, pointed, FALSE, <<>>, int, frac, <<>>, <<>>)
      /\ t \in Seq(Nat) /\ Len(t) = Len(int) + (Len(pt) + Len(frac))
  <2>1. Plainly(t, pointed, int, frac)
    BY <1>1, <1>2, Zenon DEF Plainly
  <2>2. /\ Shows(t, pointed, FALSE, <<>>, int, frac, <<>>, <<>>)
        /\ LengthSum(t, int, PointIf(pointed), frac)
    BY <2>1, ShowsFixed, Zenon
  <2>. QED  BY <2>2, Zenon DEF LengthSum
<1>4. Len(t) < room /\ room <= 2 * Len(t) + 1
  BY <1>3, Zenon
<1>5. Safe(<<Piece(room, t)>>) /\ Whole(<<Piece(room, t)>>) = t
  BY <1>3, <1>4, SafeOne, Zenon
<1>. QED  BY <1>3, <1>5, Zenon DEF FixedShown

LEMMA FixedIs ==
  ASSUME rounded \in Nat, rounded < 10 ^ MaxDigits, NEW n \in Nat, rounded # 0 \/ n <= MaxDigits,
         NEW l, l.alternate \in BOOLEAN
  PROVE  FixedShown(Fixed(n, l), n, n > 0 \/ l.alternate)
<1> DEFINE d == Len(Digs)
           k == d - n
           pointed == n > 0 \/ l.alternate
           pt == PointIf(pointed)
<1>0. pointed \in BOOLEAN /\ (n > 0 => pointed) /\ (pt = <<>> \/ pt = <<Point>>)
  BY DEF PointIf
<1>1. /\ Digs \in Seq(Digits) /\ Digs \in Seq(Nat) /\ d \in 1 .. MaxDigits
      /\ ValueOf(Digs, 10) = rounded /\ (rounded # 0 => Digs[1] # 0) /\ (rounded = 0 => d = 1)
  BY DigsAre
<1>2. d \in Nat /\ d > 0 /\ d <= MaxDigits /\ k \in Int /\ MaxDigits \in Nat
  BY <1>1, Sizes
<1>3. /\ <<Point>> \in Seq(Nat) /\ Len(<<Point>>) = 1 /\ <<0>> \in Seq(Nat) /\ Len(<<0>>) = 1
      /\ <<0>>[1] = 0 /\ <<>> \in Seq(Nat) /\ <<>> \in Seq(Digits) /\ Len(<<>>) = 0 /\ <<0>> \in Seq(Digits)
  <2>1. 0 \in Digits
    BY DEF Digits
  <2>. QED  BY <2>1, Symbols, EmptySeq
<1>4. CASE n = 0
  <2> DEFINE t == Digs \o If(l.alternate, <<Point>>)
  <2>1. Fixed(n, l) = <<Piece(d + 2, t)>>
    BY <1>4 DEF Fixed
  <2>2. pt = If(l.alternate, <<Point>>) /\ (pt = <<>> \/ pt = <<Point>>)
    BY <1>4 DEF If, PointIf
  <2>3. pt \in Seq(Nat) /\ Len(pt) \in 0 .. 1
    <3>1. pt \in Seq(Nat)
      BY <1>0, <1>3, Zenon
    <3>2. Len(pt) = 0 \/ Len(pt) = 1
      BY <1>0, <1>3, Zenon
    <3>. QED  BY <3>1, <3>2
  <2> HIDE DEF pt
  <2>4. t = Digs \o (pt \o <<>>)
    <3>1. pt \o <<>> = pt
      BY <2>3, ConcatEmptySeq
    <3>. QED  BY <2>2, <3>1
  <2>5. Tells(Digs, <<>>, n)
    <3>1. Digs \o <<>> = Digs
      BY <1>1, ConcatEmptySeq
    <3>2. FewZeros(<<>>)
      <4>1. \A z \in 0 .. 0 : z <= MaxDigits
        BY <1>2
      <4>2. Len(<<>>) = 0
        BY <1>3
      <4> DEFINE e == <<>>
      <4>3. Len(e) = 0
        BY <4>2
      <4> HIDE DEF e
      <4>4. \A z \in 0 .. Len(e) : z <= MaxDigits
        BY <4>1, <4>3
      <4>5. FewZeros(e)
        BY <4>4 DEF FewZeros
      <4>. QED  BY <4>5 DEF e
    <3>3. Len(Digs) > 1 => Digs[1] # 0
      <4>1. (rounded # 0 => Digs[1] # 0) /\ (rounded = 0 => d = 1)
        BY <1>1
      <4> HIDE DEF d
      <4>2. d > 1 => Digs[1] # 0
        BY <1>2, <4>1
      <4>. QED  BY <4>2 DEF d
    <3>4. Len(Digs) > 0 /\ Len(<<>>) = n
      BY <1>2, <1>3, <1>4
    <3>. QED  BY <1>1, <1>3, <3>1, <3>2, <3>3, <3>4, Zenon DEF Tells
  <2>6. /\ d + 2 \in Nat /\ Len(Digs) + (Len(pt) + Len(<<>>)) < d + 2
        /\ d + 2 <= 2 * (Len(Digs) + (Len(pt) + Len(<<>>))) + 1
        /\ Len(Digs) + Len(<<>>) = Len(Digs)
    <3> DEFINE m == Len(pt)
               e == Len(<<>>)
    <3>1. m \in 0 .. 1 /\ e = 0 /\ d \in Nat /\ d > 0
      BY <1>2, <1>3, <2>3
    <3> HIDE DEF m, d, e
    <3>2. /\ d + 2 \in Nat /\ d + (m + e) < d + 2 /\ d + 2 <= 2 * (d + (m + e)) + 1 /\ d + e = d
      BY <3>1
    <3>. QED  BY <3>2 DEF m, d, e
  <2>7. pt = PointIf(pointed)
    BY DEF pt
  <2>8. FixedShown(<<Piece(d + 2, t)>>, n, pointed)
    <3> HIDE DEF t, d, pointed
    <3>. QED  BY <1>0, <2>4, <2>5, <2>6, <2>7, FixedPiece, Zenon
  <2>. QED  BY <2>1, <2>8
<1>5. CASE n > 0 /\ k <= 0
  <2> DEFINE z == Zeros(-k)
             fr == z \o Digs
             t == <<0, Point>> \o Zeros(-k) \o Digs
             zero == <<0>>
             point == <<Point>>
  <2>1. Fixed(n, l) = <<Piece(n + 3, t)>>
    BY <1>5 DEF Fixed
  <2>2. pt = point
    BY <1>5 DEF PointIf
  <2>3. -k \in Nat /\ n = (-k) + d
    BY <1>2, <1>5
  <2>4. z \in Seq(Digits) /\ z \in Seq(Nat) /\ Len(z) = -k /\ \A i \in 1 .. -k : z[i] = 0
    BY <2>3, ZerosAre
  <2>5. t = zero \o (point \o fr)
    <3>1. <<0, Point>> = zero \o point
      OBVIOUS
    <3>2. zero \in Seq(Nat) /\ point \in Seq(Nat)
      BY <1>3
    <3> DEFINE D == Digs
    <3>3. D \in Seq(Nat)
      BY <1>1
    <3>4. t = ((zero \o point) \o z) \o D /\ fr = z \o D
      BY <3>1
    <3> HIDE DEF zero, point, z, t, fr, D
    <3>5. fr \in Seq(Nat) /\ zero \o point \in Seq(Nat)
      BY <2>4, <3>2, <3>3, <3>4, Joining, Zenon
    <3>6. ((zero \o point) \o z) \o D = (zero \o point) \o (z \o D)
      BY <2>4, <3>3, <3>5, Grouping, ZenonT(60)
    <3>7. (zero \o point) \o fr = zero \o (point \o fr)
      BY <3>2, <3>5, Grouping, Zenon
    <3>. QED  BY <3>4, <3>6, <3>7, Zenon
  <2>6. fr \in Seq(Digits) /\ fr \in Seq(Nat) /\ Len(fr) = n
    <3>1. fr \in Seq(Digits) /\ Len(fr) = Len(z) + d
      BY <1>1, <2>4, Joined
    <3>2. fr \in Seq(Nat)
      BY <1>1, <2>4, Joined
    <3>. QED  BY <2>3, <2>4, <3>1, <3>2
  <2>7. fr[(-k) + 1] = Digs[1]
    <3>1. \A i \in 1 .. d : fr[Len(z) + i] = Digs[i]
      BY <1>1, <2>4, Joined
    <3>. QED  BY <1>2, <2>4, <3>1
  <2>8. ValueOf(zero \o fr, 10) = rounded
    <3>1. \A i \in 1 .. Len(zero) : zero[i] = 0
      <4>1. \A i \in 1 .. Len(zero) : i = 1
        BY <1>3
      <4>. QED  BY <1>3, <4>1
    <3>2. zero \in Seq(Nat) /\ 10 \in Nat
      BY <1>3
    <3> HIDE DEF zero
    <3>3. ValueOf(zero \o fr, 10) = ValueOf(fr, 10)
      BY <2>6, <3>1, <3>2, LeadingZeros
    <3>4. \A i \in 1 .. Len(z) : z[i] = 0
      BY <2>4
    <3>5. ValueOf(fr, 10) = ValueOf(Digs, 10)
      <4> HIDE DEF z
      <4>. QED  BY <1>1, <2>4, <3>2, <3>4, LeadingZeros
    <3>. QED  BY <1>1, <3>3, <3>5
  <2>9. FewZeros(fr)
    <3> HIDE DEF fr
    <3> SUFFICES ASSUME NEW y \in 0 .. n, \A i \in n - y + 1 .. n : fr[i] = 0, ~ (y <= MaxDigits) PROVE FALSE
      BY <2>6 DEF FewZeros
    <3>1. rounded # 0
      BY <1>2
    <3>2. (-k) + 1 \in n - y + 1 .. n
      BY <1>2, <2>3
    <3>. QED  BY <1>1, <2>7, <3>1, <3>2
  <2> HIDE DEF fr, t
  <2>10. Tells(zero, fr, n)
    <3>1. Len(zero) = 1 /\ zero \in Seq(Digits)
      BY <1>3
    <3> HIDE DEF zero
    <3>. QED  BY <2>6, <2>8, <2>9, <3>1 DEF Tells
  <2>11. /\ n + 3 \in Nat /\ Len(zero) + (Len(pt) + Len(fr)) < n + 3
         /\ n + 3 <= 2 * (Len(zero) + (Len(pt) + Len(fr))) + 1
    <3>1. Len(zero) = 1 /\ Len(pt) = 1 /\ Len(fr) = n
      BY <1>3, <2>2, <2>6
    <3> HIDE DEF zero, pt
    <3>. QED  BY <3>1
  <2>12. FixedShown(<<Piece(n + 3, t)>>, n, pointed)
    <3>1. t = zero \o (pt \o fr) /\ zero = <<0>> /\ pt = PointIf(pointed)
      BY <2>2, <2>5
    <3> HIDE DEF zero, pt, pointed
    <3>. QED  BY <1>0, <2>10, <2>11, <3>1, FixedPiece, Zenon
  <2>. QED  BY <2>1, <2>12
<1>6. CASE n > 0 /\ k > 0
  <2> DEFINE int == SubSeq(Digs, 1, k)
             fr == SubSeq(Digs, k + 1, d)
             t == SubSeq(Digs, 1, k) \o <<Point>> \o SubSeq(Digs, k + 1, d)
             point == <<Point>>
  <2>1. Fixed(n, l) = <<Piece(d + 2, t)>>
    <3>1. ~ (n > 0 /\ k <= 0) /\ n # 0
      BY <1>2, <1>6
    <3>. QED  BY <3>1 DEF Fixed
  <2>2. k \in 0 .. d /\ k \in Nat /\ d - k = n
    BY <1>2, <1>6
  <2>3. /\ int \in Seq(Digits) /\ fr \in Seq(Digits) /\ Len(int) = k /\ Len(fr) = d - k
        /\ \A i \in 1 .. k : int[i] = Digs[i]
        /\ int \o fr = Digs
    <3>1. k + 1 = k + 1 /\ d = Len(Digs)
      OBVIOUS
    <3>2. k \in 0 .. Len(Digs)
      BY <2>2
    <3> DEFINE m == k + 1
    <3>3. m = k + 1 /\ int = SubSeq(Digs, 1, k) /\ fr = SubSeq(Digs, m, d)
      OBVIOUS
    <3> HIDE DEF k, d, m, int, fr
    <3>4. Splits(SubSeq(Digs, 1, k), SubSeq(Digs, m, d), Digs, k, Digits)
      BY <1>1, <3>1, <3>2, <3>3, Split, Zenon
    <3>5. Splits(int, fr, Digs, k, Digits)
      BY <3>3, <3>4, Zenon
    <3>. QED  BY <3>1, <3>5 DEF Splits
  <2>4. int \in Seq(Nat) /\ fr \in Seq(Nat)
    <3>1. Digits \subseteq Nat
      BY DEF Digits
    <3>. QED  BY <2>3, <3>1, SeqMonotonic
  <2> HIDE DEF int, fr
  <2>5. t = int \o (point \o fr)
    <3>1. point \in Seq(Nat)
      BY <1>3
    <3>2. t = (int \o point) \o fr
      BY DEF int, fr
    <3> HIDE DEF point, t
    <3>3. (int \o point) \o fr = int \o (point \o fr)
      BY <2>4, <3>1, Grouping, Zenon
    <3>. QED  BY <3>2, <3>3
  <2>6. Len(int) > 1 => int[1] # 0
    <3> SUFFICES ASSUME Len(int) > 1 PROVE int[1] # 0
      OBVIOUS
    <3>1. k > 1 /\ d > 1
      BY <2>2, <2>3, <1>2
    <3>2. rounded # 0 /\ 1 \in 1 .. k
      BY <1>1, <3>1, <2>2, SMTT(60)
    <3>. QED  BY <1>1, <2>3, <3>2
  <2>7. FewZeros(fr)
    <3>1. Len(fr) \in Nat /\ Len(fr) <= MaxDigits
      BY <1>2, <2>2, <2>3
    <3>. QED  BY <1>2, <3>1 DEF FewZeros
  <2>8. Tells(int, fr, n)
    BY <1>1, <1>6, <2>2, <2>3, <2>6, <2>7 DEF Tells
  <2>9. Len(int) + Len(fr) = Len(Digs)
    BY <1>2, <2>2, <2>3
  <2>10. pt = point /\ Len(pt) = 1
    BY <1>3, <1>6 DEF PointIf
  <2> HIDE DEF t
  <2>11. /\ d + 2 \in Nat /\ Len(int) + (Len(pt) + Len(fr)) < d + 2
         /\ d + 2 <= 2 * (Len(int) + (Len(pt) + Len(fr))) + 1
    <3> DEFINE a == Len(int)
               b == Len(fr)
               c == Len(pt)
    <3>1. a = k /\ b = n /\ c = 1 /\ k \in Nat /\ k > 0 /\ d = k + n
      BY <1>2, <1>6, <2>2, <2>3, <2>10
    <3> HIDE DEF a, b, c, d, k
    <3>2. d + 2 \in Nat /\ a + (c + b) < d + 2 /\ d + 2 <= 2 * (a + (c + b)) + 1
      BY <3>1, <1>6
    <3>. QED  BY <3>2 DEF a, b, c
  <2>12. FixedShown(<<Piece(d + 2, t)>>, n, pointed)
    <3>1. t = int \o (pt \o fr) /\ pt = PointIf(pointed)
      BY <2>5, <2>10
    <3> HIDE DEF pt, d, pointed
    <3>. QED  BY <1>0, <2>8, <2>9, <2>11, <3>1, FixedPiece, Zenon
  <2>. QED  BY <2>1, <2>12
<1>. QED  BY <1>2, <1>4, <1>5, <1>6

---------------------------------------------------------------------------
(* The notation of %e *)

ScientificShown(p, n, pointed) ==
  /\ Safe(p)
  /\ \E int, frac : /\ Shows(Whole(p), pointed, TRUE, <<>>, int, frac, <<ExpSign>>, ExpDigits)
                    /\ Tells(int, frac, n) /\ Len(int) = 1

\* The first digit, and the others filled up with zeros.
Filled(n) == SubSeq(Digs, 2, Len(Digs)) \o Zeros(n - (Len(Digs) - 1))

LEMMA FilledTells ==
  ASSUME rounded \in Nat, rounded < 10 ^ MaxDigits, NEW n \in Nat, n <= MaxDigits,
         IF rounded = 0 THEN Len(Digs) = 1 ELSE Len(Digs) = n + 1
  PROVE  /\ Tells(<<Digs[1]>>, Filled(n), n) /\ Len(<<Digs[1]>>) = 1
         /\ <<Digs[1]>> \in Seq(Nat) /\ Filled(n) \in Seq(Nat) /\ Len(Filled(n)) = n
<1> DEFINE d == Len(Digs)
           int == <<Digs[1]>>
           one == SubSeq(Digs, 1, 1)
           tail == SubSeq(Digs, 2, d)
           z == Zeros(n - (d - 1))
           fr == tail \o z
<1>1. /\ Digs \in Seq(Digits) /\ Digs \in Seq(Nat) /\ Digs[1] \in Digits
      /\ ValueOf(Digs, 10) = rounded /\ (rounded = 0 => Digs[1] = 0)
  <2>1. 1 \in 1 .. Len(Digs)
    BY DigsAre
  <2>. QED  BY <2>1, DigsAre
<1>2. d \in Nat /\ d > 0 /\ d <= n + 1 /\ n - (d - 1) \in Nat /\ 1 \in 0 .. Len(Digs)
      /\ (rounded # 0 => n - (d - 1) = 0) /\ (rounded = 0 => d = 1)
  <2>1. d \in 1 .. MaxDigits
    BY DigsAre
  <2> HIDE DEF d
  <2>2. /\ d \in Nat /\ d > 0 /\ d <= n + 1 /\ n - (d - 1) \in Nat /\ 1 \in 0 .. d
        /\ (rounded # 0 => n - (d - 1) = 0) /\ (rounded = 0 => d = 1)
    <3>1. IF rounded = 0 THEN d = 1 ELSE d = n + 1
      BY DEF d
    <3>. QED  BY <2>1, <3>1, Sizes
  <2>. QED  BY <2>2 DEF d
<1>3. Splits(one, tail, Digs, 1, Digits)
  <2> DEFINE m == 2
             k == 1
  <2>1. m = k + 1 /\ d = Len(Digs) /\ k \in 0 .. Len(Digs)
    BY <1>2
  <2> HIDE DEF m, k, d
  <2>2. Splits(SubSeq(Digs, 1, k), SubSeq(Digs, m, d), Digs, k, Digits)
    BY <1>1, <2>1, Split, Zenon
  <2>. QED  BY <2>2 DEF m, k
<1>4. /\ one \in Seq(Digits) /\ tail \in Seq(Digits) /\ Len(one) = 1 /\ Len(tail) = d - 1
      /\ one[1] = Digs[1] /\ one \o tail = Digs
  <2>1. 1 \in 1 .. 1
    OBVIOUS
  <2> HIDE DEF one, tail, int, z, fr
  <2>. QED  BY <1>3, <2>1, Zenon DEF Splits, d
<1>5. int \in Seq(Digits) /\ Len(int) = 1 /\ int[1] = Digs[1]
  BY <1>1
<1>6. int = one
  <2>1. \A i \in 1 .. Len(int) : int[i] = one[i]
    <3>1. \A i \in 1 .. Len(int) : i = 1
      BY <1>5
    <3>. QED  BY <1>4, <1>5, <3>1
  <2> HIDE DEF int, one
  <2>. QED  BY <1>4, <1>5, <2>1, SeqEqual
<1>7. z \in Seq(Digits) /\ Len(z) = n - (d - 1) /\ \A i \in 1 .. n - (d - 1) : z[i] = 0
  BY <1>2, ZerosAre
<1>8. \A w : w \in Seq(Digits) => w \in Seq(Nat)
  <2>1. Digits \subseteq Nat
    BY DEF Digits
  <2>. QED  BY <2>1, SeqMonotonic
<1>9. Filled(n) = fr
  BY DEF Filled
<1> HIDE DEF int, one, tail, z, fr
<1>10. fr = tail \o z
  BY DEF fr
<1>11. fr \in Seq(Digits) /\ Len(fr) = Len(tail) + Len(z)
  <2>1. tail \in Seq(Digits) /\ z \in Seq(Digits)
    BY <1>4, <1>7
  <2>2. tail \o z \in Seq(Digits) /\ Len(tail \o z) = Len(tail) + Len(z)
    BY <2>1, Joined
  <2>. QED  BY <1>10, <2>2, Zenon
<1>12. Len(fr) = n
  <2> DEFINE a == Len(tail)
             b == Len(z)
  <2>1. a = d - 1 /\ b = n - (d - 1) /\ Len(fr) = a + b
    BY <1>4, <1>7, <1>11
  <2> HIDE DEF a, b, d
  <2>. QED  BY <1>2, <2>1
<1>13. ValueOf(int \o fr, 10) = rounded
  <2>1. CASE rounded # 0
    <3>1. z = <<>>
      <4>1. n - (d - 1) <= 0 /\ n - (d - 1) \in Int
        BY <1>2, <2>1
      <4>. QED  BY <4>1, NoZeros DEF z
    <3>2. fr = tail
      BY <1>4, <1>10, <3>1, ConcatEmptySeq
    <3>3. int \o fr = Digs
      BY <1>4, <1>6, <3>2
    <3>. QED  BY <1>1, <3>3
  <2>2. CASE rounded = 0
    <3>1. Len(tail) = 0
      BY <1>2, <1>4, <2>2
    <3>2. tail = <<>>
      BY <1>4, <3>1, EmptySeq
    <3>3. fr = z
      BY <1>7, <1>10, <3>2, ConcatEmptySeq
    <3>4. z \in Seq(Nat) /\ int \in Seq(Nat)
      BY <1>5, <1>7, <1>8
    <3>5. \A i \in 1 .. Len(z) : z[i] = 0
      BY <1>7
    <3>6. \A i \in 1 .. Len(int) : int[i] = 0
      <4>1. \A i \in 1 .. Len(int) : i = 1
        BY <1>5
      <4>. QED  BY <1>1, <1>5, <2>2, <4>1
    <3>7. ValueOf(int \o z, 10) = ValueOf(z, 10)
      BY <3>4, <3>6, LeadingZeros
    <3>8. ValueOf(z, 10) = 0
      BY <3>4, <3>5, ValueZeros
    <3>. QED  BY <2>2, <3>3, <3>7, <3>8
  <2>. QED  BY <2>1, <2>2
<1>14. FewZeros(fr)
  <2>1. \A y \in 0 .. n : y <= MaxDigits
    BY Sizes
  <2>2. \A y \in 0 .. Len(fr) : y <= MaxDigits
    BY <1>12, <2>1
  <2>. QED  BY <2>2 DEF FewZeros
<1>15. Tells(int, fr, n)
  <2>1. Len(int) > 0 /\ ~ (Len(int) > 1)
    BY <1>5
  <2>. QED  BY <1>5, <1>11, <1>12, <1>13, <1>14, <2>1, Zenon DEF Tells
<1>16. int \in Seq(Nat) /\ fr \in Seq(Nat)
  BY <1>5, <1>8, <1>11
<1>. QED  BY <1>5, <1>9, <1>12, <1>15, <1>16, Zenon DEF int

LEMMA ExponentLength ==
  ASSUME ExpFits
  PROVE  Whole(Exponent) \in Seq(Nat) /\ 4 <= Len(Whole(Exponent))
<1> DEFINE a == <<Exp>>
           c == <<ExpSign>>
<1>1. Whole(Exponent) = a \o (c \o ExpDigits)
  BY ExponentIs
<1>2. a \in Seq(Nat) /\ c \in Seq(Nat) /\ Len(a) = 1 /\ Len(c) = 1
  <2>1. ExpSign \in {Minus, Plus}
    BY DEF ExpSign
  <2>. QED  BY <2>1, Symbols
<1>3. ExpDigits \in Seq(Nat)
  BY ExpDigitsAre
<1>4. Len(ExpDigits) \in Nat /\ Len(ExpDigits) >= 2
  <2>1. Len(ExpDigits) = 2 \/ Len(ExpDigits) > 2
    BY ExpDigitsAre
  <2>2. Len(ExpDigits) \in Nat
    BY <1>3, LenProperties
  <2>. QED  BY <2>1, <2>2
<1> HIDE DEF a, c
<1>5. c \o ExpDigits \in Seq(Nat) /\ Len(c \o ExpDigits) = Len(c) + Len(ExpDigits)
  BY <1>2, <1>3, Joining
<1>6. Whole(Exponent) \in Seq(Nat) /\ Len(Whole(Exponent)) = Len(a) + Len(c \o ExpDigits)
  <2>1. a \o (c \o ExpDigits) \in Seq(Nat) /\ Len(a \o (c \o ExpDigits)) = Len(a) + Len(c \o ExpDigits)
    BY <1>2, <1>5, Joining
  <2>. QED  BY <1>1, <2>1, Zenon
<1>7. Len(Whole(Exponent)) = 1 + (1 + Len(ExpDigits))
  BY <1>2, <1>5, <1>6, Zenon
<1>. QED  BY <1>4, <1>6, <1>7

LEMMA ScientificIs ==
  ASSUME rounded \in Nat, rounded < 10 ^ MaxDigits, NEW n \in Nat, n <= MaxDigits, ExpFits,
         IF rounded = 0 THEN Len(Digs) = 1 ELSE Len(Digs) = n + 1,
         NEW l, l.alternate \in BOOLEAN
  PROVE  ScientificShown(Scientifically(n, l), n, n > 0 \/ l.alternate)
<1> DEFINE d == Len(Digs)
           pointed == n > 0 \/ l.alternate
           pt == PointIf(pointed)
           int == <<Digs[1]>>
           fr == Filled(n)
           room == (d - 1) + n + 9
           head == <<Piece(3, int \o pt)>>
           rest == If(pointed, <<Piece(room, fr)>>)
           u == head \o rest
           tail == <<Exp>> \o (<<ExpSign>> \o ExpDigits)
<1>1. d \in Nat /\ d > 0 /\ d <= n + 1
  <2>1. d \in 1 .. MaxDigits
    BY DigsAre
  <2>2. IF rounded = 0 THEN d = 1 ELSE d = n + 1
    OBVIOUS
  <2> HIDE DEF d
  <2>. QED  BY <2>1, <2>2, Sizes
<1>2. Scientifically(n, l) = (u \o Exponent) \o Terminator
  <2>1. (IF Len(Digs) - 1 > n THEN n + 1 ELSE Len(Digs)) = d
    <3> HIDE DEF d
    <3>1. (IF d - 1 > n THEN n + 1 ELSE d) = d
      BY <1>1
    <3>. QED  BY <3>1 DEF d
  <2>2. Len(SubSeq(Digs, 2, d)) = d - 1
    <3> DEFINE m == 2
               k == 1
    <3>1. m = k + 1 /\ d = Len(Digs) /\ k \in 0 .. Len(Digs)
      BY <1>1
    <3>2. Digs \in Seq(Digits)
      BY DigsAre
    <3> HIDE DEF m, k, d
    <3>3. Splits(SubSeq(Digs, 1, k), SubSeq(Digs, m, d), Digs, k, Digits)
      BY <3>1, <3>2, Split, Zenon
    <3>. QED  BY <3>1, <3>3, Zenon DEF Splits, m, k
  <2>3. pt = If(pointed, <<Point>>)
    BY DEF PointIf, If
  <2>4. fr = SubSeq(Digs, 2, d) \o Zeros(n - (d - 1))
    BY DEF Filled
  <2> DEFINE t == SubSeq(Digs, 2, IF Len(Digs) - 1 > n THEN n + 1 ELSE Len(Digs))
  <2>5. Scientifically(n, l) = <<Piece(3, <<Digs[1]>> \o If(n > 0 \/ l.alternate, <<Point>>))>>
           \o If(n > 0 \/ l.alternate, <<Piece(Len(t) + n + 9, t \o Zeros(n - Len(t)))>>)
           \o Exponent \o Terminator
    BY Zenon DEF Scientifically
  <2>6. t = SubSeq(Digs, 2, d)
    BY <2>1, Zenon
  <2> HIDE DEF t, d, fr, pt
  <2>7. t \o Zeros(n - Len(t)) = fr /\ Len(t) + n + 9 = room
    BY <2>2, <2>4, <2>6, Zenon
  <2>. QED  BY <2>3, <2>5, <2>7, Zenon
<1>3. /\ Tells(int, fr, n) /\ Len(int) = 1 /\ int \in Seq(Nat) /\ fr \in Seq(Nat) /\ Len(fr) = n
  BY FilledTells
<1>4. pointed \in BOOLEAN /\ (~ pointed => n = 0) /\ (pt = <<>> \/ pt = <<Point>>)
  BY DEF PointIf
<1>5. pt \in Seq(Nat) /\ (Len(pt) = 0 \/ Len(pt) = 1)
  <2>1. <<Point>> \in Seq(Nat) /\ Len(<<Point>>) = 1 /\ <<>> \in Seq(Nat) /\ Len(<<>>) = 0
    BY Symbols, EmptySeq
  <2>. QED  BY <1>4, <2>1, Zenon
<1>6. rest = (IF pointed THEN <<Piece(room, fr)>> ELSE <<>>)
  BY DEF If
<1>7. PointIf(pointed) = pt
  OBVIOUS
<1>8. room \in Nat /\ n <= room /\ room <= 2 * n + 1 + 2 * 4
  <2> HIDE DEF d
  <2>. QED  BY <1>1
<1> HIDE DEF d, pointed, pt, int, fr, room, head, rest, tail
<1>9. int \o pt \in Seq(Nat) /\ Len(int \o pt) = Len(int) + Len(pt)
  BY <1>3, <1>5, Joining, Zenon
<1>10. Sound(head, 4) /\ Whole(head) = int \o pt
  <2> DEFINE t == int \o pt
             three == 3
  <2>1. Len(t) <= three /\ three <= 2 * Len(t) + 1 + 2 * 4 /\ three \in Nat /\ 4 \in Nat
    <3> DEFINE a == Len(t)
    <3>1. a = 1 + 0 \/ a = 1 + 1
      BY <1>3, <1>5, <1>9, Zenon
    <3> HIDE DEF a
    <3>2. a <= three /\ three <= 2 * a + 1 + 2 * 4
      BY <3>1
    <3>. QED  BY <3>2 DEF a
  <2> HIDE DEF t, three
  <2>2. Sound(<<Piece(three, t)>>, 4) /\ Whole(<<Piece(three, t)>>) = t
    <3>1. t \in Seq(Nat)
      BY <1>9 DEF t
    <3>. QED  BY <2>1, <3>1, SoundOne, ZenonT(60)
  <2>. QED  BY <2>2 DEF t, three, head
<1>11. Sound(rest, 4) /\ Whole(rest) = fr
  <2>1. CASE pointed
    <3>1. Len(fr) <= room /\ room <= 2 * Len(fr) + 1 + 2 * 4 /\ 4 \in Nat
      BY <1>3, <1>8
    <3>2. Sound(<<Piece(room, fr)>>, 4) /\ Whole(<<Piece(room, fr)>>) = fr
      BY <1>3, <1>8, <3>1, SoundOne, ZenonT(60)
    <3>. QED  BY <1>6, <2>1, <3>2
  <2>2. CASE ~ pointed
    <3>1. fr = <<>>
      BY <1>3, <1>4, <2>2, EmptySeq
    <3>. QED  BY <1>6, <2>2, <3>1, SoundNone, WholeNone
  <2>. QED  BY <2>1, <2>2
<1>12. Sound(u, 4) /\ Whole(u) = (int \o pt) \o fr
  <2>1. Sound(u, 4) /\ Whole(u) = Whole(head) \o Whole(rest)
    BY <1>10, <1>11, SoundConcat
  <2>. QED  BY <1>10, <1>11, <2>1, Zenon
<1> HIDE DEF u
<1>13. Sound(Exponent, 0) /\ Whole(Exponent) = tail /\ 4 <= Len(Whole(Exponent)) /\ 4 \in Nat
  BY ExponentIs, ExponentLength DEF tail
<1>14. Scientifically(n, l) = u \o (Exponent \o Terminator)
  <2>1. u \in Seq(AllPieces) /\ Exponent \in Seq(AllPieces) /\ Terminator \in Seq(AllPieces)
    BY <1>12, <1>13, TerminatorIs, Zenon DEF Sound
  <2>2. (u \o Exponent) \o Terminator = u \o (Exponent \o Terminator)
    BY <2>1, ConcatAssociative, SMTT(60)
  <2>. QED  BY <1>2, <2>2, Zenon
<1>15. /\ Safe(u \o (Exponent \o Terminator))
       /\ Whole(u \o (Exponent \o Terminator)) = Whole(u) \o Whole(Exponent)
  <2>1. Sound(u, 4) /\ Sound(Exponent, 0)
    BY <1>12, <1>13
  <2> DEFINE four == 4
  <2>2. Sound(u, four) /\ Sound(Exponent, 0) /\ four \in Nat /\ four <= Len(Whole(Exponent))
    BY <1>13, <2>1
  <2> HIDE DEF four
  <2>. QED  BY <2>2, SafeTerminated
<1> DEFINE w == Whole(Scientifically(n, l))
<1>16. w = (<<>> \o (int \o (pt \o fr))) \o tail
  <2>1. w = ((int \o pt) \o fr) \o tail
    BY <1>12, <1>13, <1>14, <1>15, Zenon
  <2>2. (int \o pt) \o fr = int \o (pt \o fr)
    BY <1>3, <1>5, Grouping, Zenon
  <2>3. pt \o fr \in Seq(Nat)
    BY <1>3, <1>5, Joining, Zenon
  <2>4. int \o (pt \o fr) \in Seq(Nat)
    BY <1>3, <2>3, Joining, Zenon
  <2>5. <<>> \o (int \o (pt \o fr)) = int \o (pt \o fr)
    BY <2>4, ConcatEmptySeq
  <2>. QED  BY <2>1, <2>2, <2>5
<1>17. Shows(w, pointed, TRUE, <<>>, int, fr, <<ExpSign>>, ExpDigits)
  <2>1. /\ int \in Seq(Digits) /\ Len(int) > 0 /\ fr \in Seq(Digits)
    BY <1>3 DEF Tells
  <2>2. Digits \subseteq Figures
    BY DEF Digits, Figures, Space, Exp, X
  <2>3. /\ int \in Seq(Figures) /\ Len(int) > 0 /\ fr \in Seq(Figures) /\ int[1] \in Digits
    <3>1. int[1] \in Digits
      BY <2>1, ElementOfSeq
    <3>. QED  BY <2>1, <2>2, <3>1, SeqMonotonic
  <2>4. ~ pointed => fr = <<>>
    BY <1>3, <1>4, EmptySeq
  <2>5. ExpDigits \in Seq(Digits) /\ Len(ExpDigits) > 0
    <3>1. ExpDigits \in Seq(Digits) /\ (Len(ExpDigits) = 2 \/ Len(ExpDigits) > 2)
      BY ExpDigitsAre
    <3>2. Len(ExpDigits) \in Nat
      BY <3>1, LenProperties
    <3> DEFINE m == Len(ExpDigits)
    <3>3. m \in Nat /\ (m = 2 \/ m > 2)
      BY <3>1, <3>2
    <3> HIDE DEF m
    <3>4. m > 0
      BY <3>3
    <3>. QED  BY <3>1, <3>4 DEF m
  <2>6. <<ExpSign>> \in {<<Minus>>, <<Plus>>}
    BY DEF ExpSign
  <2>7. w = (<<>> \o (int \o (PointIf(pointed) \o fr))) \o (<<Exp>> \o (<<ExpSign>> \o ExpDigits))
    BY <1>7, <1>16 DEF tail
  <2> DEFINE es == <<ExpSign>>
             pre == <<>>
  <2>8. pre \in {<<>>, <<0, X>>} /\ (pre = <<>> => int[1] \in Digits)
    BY <2>3
  <2>9. Parcel(w, pointed, pre, int, fr, es, ExpDigits)
    BY <2>3, <2>4, <2>5, <2>6, <2>7, <2>8, Zenon DEF Parcel
  <2> HIDE DEF w, es, pre
  <2>10. Shows(w, pointed, TRUE, pre, int, fr, es, ExpDigits)
    BY <1>4, <2>9, ShowsScientific, Zenon
  <2>. QED  BY <2>10 DEF es, pre
<1>18. Safe(Scientifically(n, l))
  BY <1>14, <1>15, Zenon
<1>. QED  BY <1>3, <1>17, <1>18, Zenon DEF ScientificShown, pointed

---------------------------------------------------------------------------
(* The notation of %a *)

\* The digits of the fraction, with those that are only zeros.
HexFrac == Lettered(Spelled(rounded, Sixteen, Kept)) \o Zeros(places - Kept)
HexLead == rounded \div Sixteen ^ Kept

HexShown(p, pointed) ==
  /\ Safe(p)
  /\ Shows(Whole(p), pointed, TRUE, <<0, X>>, <<HexLead>>, HexFrac, <<ExpSign>>, ExpText)

LEMMA OneByOne ==
  ASSUME NEW a, NEW b, NEW c
  PROVE  <<a>> \o <<b>> = <<a, b>> /\ (<<a>> \o <<b>>) \o <<c>> = <<a, b, c>>
<1> DEFINE S == {a, b, c}
<1>1. /\ <<a>> \in Seq(S) /\ <<b>> \in Seq(S) /\ <<c>> \in Seq(S) /\ <<a, b>> \in Seq(S) /\ <<a, b, c>> \in Seq(S)
  OBVIOUS
<1>2. <<a>> \o <<b>> = <<a, b>>
  <2>1. <<a>> \o <<b>> \in Seq(S) /\ Len(<<a>> \o <<b>>) = 2
    BY <1>1, ConcatProperties
  <2>2. (<<a>> \o <<b>>)[1] = a /\ (<<a>> \o <<b>>)[2] = b
    BY <1>1, ConcatProperties
  <2> DEFINE t == <<a>> \o <<b>>
             u == <<a, b>>
  <2>3. t \in Seq(S) /\ u \in Seq(S) /\ Len(t) = Len(u) /\ \A i \in 1 .. Len(t) : t[i] = u[i]
    BY <1>1, <2>1, <2>2
  <2> HIDE DEF t, u
  <2>4. t = u
    BY <2>3, SeqEqual
  <2>. QED  BY <2>4 DEF t, u
<1>3. <<a, b>> \o <<c>> = <<a, b, c>>
  <2>1. <<a, b>> \o <<c>> \in Seq(S) /\ Len(<<a, b>> \o <<c>>) = 3
    BY <1>1, ConcatProperties
  <2>2. /\ (<<a, b>> \o <<c>>)[1] = a /\ (<<a, b>> \o <<c>>)[2] = b
        /\ (<<a, b>> \o <<c>>)[3] = c
    BY <1>1, ConcatProperties
  <2> DEFINE t == <<a, b>> \o <<c>>
             u == <<a, b, c>>
  <2>3. t \in Seq(S) /\ u \in Seq(S) /\ Len(t) = Len(u) /\ \A i \in 1 .. Len(t) : t[i] = u[i]
    BY <1>1, <2>1, <2>2
  <2> HIDE DEF t, u
  <2>4. t = u
    BY <2>3, SeqEqual
  <2>. QED  BY <2>4 DEF t, u
<1>. QED  BY <1>2, <1>3

LEMMA LetteredIs ==
  ASSUME NEW w \in Seq(Nat)
  PROVE  /\ Lettered(w) \in Seq(Figures) /\ Lettered(w) \in Seq(Nat) /\ Len(Lettered(w)) = Len(w)
         /\ \A i \in 1 .. Len(w) : Lettered(w)[i] = IF w[i] > 9 THEN LetterA + w[i] - 10 ELSE w[i]
<1> DEFINE n == Len(w)
           f(i) == IF w[i] > 9 THEN LetterA + w[i] - 10 ELSE w[i]
<1>1. n \in Nat /\ \A i \in 1 .. n : w[i] \in Nat
  BY ElementOfSeq, LenProperties
<1>2. \A i \in 1 .. n : f(i) \in Figures /\ f(i) \in Nat
  BY <1>1, SMTT(60) DEF Figures, Space, Exp, X, LetterA
<1>3. Lettered(w) = [i \in 1 .. n |-> f(i)]
  BY DEF Lettered
<1> HIDE DEF n, f
<1>4. /\ [i \in 1 .. n |-> f(i)] \in Seq(Figures) /\ [i \in 1 .. n |-> f(i)] \in Seq(Nat)
      /\ Len([i \in 1 .. n |-> f(i)]) = n /\ \A i \in 1 .. n : [j \in 1 .. n |-> f(j)][i] = f(i)
  BY <1>1, <1>2
<1>. QED  BY <1>3, <1>4 DEF n, f

LEMMA HexFracIs ==
  ASSUME rounded \in Nat, Kept \in 0 .. HexDigits, places \in Nat, Kept <= places
  PROVE  LET f == Lettered(Spelled(rounded, Sixteen, Kept))
         IN  /\ f \in Seq(Figures) /\ f \in Seq(Nat) /\ Len(f) = Kept /\ Kept \in Nat
             /\ Zeros(places - Kept) \in Seq(Figures) /\ Zeros(places - Kept) \in Seq(Nat)
             /\ Len(Zeros(places - Kept)) = places - Kept
             /\ HexFrac \in Seq(Figures) /\ HexFrac \in Seq(Nat) /\ Len(HexFrac) = places
<1> DEFINE w == Spelled(rounded, Sixteen, Kept)
           f == Lettered(w)
           z == Zeros(places - Kept)
<1>1. Kept \in Nat /\ places - Kept \in Nat /\ places = Kept + (places - Kept)
  BY SixteenIs
<1>2. w \in Seq(Nat) /\ Len(w) = Kept
  <2>1. PowersUpTo(Sixteen, Kept)
    BY SixteenIs DEF PowersUpTo
  <2>. QED  BY <1>1, <2>1, SixteenIs, SpelledType, ZenonT(60)
<1> HIDE DEF w
<1>3. f \in Seq(Figures) /\ f \in Seq(Nat) /\ Len(f) = Kept
  BY <1>2, LetteredIs
<1>4. z \in Seq(Digits) /\ z \in Seq(Nat) /\ Len(z) = places - Kept
  BY <1>1, ZerosAre
<1>5. z \in Seq(Figures)
  <2>1. Digits \subseteq Figures
    BY DEF Digits, Figures, Space, Exp, X
  <2> HIDE DEF z
  <2>. QED  BY <1>4, <2>1, SeqMonotonic
<1>6. HexFrac = f \o z
  BY DEF HexFrac, w
<1> HIDE DEF f, z
<1>7. f \o z \in Seq(Figures) /\ f \o z \in Seq(Nat) /\ Len(f \o z) = Len(f) + Len(z)
  BY <1>3, <1>4, <1>5, ConcatProperties
<1>8. Len(f \o z) = places
  BY <1>1, <1>3, <1>4, <1>7, Zenon
<1>. QED  BY <1>1, <1>3, <1>4, <1>5, <1>6, <1>7, <1>8, Zenon DEF f, w, z

LEMMA HexIs ==
  ASSUME rounded \in Nat, Kept \in 0 .. HexDigits, places \in Nat, Kept <= places, HexLead \in Digits, ExpFits,
         NEW l, l.alternate \in BOOLEAN
  PROVE  HexShown(Hex(l), places > 0 \/ l.alternate)
<1> DEFINE pointed == places > 0 \/ l.alternate
           x == <<0, X>>
           a == <<HexLead>>
           pt == PointIf(pointed)
           f == Lettered(Spelled(rounded, Sixteen, Kept))
           n == places - Kept
           z == Zeros(n)
           e == <<Exp>>
           g == <<ExpSign>>
           p1 == <<Piece(3, x)>>
           p2 == <<Piece(1, a)>>
           p3 == If(pointed, <<Piece(1, <<Point>>)>>)
           p4 == If(places > 0, <<Piece(Kept + 1, f)>>)
           p5 == If(n > 0, <<Piece(n + 1, z)>>)
           q1 == <<Piece(1, e)>>
           q2 == <<Piece(1, g)>>
           q3 == <<Piece(ExpWidth + 1, ExpText)>>
<1>1. Hex(l) = (((((p1 \o p2) \o p3) \o p4) \o p5) \o ((q1 \o q2) \o q3)) \o Terminator
  <2>1. Hex(l) = <<Piece(3, x), Piece(1, a)>> \o p3 \o p4 \o p5
                   \o <<Piece(1, e), Piece(1, g), Piece(ExpWidth + 1, ExpText)>> \o Terminator
    BY Zenon DEF Hex, HexLead
  <2>2. p1 \o p2 = <<Piece(3, x), Piece(1, a)>>
    <3> DEFINE b1 == Piece(3, x)
               b2 == Piece(1, a)
    <3> HIDE DEF b1, b2
    <3>1. <<b1>> \o <<b2>> = <<b1, b2>>
      BY OneByOne, Zenon
    <3>. QED  BY <3>1 DEF b1, b2
  <2>3. (q1 \o q2) \o q3 = <<Piece(1, e), Piece(1, g), Piece(ExpWidth + 1, ExpText)>>
    <3> DEFINE b1 == Piece(1, e)
               b2 == Piece(1, g)
               b3 == Piece(ExpWidth + 1, ExpText)
    <3> HIDE DEF b1, b2, b3
    <3>1. (<<b1>> \o <<b2>>) \o <<b3>> = <<b1, b2, b3>>
      BY OneByOne, Zenon
    <3>. QED  BY <3>1 DEF b1, b2, b3
  <2> HIDE DEF p1, p2, p3, p4, p5, q1, q2, q3
  <2>. QED  BY <2>1, <2>2, <2>3, Zenon
<1>2. /\ x \in Seq(Nat) /\ Len(x) = 2 /\ a \in Seq(Nat) /\ Len(a) = 1
      /\ e \in Seq(Nat) /\ Len(e) = 1 /\ g \in Seq(Nat) /\ Len(g) = 1
      /\ <<Point>> \in Seq(Nat) /\ Len(<<Point>>) = 1
  <2>1. ExpSign \in {Minus, Plus}
    BY DEF ExpSign
  <2>2. HexLead \in Nat
    BY DEF Digits
  <2>3. X \in Nat
    BY DEF X
  <2>. QED  BY <2>1, <2>2, <2>3, Symbols
<1>3. f \in Seq(Figures) /\ f \in Seq(Nat) /\ Len(f) = Kept /\ z \in Seq(Figures) /\ z \in Seq(Nat) /\ Len(z) = n
  BY HexFracIs
<1>4. HexFrac = f \o z /\ HexFrac \in Seq(Figures) /\ HexFrac \in Seq(Nat) /\ Len(HexFrac) = places
  BY HexFracIs DEF HexFrac
<1>5. Kept \in Nat /\ n \in Nat /\ pointed \in BOOLEAN
  BY SixteenIs
<1>6. ExpText \in Seq(Digits) /\ ExpText \in Seq(Nat) /\ Len(ExpText) = ExpWidth /\ ExpWidth \in Nat /\ ExpWidth > 0
  BY ExpTextIs
<1>7. (pointed => pt = <<Point>>) /\ (~ pointed => pt = <<>>)
  BY DEF PointIf
<1>8. /\ p3 = IF pointed THEN <<Piece(1, <<Point>>)>> ELSE <<>>
      /\ p4 = IF places > 0 THEN <<Piece(Kept + 1, f)>> ELSE <<>>
      /\ p5 = IF n > 0 THEN <<Piece(n + 1, z)>> ELSE <<>>
  BY DEF If
<1>9. /\ places > 0 \/ f = <<>>
      /\ n > 0 \/ z = <<>>
      /\ pointed \/ HexFrac = <<>>
  <2>1. places > 0 \/ (Kept = 0 /\ places = 0)
    BY <1>5
  <2>2. n > 0 \/ n = 0
    BY <1>5
  <2> HIDE DEF f, n, z
  <2>. QED  BY <1>3, <1>4, <2>1, <2>2, EmptySeq
<1> HIDE DEF pointed, x, a, pt, f, n, z, e, g
<1>10. pt \in Seq(Nat)
  BY <1>2, <1>7, EmptySeq
<1>11. ASSUME NEW c \in Seq(Nat), NEW m \in Nat, Len(c) = m
       PROVE  Sound(<<Piece(m + 1, c)>>, 0) /\ Whole(<<Piece(m + 1, c)>>) = c
  <2> DEFINE room == m + 1
             zero == 0
  <2>1. Len(c) <= room /\ room <= 2 * Len(c) + 1 + 2 * zero /\ room \in Nat /\ zero \in Nat
    BY <1>11
  <2> HIDE DEF room, zero
  <2>2. Sound(<<Piece(room, c)>>, zero) /\ Whole(<<Piece(room, c)>>) = c
    BY <2>1, SoundOne, ZenonT(60)
  <2>. QED  BY <2>2 DEF room, zero
<1>12. Sound(p1, 0) /\ Whole(p1) = x
  <2> DEFINE three == 3
             zero == 0
  <2>1. Len(x) <= three /\ three <= 2 * Len(x) + 1 + 2 * zero /\ three \in Nat /\ zero \in Nat
    BY <1>2
  <2> HIDE DEF three, zero
  <2>2. Sound(<<Piece(three, x)>>, zero) /\ Whole(<<Piece(three, x)>>) = x
    BY <1>2, <2>1, SoundOne, Zenon
  <2>. QED  BY <2>2 DEF three, zero
<1>13. ASSUME NEW c \in Seq(Nat), Len(c) = 1 PROVE Sound(<<Piece(1, c)>>, 0) /\ Whole(<<Piece(1, c)>>) = c
  <2> DEFINE one == 1
             zero == 0
  <2>1. Len(c) <= one /\ one <= 2 * Len(c) + 1 + 2 * zero /\ one \in Nat /\ zero \in Nat
    BY <1>13
  <2> HIDE DEF one, zero
  <2>2. Sound(<<Piece(one, c)>>, zero) /\ Whole(<<Piece(one, c)>>) = c
    BY <1>13, <2>1, SoundOne, ZenonT(60)
  <2>. QED  BY <2>2 DEF one, zero
<1>14. /\ Sound(p2, 0) /\ Whole(p2) = a /\ Sound(q1, 0) /\ Whole(q1) = e /\ Sound(q2, 0) /\ Whole(q2) = g
       /\ Sound(<<Piece(1, <<Point>>)>>, 0) /\ Whole(<<Piece(1, <<Point>>)>>) = <<Point>>
  BY <1>2, <1>13, Zenon
<1>15. Sound(p3, 0) /\ Whole(p3) = pt
  BY <1>7, <1>8, <1>14, SoundNone, WholeNone
<1>16. Sound(p4, 0) /\ Whole(p4) = f
  <2>1. Sound(<<Piece(Kept + 1, f)>>, 0) /\ Whole(<<Piece(Kept + 1, f)>>) = f
    BY <1>3, <1>5, <1>11, Zenon
  <2>. QED  BY <1>8, <1>9, <2>1, SoundNone, WholeNone, Zenon
<1>17. Sound(p5, 0) /\ Whole(p5) = z
  <2>1. Sound(<<Piece(n + 1, z)>>, 0) /\ Whole(<<Piece(n + 1, z)>>) = z
    BY <1>3, <1>5, <1>11, Zenon
  <2>. QED  BY <1>8, <1>9, <2>1, SoundNone, WholeNone, Zenon
<1>18. Sound(q3, 0) /\ Whole(q3) = ExpText
  BY <1>6, <1>11, Zenon
<1> HIDE DEF p1, p2, p3, p4, p5, q1, q2, q3
<1> DEFINE u == (((p1 \o p2) \o p3) \o p4) \o p5
           q == (q1 \o q2) \o q3
<1>19. Sound(u, 0) /\ Whole(u) = (((x \o a) \o pt) \o f) \o z
  <2>1. Sound(p1 \o p2, 0) /\ Whole(p1 \o p2) = x \o a
    BY <1>12, <1>14, SoundConcat, Zenon
  <2>2. Sound((p1 \o p2) \o p3, 0) /\ Whole((p1 \o p2) \o p3) = (x \o a) \o pt
    BY <1>15, <2>1, SoundConcat, Zenon
  <2>3. Sound(((p1 \o p2) \o p3) \o p4, 0) /\ Whole(((p1 \o p2) \o p3) \o p4) = ((x \o a) \o pt) \o f
    BY <1>16, <2>2, SoundConcat, Zenon
  <2>. QED  BY <1>17, <2>3, SoundConcat, Zenon
<1>20. Sound(q, 0) /\ Whole(q) = (e \o g) \o ExpText
  <2>1. Sound(q1 \o q2, 0) /\ Whole(q1 \o q2) = e \o g
    BY <1>14, SoundConcat, Zenon
  <2>. QED  BY <1>18, <2>1, SoundConcat, Zenon
<1>21. Hex(l) = (u \o q) \o Terminator
  BY <1>1
<1> HIDE DEF u, q
<1>22. Hex(l) = u \o (q \o Terminator)
  <2>1. u \in Seq(AllPieces) /\ q \in Seq(AllPieces) /\ Terminator \in Seq(AllPieces)
    BY <1>19, <1>20, TerminatorIs, Zenon DEF Sound
  <2>. QED  BY <1>21, <2>1, ConcatAssociative
<1>23. Safe(Hex(l)) /\ Whole(Hex(l)) = Whole(u) \o Whole(q)
  <2> DEFINE zero == 0
  <2>1. zero \in Nat /\ zero <= Len(Whole(q)) /\ Sound(u, zero) /\ Sound(q, 0)
    <3>1. Whole(q) \in Seq(Nat)
      BY <1>20, WholeType, Zenon DEF Sound
    <3>2. Len(Whole(q)) \in Nat
      BY <3>1, LenProperties
    <3>. QED  BY <1>19, <1>20, <3>2
  <2> HIDE DEF zero
  <2>2. /\ Safe(u \o (q \o Terminator))
        /\ Whole(u \o (q \o Terminator)) = Whole(u) \o Whole(q)
    BY <2>1, SafeTerminated
  <2>. QED  BY <1>22, <2>2, Zenon
<1> DEFINE w == Whole(Hex(l))
<1>24. w = (x \o (a \o (pt \o HexFrac))) \o (e \o (g \o ExpText))
  <2>1. (e \o g) \o ExpText = e \o (g \o ExpText)
    BY <1>2, <1>6, Grouping, ZenonT(60)
  <2>2. x \o a \in Seq(Nat)
    BY <1>2, Joining, Zenon
  <2>3. (x \o a) \o pt \in Seq(Nat)
    BY <1>10, <2>2, Joining, Zenon
  <2>4. (((x \o a) \o pt) \o f) \o z = ((x \o a) \o pt) \o HexFrac
    BY <1>3, <1>4, <2>3, Grouping, Zenon
  <2>5. ((x \o a) \o pt) \o HexFrac = (x \o a) \o (pt \o HexFrac)
    BY <1>4, <1>10, <2>2, Grouping, Zenon
  <2>6. pt \o HexFrac \in Seq(Nat)
    BY <1>4, <1>10, Joining, Zenon
  <2>7. (x \o a) \o (pt \o HexFrac) = x \o (a \o (pt \o HexFrac))
    <3>1. x \in Seq(Nat) /\ a \in Seq(Nat)
      BY <1>2
    <3>. QED  BY <2>6, <3>1, Grouping, Zenon
  <2>. QED  BY <1>19, <1>20, <1>23, <2>1, <2>4, <2>5, <2>7, Zenon
<1>25. Shows(w, pointed, TRUE, x, a, HexFrac, g, ExpText)
  <2>1. x \in {<<>>, <<0, X>>} /\ x # <<>>
    BY DEF x
  <2>2. a \in Seq(Figures) /\ Len(a) > 0
    <3>1. HexLead \in Figures
      BY DEF Digits, Figures, Space, Exp, X
    <3>. QED  BY <3>1 DEF a
  <2>3. g \in {<<Minus>>, <<Plus>>}
    BY DEF g, ExpSign
  <2>4. Len(ExpText) > 0
    BY <1>6
  <2>5. w = (x \o (a \o (PointIf(pointed) \o HexFrac))) \o (<<Exp>> \o (g \o ExpText))
    BY <1>24 DEF pt, e
  <2> HIDE DEF w
  <2>6. Parcel(w, pointed, x, a, HexFrac, g, ExpText)
    BY <1>4, <1>6, <1>9, <2>1, <2>2, <2>3, <2>4, <2>5, Zenon DEF Parcel
  <2>. QED  BY <1>5, <2>6, ShowsScientific, Zenon
<1>. QED  BY <1>23, <1>25, Zenon DEF HexShown, pointed, x, a, g

---------------------------------------------------------------------------
(* What %g leaves of a text *)

\* The position the search ends at.
LastKept(text, point, e) ==
  CHOOSE k \in point .. e : /\ \A i \in k + 1 .. e : text[i] = 0
                            /\ k > point => text[k] # 0

KeptBut(T, point, e, z) == LastKept(T, point, e) = e - z

LEMMA LastKeptIs ==
  ASSUME NEW T, NEW w, NEW z, Len(w) \in Nat, ZerosAt(w, z), NEW point \in Nat, NEW e, e = point + Len(w),
         \A j \in 1 .. Len(w) : T[point + j] = w[j]
  PROVE  KeptBut(T, point, e, z)
<1> DEFINE n == Len(w)
           m == e - z
           P(k) == /\ \A i \in k + 1 .. e : T[i] = 0
                   /\ k > point => T[k] # 0
<1>1. /\ z \in 0 .. n /\ n \in Nat /\ e \in Nat /\ m \in point .. e /\ m = point + (n - z)
      /\ \A i \in n - z + 1 .. n : w[i] = 0
      /\ z < n => w[n - z] # 0
  BY DEF ZerosAt
<1>2. \A i \in point + 1 .. e : T[i] = w[i - point]
  <2> TAKE i \in point + 1 .. e
  <2>1. i - point \in 1 .. n /\ point + (i - point) = i
    BY <1>1
  <2>. QED  BY <2>1
<1>3. \A i \in m + 1 .. e : T[i] = 0
  <2> TAKE i \in m + 1 .. e
  <2>1. i - point \in n - z + 1 .. n /\ i \in point + 1 .. e
    BY <1>1
  <2>. QED  BY <1>1, <1>2, <2>1
<1>4. m > point => T[m] # 0
  <2> SUFFICES ASSUME m > point PROVE T[m] # 0
    OBVIOUS
  <2>1. z < n /\ m \in point + 1 .. e /\ m - point = n - z
    BY <1>1
  <2>. QED  BY <1>1, <1>2, <2>1
<1>5. ASSUME NEW k \in point .. e, P(k) PROVE k = m
  <2>1. ~ (k < m)
    <3> SUFFICES ASSUME k < m PROVE FALSE
      OBVIOUS
    <3>1. m \in k + 1 .. e /\ m > point
      BY <1>1
    <3>. QED  BY <1>4, <1>5, <3>1
  <2>2. ~ (m < k)
    <3> SUFFICES ASSUME m < k PROVE FALSE
      OBVIOUS
    <3>1. k \in m + 1 .. e /\ k > point
      BY <1>1
    <3>. QED  BY <1>3, <1>5, <3>1
  <2>3. m \in Int /\ k \in Int
    BY <1>1
  <2> HIDE DEF m, P
  <2>. QED  BY <2>1, <2>2, <2>3
<1>6. m \in point .. e /\ P(m)
  BY <1>1, <1>3, <1>4
<1>7. LastKept(T, point, e) = CHOOSE k \in point .. e : P(k)
  BY DEF LastKept
<1> HIDE DEF P, m
<1>8. (CHOOSE k \in point .. e : P(k)) = m
  BY <1>5, <1>6, Zenon
<1>. QED  BY <1>7, <1>8, Zenon DEF m, KeptBut

Halved(u, v, w, x) == (u \o (v \o w)) \o x = (u \o v) \o (w \o x)
LEMMA FourParts ==
  ASSUME NEW u \in Seq(Nat), NEW v \in Seq(Nat), NEW w \in Seq(Nat), NEW x \in Seq(Nat)
  PROVE  Halved(u, v, w, x)
<1>1. u \o v \in Seq(Nat)
  BY Joining, Zenon
<1>2. (u \o v) \o w = u \o (v \o w)
  BY Grouping, SMTT(60)
<1>3. ((u \o v) \o w) \o x = (u \o v) \o (w \o x)
  BY <1>1, Grouping, Zenon
<1>. QED  BY <1>2, <1>3, Zenon DEF Halved

Trims(T, a, frac, q, S) ==
  \E short, z : /\ Cut(frac, short, z, S)
                /\ Trimmed(T) = ((a \o PointIf(short # <<>>)) \o short) \o q

LEMMA TrimText ==
  ASSUME NEW a \in Seq(Nat), NEW S, S \subseteq Nat, NEW frac \in Seq(S), NEW q \in Seq(Nat),
         NEW T, T = ((a \o <<Point>>) \o frac) \o q,
         Has(T, Point), Before(T, Point) = Len(a), EndOfDigits(T) = (Len(a) + 1) + Len(frac)
  PROVE  Trims(T, a, frac, q, S)
<1> DEFINE n == Len(frac)
           b == a \o <<Point>>
           point == Len(a) + 1
           e == point + n
<1>1. PICK short, z : Cut(frac, short, z, S)
  BY ZerosCut
<1>2. PICK zeros : Splits(short, zeros, frac, n - z, S)
  BY <1>1, Zenon DEF Cut
<1>3. /\ frac \in Seq(Nat) /\ short \in Seq(Nat) /\ zeros \in Seq(Nat) /\ frac = short \o zeros
      /\ <<Point>> \in Seq(Nat) /\ Len(<<Point>>) = 1
  <2>1. short \in Seq(S) /\ zeros \in Seq(S) /\ short \o zeros = frac
    BY <1>2, Zenon DEF Splits
  <2>. QED  BY <2>1, SeqMonotonic, Symbols
<1>4. Len(a) \in Nat /\ n \in Nat /\ z \in 0 .. n /\ Len(short) = n - z
  <2>1. Len(a) \in Nat /\ n \in Nat
    BY <1>3, LenProperties
  <2>2. z \in 0 .. n /\ Len(short) = n - z
    BY <1>1, <1>2, Zenon DEF Splits, Cut, ZerosAt
  <2>. QED  BY <2>1, <2>2
<1>5. ZerosAt(frac, z)
  BY <1>1, Zenon DEF Cut
<1>6. b \in Seq(Nat) /\ Len(b) = point
  BY <1>3, ConcatProperties
<1>7. T = (b \o frac) \o q
  OBVIOUS
<1>8. Trimmed(T) = SubSeq(T, 1, IF LastKept(T, point, e) = point THEN point - 1 ELSE LastKept(T, point, e))
                     \o SubSeq(T, e + 1, Len(T))
  <2>1. Before(T, Point) + 1 = point /\ EndOfDigits(T) = e
    OBVIOUS
  <2> HIDE DEF point, e
  <2> DEFINE p == Before(T, Point) + 1
             d == EndOfDigits(T)
  <2>2. Trimmed(T) = SubSeq(T, 1, IF LastKept(T, p, d) = p THEN p - 1 ELSE LastKept(T, p, d))
                       \o SubSeq(T, d + 1, Len(T))
    BY Zenon DEF Trimmed, LastKept
  <2> HIDE DEF p, d
  <2>3. p = point /\ d = e
    BY <2>1 DEF p, d
  <2>. QED  BY <2>2, <2>3, Zenon
<1>9. point \in Nat /\ e \in Nat /\ point - 1 = Len(a)
  BY <1>4
<1>10. e = point + n
  OBVIOUS
<1> HIDE DEF n, b, point, e
<1>11. LastKept(T, point, e) = e - z
  <2>1. Stands(frac, T, point)
    <3>1. Stands(frac, b \o frac, Len(b))
      BY <1>3, <1>6, StandsLast, Zenon
    <3>2. Stands(frac, (b \o frac) \o q, Len(b))
      BY <3>1, StandsStill, Zenon
    <3>. QED  BY <1>6, <1>7, <3>2, Zenon
  <2>2. Len(frac) \in Nat /\ e = point + Len(frac) /\ \A j \in 1 .. Len(frac) : T[point + j] = frac[j]
    BY <1>10, <2>1, Zenon DEF Stands, n
  <2>3. KeptBut(T, point, e, z)
    BY <1>5, <1>9, <2>2, LastKeptIs, Zenon
  <2>. QED  BY <2>3, Zenon DEF KeptBut
<1>12. SubSeq(T, e + 1, Len(T)) = q
  <2> DEFINE u == b \o frac
             m == e + 1
             l == Len(T)
  <2>1. u \in Seq(Nat) /\ Len(u) = e
    <3>1. u \in Seq(Nat) /\ Len(u) = Len(b) + Len(frac)
      BY <1>3, <1>6, Joining, Zenon
    <3>. QED  BY <1>6, <1>10, <3>1, Zenon DEF n
  <2>2. T = u \o q /\ e = Len(u) /\ m = e + 1 /\ l = Len(T)
    BY <1>7, <2>1
  <2> HIDE DEF u, m, l
  <2>3. Slices(T, u, q, e, m, l)
    BY <2>1, <2>2, Halves, Zenon
  <2>. QED  BY <2>3, Zenon DEF Slices, m, l
<1>13. CASE z = n
  <2>1. short = <<>>
    BY <1>3, <1>4, <1>13, EmptySeq
  <2>2. e - z = point
    BY <1>9, <1>10, <1>13, <1>4
  <2>3. SubSeq(T, 1, point - 1) = a
    <3> DEFINE v == (<<Point>> \o frac) \o q
               k == point - 1
               m == k + 1
               l == Len(T)
    <3>1. T = a \o v /\ v \in Seq(Nat)
      <4> DEFINE c == <<Point>>
      <4>0. c \in Seq(Nat) /\ frac \in Seq(Nat) /\ b = a \o c
        BY <1>3 DEF b
      <4> HIDE DEF c
      <4>1. b \o frac = a \o (c \o frac) /\ c \o frac \in Seq(Nat)
        BY <4>0, Grouping, Joining, ZenonT(60)
      <4>2. (a \o (c \o frac)) \o q = a \o ((c \o frac) \o q) /\ (c \o frac) \o q \in Seq(Nat)
        BY <4>1, Grouping, Joining, ZenonT(60)
      <4>. QED  BY <1>7, <4>1, <4>2, Zenon DEF c
    <3>2. k = Len(a) /\ m = k + 1 /\ l = Len(T)
      BY <1>9
    <3> HIDE DEF v, k, m, l
    <3>3. Slices(T, a, v, k, m, l)
      BY <3>1, <3>2, Halves, Zenon
    <3>. QED  BY <3>3, Zenon DEF Slices, k
  <2>4. Trimmed(T) = a \o q
    BY <1>8, <1>11, <1>12, <2>2, <2>3, Zenon
  <2>5. (a \o PointIf(short # <<>>)) \o short = a
    <3>1. PointIf(short # <<>>) = <<>>
      BY <2>1 DEF PointIf
    <3>2. a \o <<>> = a
      BY ConcatEmptySeq
    <3>. QED  BY <2>1, <3>1, <3>2, Zenon
  <2>6. Trimmed(T) = ((a \o PointIf(short # <<>>)) \o short) \o q
    BY <2>4, <2>5, Zenon
  <2>. QED  BY <1>1, <2>6, Zenon DEF Trims
<1>14. CASE z # n
  <2>1. short # <<>>
    <3>1. Len(short) # 0
      BY <1>4, <1>14
    <3>. QED  BY <3>1, EmptySeq
  <2> DEFINE k == e - z
  <2>2. k # point /\ k = point + (n - z)
    BY <1>4, <1>9, <1>10, <1>14
  <2> HIDE DEF k
  <2>3. SubSeq(T, 1, k) = b \o short
    <3> DEFINE u == b \o short
               v == zeros \o q
               m == k + 1
               l == Len(T)
    <3>1. u \in Seq(Nat) /\ v \in Seq(Nat) /\ Len(u) = Len(b) + Len(short)
      BY <1>3, <1>6, Joining, Zenon
    <3>2. T = u \o v
      <4>1. (b \o (short \o zeros)) \o q = (b \o short) \o (zeros \o q)
        <5>1. b \in Seq(Nat) /\ short \in Seq(Nat) /\ zeros \in Seq(Nat)
          BY <1>3, <1>6
        <5>2. Halved(b, short, zeros, q)
          BY <5>1, FourParts, Zenon
        <5>. QED  BY <5>2, Zenon DEF Halved
      <4>. QED  BY <1>3, <1>7, <4>1
    <3>3. k = Len(u) /\ m = k + 1 /\ l = Len(T)
      BY <1>4, <1>6, <2>2, <3>1
    <3> HIDE DEF u, v, m, l
    <3>4. Slices(T, u, v, k, m, l)
      BY <3>1, <3>2, <3>3, Halves, Zenon
    <3>. QED  BY <3>4, Zenon DEF Slices, u
  <2>4. Trimmed(T) = (b \o short) \o q
    <3>1. LastKept(T, point, e) = k
      BY <1>11 DEF k
    <3>. QED  BY <1>8, <1>12, <2>2, <2>3, <3>1, Zenon
  <2>5. PointIf(short # <<>>) = <<Point>>
    BY <2>1 DEF PointIf
  <2>6. Trimmed(T) = ((a \o PointIf(short # <<>>)) \o short) \o q
    BY <2>4, <2>5, Zenon DEF b
  <2>. QED  BY <1>1, <2>6, Zenon DEF Trims
<1>. QED  BY <1>13, <1>14

FourLong(u, v, w, x) == /\ ((u \o v) \o w) \o x \in Seq(Nat)
                        /\ Len(((u \o v) \o w) \o x) = ((Len(u) + Len(v)) + Len(w)) + Len(x)
LEMMA FourLengths ==
  ASSUME NEW u \in Seq(Nat), NEW v \in Seq(Nat), NEW w \in Seq(Nat), NEW x \in Seq(Nat)
  PROVE  FourLong(u, v, w, x)
<1>1. u \o v \in Seq(Nat) /\ Len(u \o v) = Len(u) + Len(v)
  BY Joining, Zenon
<1>2. (u \o v) \o w \in Seq(Nat) /\ Len((u \o v) \o w) = Len(u \o v) + Len(w)
  BY <1>1, Joining, Zenon
<1>3. ((u \o v) \o w) \o x \in Seq(Nat) /\ Len(((u \o v) \o w) \o x) = Len((u \o v) \o w) + Len(x)
  BY <1>2, Joining, Zenon
<1>. QED  BY <1>1, <1>2, <1>3, Zenon DEF FourLong

\* The text without the zeros, which still shows what the other one did.
TrimmedTo(text, s, t, scientific, pre, int, frac, es, ex) ==
  \E short, z : /\ Cut(frac, short, z, Figures)
                /\ Trimmed(text) = s \o t
                /\ Shows(t, short # <<>>, scientific, pre, int, short, es, ex)
                /\ Len(s \o t) <= Len(text)

LEMMA TrimmedShown ==
  ASSUME NEW s \in SignTexts, NEW t, NEW pointed \in BOOLEAN, NEW scientific \in BOOLEAN,
         NEW pre, NEW int, NEW frac, NEW es, NEW ex,
         Shows(t, pointed, scientific, pre, int, frac, es, ex), NEW text, text = s \o t
  PROVE  \E u : TrimmedTo(text, s, u, scientific, pre, int, frac, es, ex)
<1>1. PICK pt, ee : ShownBy(s, t, pointed, scientific, pre, int, pt, frac, ee, es, ex)
  BY ShownParts
<1> DEFINE a == (s \o pre) \o int
           q == (ee \o es) \o ex
<1>2. /\ Composed(pointed, scientific, s, pre, int, pt, frac, ee, es, ex)
      /\ Texts(s, pre, int, pt, frac, ee, es, ex)
      /\ text = Chain(s, pre, int, pt, frac, ee, es, ex)
      /\ text = ((a \o pt) \o frac) \o q
  BY <1>1, Zenon DEF ShownBy
<1>3. /\ frac \in Seq(Figures) /\ (~ pointed => frac = <<>>) /\ pt = PointIf(pointed)
      /\ pre \in {<<>>, <<0, X>>}
  BY <1>2, Zenon DEF Composed, PointIf
<1>4. Standing(pointed, scientific, pre # <<>>, s, int, frac, es, ex, s \o pre, a, a \o pt, (a \o pt) \o frac,
               ((a \o pt) \o frac) \o ee, (((a \o pt) \o frac) \o ee) \o es, text)
  <2>1. Standing(pointed, scientific, pre # <<>>, s, int, frac, es, ex, s \o pre, a, a \o pt, (a \o pt) \o frac,
                 ((a \o pt) \o frac) \o ee, (((a \o pt) \o frac) \o ee) \o es,
                 ((((a \o pt) \o frac) \o ee) \o es) \o ex)
    BY <1>2, Composition, Zenon
  <2>2. text = ((((a \o pt) \o frac) \o ee) \o es) \o ex
    BY <1>2, Zenon DEF Chain
  <2> HIDE DEF a
  <2>. QED  BY <2>1, <2>2, Zenon
<1> HIDE DEF a, q
<1> DEFINE k2 == Len(a)
           k3 == Len(a \o pt)
           k4 == Len((a \o pt) \o frac)
<1>5. /\ EndOfDigits(text) = k4 /\ (Has(text, Point) <=> pointed)
      /\ (IF Has(text, Point) THEN Before(text, Point) + 1 ELSE k4 + 1) = k2 + 1
  BY <1>4, Zenon DEF Standing, FoundAt
<1>6. /\ k2 \in Nat /\ k3 = k2 + (IF pointed THEN 1 ELSE 0) /\ k4 = k3 + Len(frac) /\ Len(frac) \in Nat /\ k4 \in Nat
  BY <1>4, Zenon DEF Standing, Meet
<1>7. CASE ~ pointed
  <2>1. Trimmed(text) = text
    BY <1>5, <1>7, Zenon DEF Trimmed
  <2>2. PICK short, z : Cut(frac, short, z, Figures)
    BY <1>3, ZerosCut, Zenon
  <2>3. short = frac /\ short = <<>>
    <3>1. PICK zeros : Splits(short, zeros, frac, Len(frac) - z, Figures)
      BY <2>2, Zenon DEF Cut
    <3>2. z \in 0 .. Len(frac) /\ frac = <<>>
      BY <1>3, <1>7, <2>2, Zenon DEF Cut, ZerosAt
    <3>3. short \in Seq(Figures) /\ Len(short) = Len(frac) - z
      BY <3>1, Zenon DEF Splits
    <3>4. Len(frac) = 0
      BY <3>2, EmptySeq
    <3>5. Len(short) = 0
      BY <3>2, <3>3, <3>4
    <3>. QED  BY <3>2, <3>3, <3>5, EmptySeq
  <2>4. Shows(t, short # <<>>, scientific, pre, int, short, es, ex)
    <3>1. (short # <<>>) = pointed
      BY <1>7, <2>3
    <3>. QED  BY <2>3, <3>1, Zenon
  <2>5. Len(s \o t) <= Len(text)
    <3>1. Len(text) \in Nat
      BY <1>4, Zenon DEF Standing, Meet
    <3>. QED  BY <3>1
  <2>. QED  BY <2>1, <2>2, <2>4, <2>5, Zenon DEF TrimmedTo
<1>8. CASE pointed
  <2>1. pt = <<Point>>
    BY <1>3, <1>8 DEF PointIf
  <2>2. /\ s \in Seq(Nat) /\ pre \in Seq(Nat) /\ int \in Seq(Nat) /\ ee \in Seq(Nat) /\ es \in Seq(Nat) /\ ex \in Seq(Nat)
    BY <1>2, Zenon DEF Texts
  <2>3. a \in Seq(Nat) /\ q \in Seq(Nat)
    <3>1. s \o pre \in Seq(Nat) /\ ee \o es \in Seq(Nat)
      BY <2>2, Joining
    <3>. QED  BY <2>2, <3>1, Joining DEF a, q
  <2>4. Has(text, Point) /\ Before(text, Point) = Len(a) /\ EndOfDigits(text) = (Len(a) + 1) + Len(frac)
    <3>1. Has(text, Point) /\ Before(text, Point) + 1 = k2 + 1
      BY <1>5, <1>8
    <3>2. Before(text, Point) \in Int
      <4>1. \E n \in 0 .. Len(text) - 1 : text[n + 1] = Point /\ \A i \in 1 .. n : text[i] # Point
        <5>1. Len(text) \in Nat
          BY <1>4, Zenon DEF Standing, Meet
        <5>2. PICK i \in 1 .. Len(text) : text[i] = Point
          BY <3>1, Zenon DEF Has
        <5> DEFINE T == {j \in Nat : j + 1 \in 1 .. Len(text) /\ text[j + 1] = Point}
        <5>3. i - 1 \in T
          BY <5>1, <5>2
        <5>4. PICK n \in T : \A j \in T : n <= j
          <6>1. T \subseteq Nat /\ T # {}
            BY <5>3
          <6> HIDE DEF T
          <6>. QED  BY <6>1, LeastMember
        <5>5. n \in 0 .. Len(text) - 1 /\ text[n + 1] = Point
          BY <5>1, <5>4
        <5>6. ASSUME NEW j \in 1 .. n PROVE text[j] # Point
          <6> SUFFICES ASSUME text[j] = Point PROVE FALSE
            OBVIOUS
          <6>1. j - 1 \in T
            BY <5>1, <5>5
          <6> HIDE DEF T
          <6>2. n <= j - 1
            BY <5>4, <6>1
          <6>. QED  BY <5>5, <6>2
        <5>. QED  BY <5>5, <5>6
      <4>2. Before(text, Point) \in 0 .. Len(text) - 1
        BY <4>1, Zenon DEF Before
      <4>. QED  BY <4>2
    <3>3. k4 = (k2 + 1) + Len(frac)
      BY <1>6, <1>8
    <3>. QED  BY <1>5, <1>6, <3>1, <3>2, <3>3
  <2>5. PICK short, z : /\ Cut(frac, short, z, Figures)
                        /\ Trimmed(text) = ((a \o PointIf(short # <<>>)) \o short) \o q
    <3>1. Figures \subseteq Nat /\ text = ((a \o <<Point>>) \o frac) \o q
      BY <1>2, <2>1, Zenon DEF Figures
    <3>2. Trims(text, a, frac, q, Figures)
      BY <1>3, <2>3, <2>4, <3>1, TrimText, Zenon
    <3>. QED  BY <3>2, Zenon DEF Trims
  <2> DEFINE now == short # <<>>
             pt2 == PointIf(now)
             u == pre \o (int \o (pt2 \o (short \o (ee \o (es \o ex)))))
  <2>6. /\ short \in Seq(Figures) /\ Len(short) \in Nat /\ Len(short) <= Len(frac) /\ now \in BOOLEAN
        /\ (now => Len(pt2) = 1 /\ Len(short) > 0) /\ (~ now => Len(pt2) = 0)
        /\ pt2 = (IF now THEN <<Point>> ELSE <<>>) /\ (~ now => short = <<>>)
    <3>1. PICK zeros : Splits(short, zeros, frac, Len(frac) - z, Figures)
      BY <2>5, Zenon DEF Cut
    <3>2. short \in Seq(Figures) /\ Len(short) = Len(frac) - z
      BY <3>1, Zenon DEF Splits
    <3>3. z \in 0 .. Len(frac)
      BY <2>5, Zenon DEF Cut, ZerosAt
    <3>4. Len(short) \in Nat /\ Len(short) <= Len(frac)
      BY <1>6, <3>2, <3>3
    <3>5. pt2 = (IF now THEN <<Point>> ELSE <<>>)
      BY DEF PointIf
    <3>6. now => Len(short) > 0
      BY <3>2, <3>4, EmptySeq
    <3>7. Len(<<Point>>) = 1 /\ Len(<<>>) = 0
      BY Symbols, EmptySeq
    <3>8. (now => Len(pt2) = 1) /\ (~ now => Len(pt2) = 0)
      BY <3>5, <3>7
    <3>. QED  BY <3>2, <3>4, <3>5, <3>6, <3>8
  <2> HIDE DEF now, pt2, u
  <2>7. /\ Composed(now, scientific, s, pre, int, pt2, short, ee, es, ex)
        /\ Composed(now, scientific, <<>>, pre, int, pt2, short, ee, es, ex)
    BY <1>2, <2>6, Zenon DEF Composed
  <2>8. Shows(u, now, scientific, pre, int, short, es, ex)
    BY <2>7, Zenon DEF Shows, u
  <2>9. Texts(s, pre, int, pt2, short, ee, es, ex)
    <3>1. pt2 \in Seq(Nat) /\ short \in Seq(Nat)
      BY <2>7, PartsType, Zenon
    <3>. QED  BY <2>2, <3>1, Zenon DEF Texts
  <2>10. Trimmed(text) = s \o u
    <3>1. Regrouped(s, pre, int, pt2, short, ee, es, ex)
      BY <2>9, Nested, Zenon
    <3>2. s \o u = ((a \o pt2) \o short) \o q
      BY <3>1, Zenon DEF Regrouped, a, q, u
    <3>. QED  BY <2>5, <3>2, Zenon DEF pt2, now
  <2>11. Len(s \o u) <= Len(text)
    <3>1. short \in Seq(Nat) /\ pt2 \in Seq(Nat) /\ frac \in Seq(Nat) /\ <<Point>> \in Seq(Nat)
      <4>1. frac \in Seq(Nat)
        BY <1>2, Zenon DEF Texts
      <4>2. pt2 \in Seq(Nat) /\ short \in Seq(Nat)
        BY <2>9, Zenon DEF Texts
      <4>. QED  BY <4>1, <4>2, Symbols
    <3>2. FourLong(a, pt2, short, q) /\ FourLong(a, <<Point>>, frac, q)
      BY <2>3, <3>1, FourLengths, Zenon
    <3>3. /\ Len(s \o u) = ((Len(a) + Len(pt2)) + Len(short)) + Len(q)
          /\ Len(text) = ((Len(a) + Len(<<Point>>)) + Len(frac)) + Len(q)
      <4>1. s \o u = ((a \o pt2) \o short) \o q
        BY <2>5, <2>10, Zenon DEF pt2, now
      <4>2. text = ((a \o <<Point>>) \o frac) \o q
        BY <1>2, <2>1, Zenon
      <4>. QED  BY <3>2, <4>1, <4>2, Zenon DEF FourLong
    <3>4. Len(q) \in Nat /\ Len(a) \in Nat /\ Len(<<Point>>) = 1
      BY <2>3, LenProperties, Symbols
    <3>5. Len(pt2) \in 0 .. 1
      BY <2>6
    <3>. QED  BY <1>6, <2>6, <3>3, <3>4, <3>5
  <2>. QED  BY <2>5, <2>8, <2>10, <2>11, Zenon DEF TrimmedTo, now
<1>. QED  BY <1>7, <1>8

---------------------------------------------------------------------------
(* The text of a number *)

LEMMA PrintedFacts ==
  ASSUME IInv, ShapeInv, Printed
  PROVE  /\ bits \in Nat /\ bits \in FiniteBits /\ kind \in Kinds /\ precision \in Int /\ rounded \in Nat
         /\ Accepted /\ Effective \in 0 .. MaxDigits
         /\ kind \in {"e", "g"} => SigDigits \in 1 .. MaxDigits - 1
         /\ kind = "f" => places = Effective /\ rounded < 10 ^ MaxDigits
         /\ kind = "a" => /\ rounded = HexRounded.leading * Sixteen ^ Kept + HexRounded.frac
                          /\ exp10 = HexExp10 /\ places = Shown
         /\ kind \in {"e", "g"} => Significand /\ places = SigDigits - 1 - exp10
<1>1. TypeInv /\ Accepted
  BY DEF IInv, ShapeInv
<1>2. /\ bits \in Nat /\ bits \in FiniteBits /\ kind \in Kinds /\ precision \in Int /\ rounded \in Nat
  BY <1>1 DEF TypeInv, Printed
<1>3. /\ Effective \in 0 .. MaxDigits
      /\ kind \in {"e", "g"} => SigDigits \in 1 .. MaxDigits - 1
  BY <1>1, Precision
<1>4. (CASE kind = "f" -> places = Effective /\ rounded < 10 ^ MaxDigits
         [] kind = "a" -> /\ rounded = HexRounded.leading * Sixteen ^ Kept + HexRounded.frac
                          /\ exp10 = HexExp10 /\ places = Shown
         [] OTHER -> Significand /\ places = SigDigits - 1 - exp10)
  BY Zenon DEF ShapeInv
<1>. QED  BY <1>1, <1>2, <1>3, <1>4

\* Every exponent can be written.
LEMMA ExponentFits ==
  ASSUME IInv, ShapeInv, Printed, kind # "f"
  PROVE  ExpFits
<1> DEFINE most == ExpBase ^ MaxExpWidth
<1>1. 2 * MaxDigits < most /\ -EMin < most /\ EMax < most
  BY ExpWidthAssumption
<1>2. most \in Nat
  BY Widths, PowerType
<1>3. MaxDigits \in Nat /\ EMin \in Int /\ EMax \in Int /\ Bias = 1 - EMin /\ Hidden \in Nat \ {0}
      /\ EMax + Bias + 1 \in Nat
  BY Sizes, Format
<1> HIDE DEF most
<1>4. CASE kind \in {"e", "g"}
  <2>1. Significand
    BY <1>4, PrintedFacts
  <2>2. exp10 = 0 \/ exp10 \in -MaxDigits .. MaxDigits
    BY <2>1 DEF Significand
  <2>. QED  BY <1>1, <1>2, <1>3, <2>2 DEF ExpFits, Abs, most
<1>5. CASE kind = "a"
  <2>1. exp10 = HexExp10 /\ bits \in Nat /\ bits \in FiniteBits
    BY <1>5, PrintedFacts
  <2>2. exp10 = 0 \/ exp10 \in EMin .. EMax
    <3>1. CASE bits = 0
      BY <2>1, <3>1 DEF HexExp10
    <3>2. CASE bits # 0 /\ bits < Hidden
      BY <1>3, <2>1, <3>2, FormatAssumption DEF HexExp10
    <3>3. CASE bits # 0 /\ ~ (bits < Hidden)
      <4> DEFINE d == bits \div Hidden
      <4>1. d \in Nat /\ bits % Hidden \in 0 .. Hidden - 1 /\ bits = Hidden * d + (bits % Hidden)
        BY <1>3, <2>1, DivMod
      <4>2. d # 0
        <5> SUFFICES ASSUME d = 0 PROVE FALSE
          OBVIOUS
        <5>1. Hidden * d = 0
          BY <1>3
        <5> HIDE DEF d
        <5>. QED  BY <1>3, <2>1, <3>3, <4>1, <5>1
      <4>3. d < EMax + Bias + 1
        <5>1. bits < Hidden * (EMax + Bias + 1)
          BY <2>1, Format DEF FiniteBits
        <5>. QED  BY <1>3, <2>1, <5>1, QuotientBelow
      <4>4. exp10 = d - Bias
        BY <2>1, <3>3 DEF HexExp10
      <4> HIDE DEF d
      <4>. QED  BY <1>3, <4>1, <4>2, <4>3, <4>4
    <3>. QED  BY <3>1, <3>2, <3>3
  <2>. QED  BY <1>1, <1>2, <1>3, <2>2 DEF ExpFits, Abs, most
<1>. QED  BY <1>4, <1>5, PrintedFacts DEF Kinds

\* The significant digits are all there are.
LEMMA SignificantDigits ==
  ASSUME IInv, ShapeInv, Printed, kind \in {"e", "g"}
  PROVE  /\ rounded < 10 ^ MaxDigits
         /\ IF rounded = 0 THEN Len(Digs) = 1 /\ exp10 = 0 ELSE Len(Digs) = SigDigits
<1>1. rounded \in Nat /\ SigDigits \in 1 .. MaxDigits - 1 /\ Significand
  BY PrintedFacts
<1>2. CASE digits = 0
  <2>1. rounded = 0 /\ exp10 = 0
    BY <1>1, <1>2 DEF Significand
  <2>2. rounded < 10 ^ MaxDigits
    BY <2>1, Sizes, Tens
  <2>. QED  BY <1>1, <2>1, <2>2, DigsAre
<1>3. CASE digits # 0
  <2> DEFINE n == SigDigits
             d == DecimalLen(rounded)
  <2>1. 10 ^ (n - 1) <= rounded /\ rounded < 10 ^ n
    BY <1>1, <1>3 DEF Significand
  <2>2. n \in 1 .. MaxDigits - 1 /\ MaxDigits \in Nat
    BY <1>1, Sizes
  <2> HIDE DEF n
  <2>3. 10 ^ n \in Nat /\ 10 ^ n <= 10 ^ MaxDigits /\ 10 ^ MaxDigits \in Nat
    BY <2>2, Tens, TensOrder
  <2>4. rounded < 10 ^ MaxDigits
    BY <1>1, <2>1, <2>3
  <2>5. d \in 1 .. MaxDigits /\ rounded < 10 ^ d /\ (d > 1 => 10 ^ (d - 1) <= rounded)
    BY <1>1, <2>4, Length
  <2> HIDE DEF d
  <2>6. ~ (d < n)
    <3> SUFFICES ASSUME d < n PROVE FALSE
      OBVIOUS
    <3>1. 10 ^ d <= 10 ^ (n - 1) /\ 10 ^ d \in Nat /\ 10 ^ (n - 1) \in Nat
      BY <2>2, <2>5, Tens, TensOrder
    <3>. QED  BY <1>1, <2>1, <2>5, <3>1
  <2>7. ~ (n < d)
    <3> SUFFICES ASSUME n < d PROVE FALSE
      OBVIOUS
    <3>1. 10 ^ n <= 10 ^ (d - 1) /\ 10 ^ (d - 1) \in Nat
      BY <2>2, <2>5, Tens, TensOrder
    <3>. QED  BY <1>1, <2>1, <2>2, <2>3, <2>5, <3>1
  <2>8. d = n
    BY <2>2, <2>5, <2>6, <2>7
  <2>9. 10 ^ (n - 1) \in Nat \ {0}
    BY <2>2, Tens
  <2>10. rounded # 0
    BY <1>1, <2>1, <2>9
  <2>. QED  BY <1>1, <2>4, <2>8, <2>10, DigsAre DEF n, d
<1>. QED  BY <1>2, <1>3

\* What the text of %f, %e and %g shows behind its sign.
DecimalShown(t, l, pointed, scientific, int, frac, es, ex) ==
  /\ Shows(t, pointed, scientific, <<>>, int, frac, es, ex)
  /\ pointed \in BOOLEAN /\ scientific \in BOOLEAN
  /\ Tells(int, frac, Len(frac))
  /\ pointed <=> (frac # <<>> \/ l.alternate)
  /\ IF scientific
       THEN /\ es = <<ExpSign>> /\ ex = ExpDigits /\ ExpFits /\ kind \in {"e", "g"}
            /\ Len(int) = 1 /\ Len(frac) = SigDigits - 1
       ELSE /\ es = <<>> /\ ex = <<>> /\ kind \in {"f", "g"} /\ Len(frac) = places
            /\ int = <<0>> \/ Len(int) + Len(frac) = Len(Digs)

DecimalIs(l) == /\ Safe(Body(l))
                /\ \E pointed, scientific, int, frac, es, ex :
                     DecimalShown(Whole(Body(l)), l, pointed, scientific, int, frac, es, ex)

LEMMA DecimalBody ==
  ASSUME IInv, ShapeInv, Printed, kind # "a", NEW l, l.alternate \in BOOLEAN
  PROVE  DecimalIs(l)
<1>1. kind \in {"f", "e", "g"} /\ rounded \in Nat
  BY PrintedFacts DEF Kinds
<1>2. rounded < 10 ^ MaxDigits
  BY <1>1, PrintedFacts, SignificantDigits
<1>3. CASE kind = "f" \/ ~ Scientific
  <2> DEFINE pointed == places > 0 \/ l.alternate
  <2>1. Body(l) = Fixed(places, l)
    BY <1>1, <1>3, Zenon DEF Body
  <2>2. kind \in {"f", "g"}
    BY <1>1, <1>3 DEF Scientific
  <2>3. places \in Nat /\ (rounded # 0 \/ places <= MaxDigits)
    <3>1. CASE kind = "f"
      BY <3>1, PrintedFacts
    <3>2. CASE kind = "g"
      <4>1. SigDigits \in 1 .. MaxDigits - 1 /\ places = SigDigits - 1 - exp10 /\ MaxDigits \in Nat
        BY <3>2, PrintedFacts, Sizes
      <4>2. exp10 \in Int
        BY DEF IInv, TypeInv
      <4>3. exp10 < SigDigits
        BY <1>3, <3>2, <4>1, <4>2 DEF Scientific
      <4>4. rounded = 0 => exp10 = 0
        BY <3>2, SignificantDigits
      <4>. QED  BY <4>1, <4>2, <4>3, <4>4
    <3>. QED  BY <2>2, <3>1, <3>2
  <2>4. FixedShown(Fixed(places, l), places, pointed)
    BY <1>1, <1>2, <2>3, FixedIs
  <2>5. pointed \in BOOLEAN
    OBVIOUS
  <2>6. pointed <=> (places > 0 \/ l.alternate)
    OBVIOUS
  <2> HIDE DEF pointed
  <2>7. PICK int, frac : /\ Shows(Whole(Body(l)), pointed, FALSE, <<>>, int, frac, <<>>, <<>>)
                         /\ Tells(int, frac, places)
                         /\ int = <<0>> \/ Len(int) + Len(frac) = Len(Digs)
    BY <2>1, <2>4, Zenon DEF FixedShown
  <2>8. Safe(Body(l))
    BY <2>1, <2>4, Zenon DEF FixedShown
  <2>9. Len(frac) = places /\ (frac # <<>> <=> places > 0)
    <3>1. frac \in Seq(Digits) /\ Len(frac) = places
      BY <2>7, Zenon DEF Tells
    <3>. QED  BY <2>3, <3>1, EmptySeq
  <2> DEFINE none == <<>>
             no == FALSE
  <2>10. none = <<>> /\ ~ no /\ no \in BOOLEAN /\ (pointed <=> (frac # <<>> \/ l.alternate))
    BY <2>6, <2>9
  <2>11. /\ Shows(Whole(Body(l)), pointed, no, <<>>, int, frac, none, none)
         /\ Tells(int, frac, Len(frac))
    BY <2>7, <2>9, Zenon
  <2> HIDE DEF none, no
  <2>12. DecimalShown(Whole(Body(l)), l, pointed, no, int, frac, none, none)
    BY <2>2, <2>5, <2>7, <2>9, <2>10, <2>11, Zenon DEF DecimalShown
  <2>. QED  BY <2>8, <2>12, Zenon DEF DecimalIs
<1>4. CASE ~ (kind = "f" \/ ~ Scientific)
  <2> DEFINE n == SigDigits - 1
             pointed == n > 0 \/ l.alternate
  <2>1. Body(l) = Scientifically(n, l)
    BY <1>1, <1>4, Zenon DEF Body
  <2>2. kind \in {"e", "g"} /\ kind # "f"
    BY <1>1, <1>4
  <2>3. n \in Nat /\ n <= MaxDigits /\ n + 1 = SigDigits
    BY <2>2, PrintedFacts, Sizes
  <2>4. ExpFits
    BY <2>2, ExponentFits
  <2>5. IF rounded = 0 THEN Len(Digs) = 1 ELSE Len(Digs) = n + 1
    BY <2>2, <2>3, SignificantDigits
  <2>6. pointed <=> (n > 0 \/ l.alternate)
    OBVIOUS
  <2> HIDE DEF n
  <2>7. ScientificShown(Scientifically(n, l), n, pointed)
    BY <1>1, <1>2, <2>3, <2>4, <2>5, ScientificIs
  <2>8. pointed \in BOOLEAN
    OBVIOUS
  <2> HIDE DEF pointed
  <2>9. PICK int, frac : /\ Shows(Whole(Body(l)), pointed, TRUE, <<>>, int, frac, <<ExpSign>>, ExpDigits)
                         /\ Tells(int, frac, n) /\ Len(int) = 1
    BY <2>1, <2>7, Zenon DEF ScientificShown
  <2>10. Safe(Body(l))
    BY <2>1, <2>7, Zenon DEF ScientificShown
  <2>11. Len(frac) = n /\ (frac # <<>> <=> n > 0)
    <3>1. frac \in Seq(Digits) /\ Len(frac) = n
      BY <2>9, Zenon DEF Tells
    <3>. QED  BY <2>3, <3>1, EmptySeq
  <2> DEFINE yes == TRUE
             es == <<ExpSign>>
  <2>12. yes /\ yes \in BOOLEAN /\ es = <<ExpSign>> /\ (pointed <=> (frac # <<>> \/ l.alternate))
    BY <2>6, <2>11
  <2>13. /\ Shows(Whole(Body(l)), pointed, yes, <<>>, int, frac, es, ExpDigits)
         /\ Tells(int, frac, Len(frac)) /\ Len(int) = 1 /\ Len(frac) = SigDigits - 1
    BY <2>9, <2>11, Zenon DEF n
  <2> HIDE DEF yes, es
  <2>14. DecimalShown(Whole(Body(l)), l, pointed, yes, int, frac, es, ExpDigits)
    BY <2>2, <2>4, <2>8, <2>12, <2>13, Zenon DEF DecimalShown
  <2>. QED  BY <2>10, <2>14, Zenon DEF DecimalIs
<1>. QED  BY <1>3, <1>4

LEMMA HexBody ==
  ASSUME IInv, ShapeInv, Printed, kind = "a", NEW l, l.alternate \in BOOLEAN
  PROVE  /\ HexShown(Body(l), places > 0 \/ l.alternate)
         /\ HexLead = HexRounded.leading /\ rounded % Sixteen ^ Kept = HexRounded.frac
<1>1. /\ bits \in Nat /\ precision \in Int /\ rounded \in Nat /\ places = Shown
      /\ rounded = HexRounded.leading * Sixteen ^ Kept + HexRounded.frac
  BY PrintedFacts
<1>2. Shown \in Nat /\ Kept \in 0 .. HexDigits /\ Kept <= Shown
  BY <1>1, HexType
<1> DEFINE m == Sixteen ^ Kept
           h == HexRounded.leading
           f == HexRounded.frac
<1>3. m \in Nat \ {0} /\ h \in 0 .. 2 /\ f \in 0 .. m - 1
  BY <1>1, <1>2, HexRoundedType
<1>4. rounded = m * h + f
  <2> HIDE DEF m, h, f
  <2>1. m * h = h * m
    BY <1>3
  <2>2. rounded = h * m + f
    BY <1>1 DEF m, h, f
  <2>. QED  BY <2>1, <2>2
<1>5. HexLead = h /\ rounded % m = f
  <2> HIDE DEF m, h, f
  <2>1. rounded \div m = h /\ rounded % m = f
    BY <1>1, <1>3, <1>4, DivModIs, SMTT(60)
  <2>. QED  BY <2>1 DEF HexLead, m
<1>6. HexLead \in Digits
  BY <1>3, <1>5 DEF Digits
<1>7. HexShown(Hex(l), places > 0 \/ l.alternate)
  BY <1>1, <1>2, <1>6, ExponentFits, HexIs
<1>8. Body(l) = Hex(l)
  BY Zenon DEF Body
<1>. QED  BY <1>5, <1>7, <1>8

\* What is formatted is a double.
Doubles == bits \in FiniteBits \cup {InfBits, NanBits}

LEMMA DoublesOnly == TSpec => []Doubles
<1>1. TInit => Doubles
  BY DEF TInit, Init, Doubles
<1>2. Doubles /\ [TNext]_<<vars, out>> => Doubles'
  <2> SUFFICES ASSUME Doubles, [TNext]_<<vars, out>> PROVE Doubles'
    OBVIOUS
  <2>1. ASSUME UNCHANGED vars PROVE Doubles'
    BY <2>1 DEF Doubles, vars, spec
  <2>2. ASSUME UNCHANGED spec PROVE Doubles'
    BY <2>2 DEF Doubles, spec
  <2>3. ASSUME Compute PROVE Doubles'
    <3>1. UNCHANGED spec
      BY <2>3 DEF Compute, Next, Reject, NotFinite, Exact, Fractional, ZeroSignificant, Significant, Shrink, Emit,
         Hexadecimal
    <3>. QED  BY <2>2, <3>1
  <2>4. ASSUME LayOut PROVE Doubles'
    BY <2>1, <2>4 DEF LayOut
  <2>. QED  BY <2>1, <2>3, <2>4 DEF TNext
<1>. QED  BY <1>1, <1>2, PTL DEF TSpec

\* nan and inf
LEMMA WordSafe ==
  ASSUME NEW s, Sound(s, 0), NEW c \in Nat
  PROVE  Safe(Word(s, c))
<1> DEFINE t == <<c, c, c>>
           four == 4
<1>1. Len(t) < four /\ four <= 2 * Len(t) + 1 /\ t \in Seq(Nat) /\ four \in Nat
  OBVIOUS
<1>2. Word(s, c) = s \o <<Piece(four, t)>>
  BY DEF Word
<1> HIDE DEF t, four
<1>3. Safe(<<Piece(four, t)>>)
  BY <1>1, SafeOne
<1>. QED  BY <1>2, <1>3, SafeSigned

LEMMA LayoutIs ==
  ASSUME NEW l \in Layouts
  PROVE  l.alternate \in BOOLEAN /\ l.cap \in Nat /\ l.wanted \in BOOLEAN
BY LayoutAssumption

LEMMA PiecesSafe ==
  ASSUME IInv, ShapeInv, Doubles, pc = "done", status = "OK", NEW l \in Layouts
  PROVE  /\ Safe(Pieces(l))
         /\ bits \in FiniteBits => /\ Pieces(l) = Sign(l) \o Body(l)
                                   /\ Whole(Pieces(l)) = SignText(negative, l.sign) \o Whole(Body(l))
<1>1. bits \in FiniteBits => bits # InfBits /\ bits # NanBits
  BY Format DEF FiniteBits, NanBits
<1>2. InfBits # NanBits
  BY Format DEF NanBits
<1>3. Sound(Sign(l), 0) /\ Whole(Sign(l)) = SignText(negative, l.sign)
  BY SignIs
<1>4. CASE bits = InfBits
  <2>1. Pieces(l) = Word(Sign(l), Inf)
    BY <1>2, <1>4 DEF Pieces
  <2>2. Inf \in Nat
    BY DEF Inf
  <2>. QED  BY <1>1, <1>3, <1>4, <2>1, <2>2, WordSafe
<1>5. CASE bits = NanBits
  <2>1. Pieces(l) = Word(<<>>, Nan)
    BY <1>2, <1>5, Zenon DEF Pieces
  <2>2. Nan \in Nat /\ Sound(<<>>, 0)
    BY SoundNone DEF Nan
  <2>. QED  BY <1>1, <1>5, <2>1, <2>2, WordSafe
<1>6. CASE bits \in FiniteBits
  <2>1. Pieces(l) = Sign(l) \o Body(l)
    BY <1>1, <1>6, Zenon DEF Pieces
  <2>2. Printed /\ l.alternate \in BOOLEAN
    BY <1>6, LayoutIs DEF Printed
  <2>3. Safe(Body(l))
    <3>1. CASE kind = "a"
      <4>1. HexShown(Body(l), places > 0 \/ l.alternate)
        BY <2>2, <3>1, HexBody
      <4>. QED  BY <4>1, Zenon DEF HexShown
    <3>2. CASE kind # "a"
      BY <2>2, <3>2, DecimalBody DEF DecimalIs
    <3>. QED  BY <3>1, <3>2
  <2>. QED  BY <1>3, <2>1, <2>3, SafeSigned
<1>. QED  BY <1>4, <1>5, <1>6 DEF Doubles

\* What %g without # leaves.
TrimmedDecimal(text, s, t, l) ==
  \E pointed, scientific, int, frac, es, ex :
    /\ DecimalShown(Whole(Body(l)), l, pointed, scientific, int, frac, es, ex)
    /\ TrimmedTo(text, s, t, scientific, <<>>, int, frac, es, ex)

LEMMA TrimmedBody ==
  ASSUME IInv, ShapeInv, Printed, kind # "a", NEW l \in Layouts,
         NEW text, text = SignText(negative, l.sign) \o Whole(Body(l))
  PROVE  \E t : TrimmedDecimal(text, SignText(negative, l.sign), t, l)
<1>1. DecimalIs(l)
  BY LayoutIs, DecimalBody
<1>2. PICK pointed, scientific, int, frac, es, ex :
        DecimalShown(Whole(Body(l)), l, pointed, scientific, int, frac, es, ex)
  BY <1>1, Zenon DEF DecimalIs
<1> DEFINE s == SignText(negative, l.sign)
           t == Whole(Body(l))
           pre == <<>>
<1>3. s \in SignTexts
  BY SignIs
<1>4. /\ Shows(t, pointed, scientific, pre, int, frac, es, ex)
      /\ pointed \in BOOLEAN /\ scientific \in BOOLEAN
  BY <1>2, Zenon DEF DecimalShown
<1> HIDE DEF s, t, pre
<1>5. text = s \o t
  BY DEF s, t
<1>6. PICK u : TrimmedTo(text, s, u, scientific, pre, int, frac, es, ex)
  BY <1>3, <1>4, <1>5, TrimmedShown, Zenon
<1>. QED  BY <1>2, <1>6, Zenon DEF TrimmedDecimal, s, t, pre

\* What is written, when it was laid out.
LEMMA WrittenText ==
  ASSUME IInv, ShapeInv, OutInv, Doubles, out # None
  PROVE  LET l == out.layout
             w == Written(Pieces(l), l.cap)
         IN  /\ l \in Layouts /\ l.cap \in Nat /\ pc = "done" /\ status = "OK"
             /\ Safe(Pieces(l))
             /\ Len(w.text) <= l.cap
             /\ w.status = "OK" => Len(w.text) < l.cap /\ w.text = Whole(Pieces(l))
             /\ w.status = "BUFFER_TOO_SMALL" => l.cap <= 2 * Len(Whole(Pieces(l)))
             /\ w.status \in {"OK", "BUFFER_TOO_SMALL"}
             /\ IF w.status = "OK" /\ bits \in FiniteBits /\ kind = "g" /\ ~ l.alternate
                  THEN \/ out.status = "OK" /\ out.text = Trimmed(w.text)
                       \/ out.status = "CRASH" /\ out.text = w.text
                  ELSE out.status = w.status /\ out.text = w.text
<1> DEFINE l == out.layout
           w == Written(Pieces(l), l.cap)
<1>1. l \in Layouts /\ pc = "done" /\ status = "OK" /\ out.status = Finished(w, l).status /\ out.text = Finished(w, l).text
  BY DEF OutInv
<1> HIDE DEF l
<1>2. l.cap \in Nat
  BY <1>1, LayoutIs
<1>3. Safe(Pieces(l))
  BY <1>1, PiecesSafe
<1>4. /\ Len(w.text) <= l.cap
      /\ w.status = "OK" => Len(w.text) < l.cap /\ w.text = Whole(Pieces(l))
      /\ w.status = "BUFFER_TOO_SMALL" => l.cap <= 2 * Len(Whole(Pieces(l)))
      /\ w.status \in {"OK", "BUFFER_TOO_SMALL"}
  BY <1>2, <1>3, SafeHolds
<1>5. \E st, tx : w = [status |-> st, text |-> tx]
  <2>1. Pieced(Pieces(l), Len(Pieces(l)))
    BY <1>3, SafeText, PiecedSeq
  <2>2. PICK v : /\ Puts(v, Pieces(l), l.cap, Len(Pieces(l))) /\ w = v[Len(Pieces(l))]
    BY <2>1, WrittenSteps
  <2>3. w \in Writings
    <3> DEFINE n == Len(Pieces(l))
    <3>1. n \in 0 .. n
      BY <2>1 DEF Pieced
    <3> HIDE DEF n, w
    <3>. QED  BY <2>2, <3>1, Zenon DEF Puts, n
  <2> HIDE DEF w
  <2>. QED  BY <2>3 DEF Writings
<1> HIDE DEF w
<1>6. IF w.status = "OK" /\ bits \in FiniteBits /\ kind = "g" /\ ~ l.alternate
        THEN \/ out.status = "OK" /\ out.text = Trimmed(w.text)
             \/ out.status = "CRASH" /\ out.text = w.text
        ELSE out.status = w.status /\ out.text = w.text
  BY <1>1, <1>5 DEF Finished
<1>. QED  BY <1>1, <1>2, <1>3, <1>4, <1>6 DEF l, w

LEMMA TrimmedFits ==
  ASSUME IInv, ShapeInv, Doubles, pc = "done", status = "OK", bits \in FiniteBits, kind = "g", NEW l \in Layouts
  PROVE  Len(Trimmed(Whole(Pieces(l)))) <= Len(Whole(Pieces(l)))
<1> DEFINE s == SignText(negative, l.sign)
           text == Whole(Pieces(l))
<1>1. text = s \o Whole(Body(l))
  BY PiecesSafe
<1>2. Printed /\ kind # "a"
  BY DEF Printed
<1> HIDE DEF s, text
<1>3. PICK t : TrimmedDecimal(text, s, t, l)
  BY <1>1, <1>2, TrimmedBody DEF s
<1>4. Trimmed(text) = s \o t /\ Len(s \o t) <= Len(text)
  BY <1>3, Zenon DEF TrimmedDecimal, TrimmedTo
<1>5. Len(Trimmed(text)) <= Len(text)
  BY <1>4, Zenon
<1>. QED  BY <1>5 DEF text

(***************************************************************************)
(* No call writes outside its buffer, whatever the number, the layout and  *)
(* the size of the buffer: what is written, the terminating zero included, *)
(* fits, also when a piece is refused halfway or zeros are trimmed; and no *)
(* buffer of more than twice the length of the text is refused.            *)
(***************************************************************************)
THEOREM InsideTheBuffer == TSpec => []StaysInBuffer
<1>1. IInv /\ ShapeInv /\ OutInv /\ Doubles => StaysInBuffer
  <2> SUFFICES ASSUME IInv, ShapeInv, OutInv, Doubles, out # None
               PROVE  /\ Len(out.text) <= out.layout.cap
                      /\ out.status = "OK" => Len(out.text) < out.layout.cap
                      /\ out.status = "BUFFER_TOO_SMALL" => out.layout.cap <= 2 * Len(Whole(Pieces(out.layout)))
    BY DEF StaysInBuffer
  <2> DEFINE l == out.layout
             w == Written(Pieces(l), l.cap)
             whole == Whole(Pieces(l))
  <2>1. /\ l \in Layouts /\ l.cap \in Nat /\ pc = "done" /\ status = "OK" /\ Safe(Pieces(l))
        /\ Len(w.text) <= l.cap
        /\ w.status = "OK" => Len(w.text) < l.cap /\ w.text = whole
        /\ w.status = "BUFFER_TOO_SMALL" => l.cap <= 2 * Len(whole)
        /\ IF w.status = "OK" /\ bits \in FiniteBits /\ kind = "g" /\ ~ l.alternate
             THEN \/ out.status = "OK" /\ out.text = Trimmed(w.text)
                  \/ out.status = "CRASH" /\ out.text = w.text
             ELSE out.status = w.status /\ out.text = w.text
    BY WrittenText
  <2>2. CASE w.status = "OK" /\ bits \in FiniteBits /\ kind = "g" /\ ~ l.alternate
    <3>1. /\ w.text = whole /\ Len(whole) < l.cap /\ Len(Trimmed(whole)) <= Len(whole)
      BY <2>1, <2>2, TrimmedFits
    <3>2. Len(whole) \in Nat
      <4>1. whole \in Seq(Nat)
        BY <2>1, SafeText
      <4>. QED  BY <4>1, LenProperties
    <3>. QED  BY <2>1, <2>2, <3>1, <3>2
  <2>3. CASE ~ (w.status = "OK" /\ bits \in FiniteBits /\ kind = "g" /\ ~ l.alternate)
    <3>1. out.status = w.status /\ out.text = w.text
      BY <2>1, <2>3
    <3>. QED  BY <2>1, <3>1
  <2>. QED  BY <2>2, <2>3
<1>. QED  BY <1>1, Invariance, DigitsInvariance, TextInvariance, DoublesOnly, PTL

---------------------------------------------------------------------------
(* What the text says *)

\* A text read: the digits frac behind the point, but for z zeros at their end.
Record(s, pointed, int, frac, es, ex, b) ==
  [sign |-> s, int |-> int, frac |-> frac, exp |-> ex,
   power |-> ValueOf(ex, b) * (IF Negative(es) THEN -1 ELSE 1), pointed |-> pointed]
Reads(text, b, s, pointed, int, frac, es, ex) == ReadAs(text, b) = Record(s, pointed, int, frac, es, ex, b)

LEMMA ShownReads ==
  ASSUME NEW b, NEW s \in SignTexts, NEW t, NEW pointed \in BOOLEAN, NEW scientific \in BOOLEAN,
         NEW pre, NEW int, NEW frac, NEW es, NEW ex,
         Shows(t, pointed, scientific, pre, int, frac, es, ex)
  PROVE  Reads(s \o t, b, s, pointed, int, frac, es, ex)
BY ShownRead DEF Reads, Record

SaidBut(l, scientific, int, frac, short, zeros, z, es, ex, now) ==
  /\ Said = Record(SignText(negative, l.sign), now, int, short, es, ex, ExpBase)
  /\ Splits(short, zeros, frac, Len(frac) - z, Figures)
  /\ z \in 0 .. Len(frac) /\ \A i \in Len(frac) - z + 1 .. Len(frac) : frac[i] = 0
  /\ now <=> (short # <<>> \/ l.alternate)
  /\ z = 0 \/ (kind = "g" /\ ~ l.alternate)
  /\ (kind = "g" /\ ~ l.alternate) => ZerosAt(frac, z)
  /\ \E pointed : DecimalShown(Whole(Body(l)), l, pointed, scientific, int, frac, es, ex)

LEMMA SplitsAll ==
  ASSUME NEW S, NEW w \in Seq(S)
  PROVE  Splits(w, <<>>, w, Len(w) - 0, S)
<1>1. Len(w) \in Nat /\ Len(w) - 0 = Len(w)
  BY LenProperties
<1>2. <<>> \in Seq(S) /\ Len(<<>>) = 0 /\ w \o <<>> = w
  BY EmptySeq, ConcatEmptySeq
<1>3. Len(w) - Len(w) = 0
  BY <1>1
<1>4. \A i \in 1 .. Len(w) - Len(w) : FALSE
  BY <1>3
<1> DEFINE n == Len(w) - 0
           e == <<>>
<1>5. n = Len(w) /\ e \in Seq(S) /\ Len(e) = Len(w) - n /\ w \o e = w /\ \A i \in 1 .. Len(w) - n : e[i] = w[n + i]
  BY <1>1, <1>2, <1>3, <1>4
<1> HIDE DEF n, e
<1>6. Splits(w, e, w, n, S)
  BY <1>5, Zenon DEF Splits
<1>. QED  BY <1>6 DEF n, e

LEMMA SaidIs ==
  ASSUME IInv, ShapeInv, OutInv, Doubles, out # None, LaidOut, kind # "a"
  PROVE  \E scientific, int, frac, short, zeros, z, es, ex, now :
           SaidBut(out.layout, scientific, int, frac, short, zeros, z, es, ex, now)
<1> DEFINE l == out.layout
           w == Written(Pieces(l), l.cap)
           whole == Whole(Pieces(l))
           s == SignText(negative, l.sign)
<1>1. /\ l \in Layouts /\ pc = "done" /\ status = "OK"
      /\ w.status = "OK" => w.text = whole
      /\ w.status \in {"OK", "BUFFER_TOO_SMALL"}
      /\ IF w.status = "OK" /\ bits \in FiniteBits /\ kind = "g" /\ ~ l.alternate
           THEN \/ out.status = "OK" /\ out.text = Trimmed(w.text)
                \/ out.status = "CRASH" /\ out.text = w.text
           ELSE out.status = w.status /\ out.text = w.text
  BY WrittenText
<1>2. out.status = "OK" /\ bits \in FiniteBits
  BY DEF LaidOut
<1>3. Printed /\ l.alternate \in BOOLEAN /\ s \in SignTexts
  BY <1>1, <1>2, LayoutIs, SignIs DEF Printed
<1>4. whole = s \o Whole(Body(l))
  BY <1>1, <1>2, PiecesSafe
<1>5. out.text = (IF kind = "g" /\ ~ l.alternate THEN Trimmed(whole) ELSE whole)
  <2>1. w.status = "OK"
    BY <1>1, <1>2
  <2>. QED  BY <1>1, <1>2, <2>1
<1> HIDE DEF l, w, whole, s
<1>6. CASE kind = "g" /\ ~ l.alternate
  <2>1. PICK t : TrimmedDecimal(whole, s, t, l)
    BY <1>1, <1>3, <1>4, TrimmedBody DEF s
  <2>2. PICK pointed, scientific, int, frac, es, ex :
          /\ DecimalShown(Whole(Body(l)), l, pointed, scientific, int, frac, es, ex)
          /\ TrimmedTo(whole, s, t, scientific, <<>>, int, frac, es, ex)
    BY <2>1, Zenon DEF TrimmedDecimal
  <2>3. PICK short, z : /\ Cut(frac, short, z, Figures)
                        /\ Trimmed(whole) = s \o t
                        /\ Shows(t, short # <<>>, scientific, <<>>, int, short, es, ex)
    BY <2>2, Zenon DEF TrimmedTo
  <2> DEFINE now == short # <<>>
             pre == <<>>
  <2>4. Shows(t, now, scientific, pre, int, short, es, ex) /\ now \in BOOLEAN /\ scientific \in BOOLEAN
    BY <2>2, <2>3 DEF DecimalShown
  <2>5. now <=> (short # <<>> \/ l.alternate)
    BY <1>6
  <2>6. out.text = s \o t
    BY <1>5, <1>6, <2>3
  <2> HIDE DEF now, pre
  <2>7. Said = Record(s, now, int, short, es, ex, ExpBase)
    <3>1. Reads(s \o t, ExpBase, s, now, int, short, es, ex)
      BY <1>3, <2>4, ShownReads, Zenon
    <3>. QED  BY <2>6, <3>1, Zenon DEF Said, Reads
  <2>8. PICK zeros : Splits(short, zeros, frac, Len(frac) - z, Figures)
    BY <2>3, Zenon DEF Cut
  <2>9. ZerosAt(frac, z)
    BY <2>3, Zenon DEF Cut
  <2>10. z \in 0 .. Len(frac) /\ \A i \in Len(frac) - z + 1 .. Len(frac) : frac[i] = 0
    BY <2>9, Zenon DEF ZerosAt
  <2>11. SaidBut(l, scientific, int, frac, short, zeros, z, es, ex, now)
    BY <1>6, <2>2, <2>5, <2>7, <2>8, <2>9, <2>10, Zenon DEF SaidBut, s
  <2>. QED  BY <2>11, Zenon DEF l
<1>7. CASE ~ (kind = "g" /\ ~ l.alternate)
  <2>1. PICK pointed, scientific, int, frac, es, ex :
          DecimalShown(Whole(Body(l)), l, pointed, scientific, int, frac, es, ex)
    <3>1. DecimalIs(l)
      BY <1>3, DecimalBody
    <3>. QED  BY <3>1, Zenon DEF DecimalIs
  <2> DEFINE t == Whole(Body(l))
             pre == <<>>
  <2>2. /\ Shows(t, pointed, scientific, pre, int, frac, es, ex) /\ pointed \in BOOLEAN /\ scientific \in BOOLEAN
        /\ pointed <=> (frac # <<>> \/ l.alternate)
    BY <2>1, Zenon DEF DecimalShown
  <2>3. out.text = s \o t
    BY <1>4, <1>5, <1>7
  <2> HIDE DEF t, pre
  <2>4. Said = Record(s, pointed, int, frac, es, ex, ExpBase)
    <3>1. Reads(s \o t, ExpBase, s, pointed, int, frac, es, ex)
      BY <1>3, <2>2, ShownReads, Zenon
    <3>. QED  BY <2>3, <3>1, Zenon DEF Said, Reads
  <2>5. frac \in Seq(Figures)
    <3>1. PICK pt, ee : Composed(pointed, scientific, <<>>, pre, int, pt, frac, ee, es, ex)
      BY <2>2, Zenon DEF Shows
    <3>. QED  BY <3>1, Zenon DEF Composed
  <2> DEFINE zero == 0
             none == <<>>
  <2>6. Splits(frac, none, frac, Len(frac) - zero, Figures)
    BY <2>5, SplitsAll
  <2>7. zero \in 0 .. Len(frac) /\ \A i \in Len(frac) - zero + 1 .. Len(frac) : frac[i] = 0
    <3>1. Len(frac) \in Nat
      BY <2>5, LenProperties
    <3>. QED  BY <3>1
  <2>8. zero = 0
    OBVIOUS
  <2> HIDE DEF zero, none
  <2>9. SaidBut(l, scientific, int, frac, frac, none, zero, es, ex, pointed)
    BY <1>7, <2>1, <2>2, <2>4, <2>6, <2>7, <2>8, Zenon DEF SaidBut, s
  <2>. QED  BY <2>9, Zenon DEF l
<1>. QED  BY <1>6, <1>7

\* Digits and zeros behind them.
LEMMA ValueBut ==
  ASSUME NEW int \in Seq(Nat), NEW short \in Seq(Nat), NEW zeros \in Seq(Nat), \A i \in 1 .. Len(zeros) : zeros[i] = 0,
         Len(zeros) <= MaxDigits
  PROVE  ValueOf(int \o (short \o zeros), 10) = ValueOf(int \o short, 10) * 10 ^ Len(zeros)
<1> DEFINE b == 10
           u == int \o short
<1>1. Len(zeros) \in Nat /\ b \in Nat
  BY LenProperties
<1>2. PowersUpTo(b, Len(zeros))
  <2>1. PowersUpTo(10, MaxDigits) /\ MaxDigits \in Nat
    BY PowersAssumption, Sizes
  <2> DEFINE n == Len(zeros)
  <2>2. n \in Nat /\ n <= MaxDigits
    BY <1>1
  <2> HIDE DEF n
  <2>3. PowersUpTo(10, n)
    BY <2>1, <2>2 DEF PowersUpTo
  <2>. QED  BY <2>3 DEF n
<1>3. u \in Seq(Nat)
  BY Joining
<1>4. int \o (short \o zeros) = u \o zeros
  BY Grouping
<1> HIDE DEF b, u
<1>5. ValueOf(u \o zeros, b) = ValueOf(u, b) * b ^ Len(zeros) + ValueOf(zeros, b)
  BY <1>1, <1>2, <1>3, ValueConcat
<1>6. ValueOf(zeros, b) = 0
  BY <1>1, ValueZeros
<1>7. ValueOf(u, b) \in Nat
  BY <1>1, <1>3, ValueType
<1>8. b ^ Len(zeros) \in Nat
  BY <1>1, <1>2, PowerType
<1>9. \A x, y \in Nat : x * y + 0 = x * y
  OBVIOUS
<1>10. ValueOf(u \o zeros, b) = ValueOf(u, b) * b ^ Len(zeros)
  BY <1>5, <1>6, <1>7, <1>8, <1>9, Zenon
<1>. QED  BY <1>4, <1>10, Zenon DEF b, u

\* The digits left, and the zeros that are not there, are the number.
LEMMA SaidValue ==
  ASSUME NEW l, NEW scientific, NEW int, NEW frac, NEW short, NEW zeros, NEW z, NEW es, NEW ex, NEW now,
         SaidBut(l, scientific, int, frac, short, zeros, z, es, ex, now)
  PROVE  /\ z \in Nat /\ ValueOf(int \o short, 10) * 10 ^ z = rounded
         /\ Len(short) \in Nat /\ Len(frac) \in Nat /\ Len(short) = Len(frac) - z
<1>1. PICK pointed : DecimalShown(Whole(Body(l)), l, pointed, scientific, int, frac, es, ex)
  BY Zenon DEF SaidBut
<1>2. Tells(int, frac, Len(frac))
  BY <1>1, Zenon DEF DecimalShown
<1>3. /\ int \in Seq(Digits) /\ frac \in Seq(Digits) /\ ValueOf(int \o frac, 10) = rounded /\ FewZeros(frac)
  BY <1>2, Zenon DEF Tells
<1>4. /\ Splits(short, zeros, frac, Len(frac) - z, Figures)
      /\ z \in 0 .. Len(frac) /\ \A i \in Len(frac) - z + 1 .. Len(frac) : frac[i] = 0
  BY Zenon DEF SaidBut
<1>5. Len(frac) \in Nat /\ z \in Nat
  BY <1>3, <1>4, LenProperties
<1>6. z <= MaxDigits
  BY <1>3, <1>4 DEF FewZeros
<1>7. /\ short \in Seq(Figures) /\ zeros \in Seq(Figures) /\ Len(short) = Len(frac) - z
      /\ Len(zeros) = Len(frac) - (Len(frac) - z) /\ frac = short \o zeros
      /\ \A i \in 1 .. Len(frac) - (Len(frac) - z) : zeros[i] = frac[(Len(frac) - z) + i]
  BY <1>4, Zenon DEF Splits
<1>8. Len(zeros) = z /\ \A i \in 1 .. Len(zeros) : zeros[i] = 0
  <2> DEFINE n == Len(frac)
             k == n - z
  <2>1. n \in Nat /\ z \in 0 .. n /\ k \in Nat /\ n - k = z /\ k + z = n
    BY <1>4, <1>5
  <2>2. /\ Len(zeros) = n - k /\ \A i \in 1 .. n - k : zeros[i] = frac[k + i]
        /\ \A i \in k + 1 .. n : frac[i] = 0
    BY <1>4, <1>7
  <2> HIDE DEF k, n
  <2>3. ASSUME NEW i \in 1 .. z PROVE zeros[i] = 0
    <3>1. k + i \in k + 1 .. n
      BY <2>1
    <3>. QED  BY <2>1, <2>2, <3>1
  <2>. QED  BY <2>1, <2>2, <2>3
<1>9. int \in Seq(Nat) /\ short \in Seq(Nat) /\ zeros \in Seq(Nat)
  <2>1. Digits \subseteq Nat /\ Figures \subseteq Nat
    BY DEF Digits, Figures
  <2>. QED  BY <1>3, <1>7, <2>1, SeqMonotonic
<1>10. ValueOf(int \o (short \o zeros), 10) = ValueOf(int \o short, 10) * 10 ^ Len(zeros)
  <2>1. Len(zeros) <= MaxDigits
    BY <1>6, <1>8, Zenon
  <2>. QED  BY <1>8, <1>9, <2>1, ValueBut
<1>11. ValueOf(int \o short, 10) * 10 ^ z = rounded
  BY <1>3, <1>7, <1>8, <1>10, Zenon
<1>12. Len(short) \in Nat
  BY <1>9, LenProperties
<1>. QED  BY <1>5, <1>7, <1>11, <1>12

\* The exponent is the one that was written.
LEMMA SaidPower ==
  ASSUME ExpFits
  PROVE  ValueOf(ExpDigits, ExpBase) * (IF Negative(<<ExpSign>>) THEN -1 ELSE 1) = exp10
<1>1. ValueOf(ExpDigits, ExpBase) = Abs(exp10)
  BY ExpDigitsAre
<1>2. Negative(<<ExpSign>>) <=> exp10 < 0
  BY DEF Negative, ExpSign, Minus, Plus
<1>3. Abs(exp10) = (IF exp10 < 0 THEN -exp10 ELSE exp10) /\ exp10 \in Int
  BY DEF Abs, ExpFits
<1>4. Abs(exp10) * (IF Negative(<<ExpSign>>) THEN -1 ELSE 1) = exp10
  <2>1. CASE exp10 < 0
    <3>1. Abs(exp10) * (-1) = exp10
      BY <1>3, <2>1
    <3>. QED  BY <1>2, <2>1, <3>1
  <2>2. CASE ~ (exp10 < 0)
    <3>1. Abs(exp10) * 1 = exp10
      BY <1>3, <2>2
    <3>. QED  BY <1>2, <2>2, <3>1
  <2>. QED  BY <2>1, <2>2
<1>. QED  BY <1>1, <1>4, Zenon

\* How far the last digit of the text is from the last one printed.
LEMMA SaidApart ==
  ASSUME IInv, ShapeInv, Printed, kind # "a",
         NEW l, NEW scientific, NEW int, NEW frac, NEW short, NEW zeros, NEW z, NEW es, NEW ex, NEW now,
         SaidBut(l, scientific, int, frac, short, zeros, z, es, ex, now)
  PROVE  (Said.power - Len(Said.frac)) + places = z
<1>1. PICK pointed : DecimalShown(Whole(Body(l)), l, pointed, scientific, int, frac, es, ex)
  BY Zenon DEF SaidBut
<1>2. Said.power = ValueOf(ex, ExpBase) * (IF Negative(es) THEN -1 ELSE 1) /\ Said.frac = short
  <2>1. Said = Record(SignText(negative, l.sign), now, int, short, es, ex, ExpBase)
    BY Zenon DEF SaidBut
  <2>. QED  BY <2>1 DEF Record
<1>3. z \in Nat /\ Len(short) \in Nat /\ Len(frac) \in Nat /\ Len(short) = Len(frac) - z
  BY SaidValue
<1>4. exp10 \in Int /\ places \in Int
  BY DEF IInv, TypeInv
<1>5. CASE scientific
  <2>1. es = <<ExpSign>> /\ ex = ExpDigits /\ ExpFits /\ kind \in {"e", "g"} /\ Len(frac) = SigDigits - 1
    BY <1>1, <1>5, Zenon DEF DecimalShown
  <2>2. Said.power = exp10
    BY <1>2, <2>1, SaidPower
  <2>3. SigDigits \in Nat /\ places = SigDigits - 1 - exp10
    BY <2>1, PrintedFacts
  <2>. QED  BY <1>2, <1>3, <1>4, <2>1, <2>2, <2>3
<1>6. CASE ~ scientific
  <2>1. es = <<>> /\ ex = <<>> /\ Len(frac) = places
    BY <1>1, <1>6, Zenon DEF DecimalShown
  <2>2. Said.power = 0
    <3>1. ValueOf(<<>>, ExpBase) = 0
      BY Widths, ValueOfNone
    <3>2. Said.power = 0 * (IF Negative(es) THEN -1 ELSE 1)
      BY <1>2, <2>1, <3>1
    <3>. QED  BY <3>2
  <2>. QED  BY <1>2, <1>3, <1>4, <2>1, <2>2
<1>. QED  BY <1>5, <1>6

\* The digits are those the notation asks for.
LEMMA SaidDigits ==
  ASSUME IInv, ShapeInv, Printed, kind # "a", out.layout.alternate \in BOOLEAN,
         NEW scientific, NEW int, NEW frac, NEW short, NEW zeros, NEW z, NEW es, NEW ex, NEW now,
         SaidBut(out.layout, scientific, int, frac, short, zeros, z, es, ex, now)
  PROVE  DigitsAsAsked
<1> DEFINE l == out.layout
<1>1. PICK pointed : DecimalShown(Whole(Body(l)), l, pointed, scientific, int, frac, es, ex)
  BY Zenon DEF SaidBut
<1>2. Said.int = int /\ Said.frac = short
  <2>1. Said = Record(SignText(negative, l.sign), now, int, short, es, ex, ExpBase)
    BY Zenon DEF SaidBut
  <2>. QED  BY <2>1 DEF Record
<1>3. z \in Nat /\ Len(short) \in Nat /\ Len(frac) \in Nat /\ Len(short) = Len(frac) - z
  BY SaidValue
<1>4. z = 0 \/ (kind = "g" /\ ~ l.alternate)
  BY Zenon DEF SaidBut
<1>5. kind \in {"f", "e", "g"}
  BY PrintedFacts DEF Kinds
<1> HIDE DEF l
<1>6. CASE kind = "f"
  <2>1. ~ scientific /\ Len(frac) = places
    BY <1>1, <1>6 DEF DecimalShown
  <2>2. Len(short) = Effective
    BY <1>3, <1>4, <1>6, <2>1, PrintedFacts
  <2>. QED  BY <1>2, <1>6, <2>2 DEF DigitsAsAsked
<1>7. CASE kind = "e"
  <2>1. Scientific
    BY <1>7 DEF Scientific
  <2>2. scientific /\ Len(int) = 1 /\ Len(frac) = SigDigits - 1
    BY <1>1, <1>7 DEF DecimalShown
  <2>3. SigDigits = Effective + 1 /\ Effective \in Nat
    BY <1>7, PrintedFacts DEF SigDigits
  <2>4. Len(short) = Effective
    BY <1>3, <1>4, <1>7, <2>2, <2>3
  <2>. QED  BY <1>2, <1>7, <2>2, <2>4 DEF DigitsAsAsked
<1>8. CASE kind = "g" /\ ~ l.alternate
  <2>1. ZerosAt(frac, z)
    BY <1>8, Zenon DEF SaidBut, l
  <2>2. z < Len(frac) => frac[Len(frac) - z] # 0
    BY <2>1, Zenon DEF ZerosAt
  <2>3. Splits(short, zeros, frac, Len(frac) - z, Figures)
    BY Zenon DEF SaidBut
  <2>4. short \in Seq(Figures) /\ \A i \in 1 .. Len(frac) - z : short[i] = frac[i]
    BY <2>3, Zenon DEF Splits
  <2>5. short # <<>> => short[Len(short)] # 0
    <3> SUFFICES ASSUME short # <<>> PROVE short[Len(short)] # 0
      OBVIOUS
    <3>1. Len(short) # 0
      BY <2>4, EmptySeq
    <3> DEFINE n == Len(frac)
               k == Len(short)
    <3>2. n \in Nat /\ k \in Nat /\ k # 0 /\ k = n - z
      BY <1>3, <3>1
    <3>3. (\A i \in 1 .. n - z : short[i] = frac[i]) /\ (z < n => frac[n - z] # 0)
      BY <2>2, <2>4
    <3> HIDE DEF n, k
    <3>4. k \in 1 .. n - z /\ z < n
      BY <1>3, <3>2
    <3>5. short[k] # 0
      BY <3>2, <3>3, <3>4
    <3>. QED  BY <3>5 DEF k
  <2>. QED  BY <1>2, <1>8, <2>5 DEF DigitsAsAsked, l
<1>9. CASE kind = "g" /\ l.alternate
  <2>1. SigDigits \in Nat /\ places = SigDigits - 1 - exp10 /\ exp10 \in Int
    BY <1>9, PrintedFacts DEF IInv, TypeInv
  <2>2. z = 0
    BY <1>4, <1>9
  <2>3. int = <<0>> \/ Len(int) + Len(short) = SigDigits
    <3>1. CASE scientific
      <4>1. Len(int) = 1 /\ Len(frac) = SigDigits - 1
        BY <1>1, <3>1, Zenon DEF DecimalShown
      <4>. QED  BY <1>3, <2>1, <2>2, <4>1
    <3>2. CASE ~ scientific
      <4>1. Len(frac) = places /\ (int = <<0>> \/ Len(int) + Len(frac) = Len(Digs))
        BY <1>1, <3>2, Zenon DEF DecimalShown
      <4>2. IF rounded = 0 THEN Len(Digs) = 1 /\ exp10 = 0 ELSE Len(Digs) = SigDigits
        BY <1>9, SignificantDigits
      <4>3. Len(short) = Len(frac)
        BY <1>3, <2>2
      <4>4. CASE rounded # 0
        BY <4>1, <4>2, <4>3, <4>4
      <4>5. CASE rounded = 0
        <5>1. Len(int) \in Nat /\ Len(int) > 0
          <6>1. Tells(int, frac, Len(frac))
            BY <1>1, Zenon DEF DecimalShown
          <6>2. int \in Seq(Digits) /\ Len(int) > 0
            BY <6>1, Zenon DEF Tells
          <6>. QED  BY <6>2, LenProperties
        <5>2. CASE Len(int) + Len(frac) = Len(Digs)
          <6> DEFINE a == Len(int)
                     f == Len(frac)
                     n == SigDigits
                     d == Len(Digs)
                     s == Len(short)
          <6>1. d = 1 /\ exp10 = 0
            BY <4>2, <4>5
          <6>2. n \in Nat /\ places = n - 1 - exp10 /\ f = places /\ a + f = d
            BY <2>1, <4>1, <5>2
          <6>3. a \in Nat /\ a > 0 /\ f \in Nat /\ s = f
            BY <1>3, <4>3, <5>1
          <6> HIDE DEF a, f, n, d, s
          <6>4. a + s = n
            BY <6>1, <6>2, <6>3
          <6>. QED  BY <6>4 DEF a, s, n
        <5>. QED  BY <4>1, <5>2
      <4>. QED  BY <4>4, <4>5
    <3>. QED  BY <3>1, <3>2
  <2>4. Said.power - Len(Said.frac) + places = 0
    BY <2>2, SaidApart, Zenon DEF l
  <2>. QED  BY <1>2, <1>9, <2>3, <2>4 DEF DigitsAsAsked, l
<1>. QED  BY <1>5, <1>6, <1>7, <1>8, <1>9 DEF l

(***************************************************************************)
(* The text of %f, %e and %g, read by its point and its exponent, is the   *)
(* number as it was rounded, with the sign, the digits and the point that  *)
(* were asked for, in every format and for every precision and flag: also  *)
(* where the digits had to be filled up with zeros before or behind them,  *)
(* where %g changed its notation, and where it trimmed the zeros and the   *)
(* point.                                                                  *)
(***************************************************************************)
THEOREM TextOfTheNumber == TSpec => []TextSaysTheNumber
<1>1. IInv /\ ShapeInv /\ OutInv /\ Doubles => TextSaysTheNumber
  <2> SUFFICES ASSUME IInv, ShapeInv, OutInv, Doubles, LaidOut, kind # "a"
               PROVE  LET value == ValueOf(Said.int \o Said.frac, 10)
                          apart == Said.power - Len(Said.frac) + places
                      IN  /\ IF apart >= 0 THEN value * 10 ^ apart = rounded
                                           ELSE value = rounded * 10 ^ (-apart)
                          /\ Said.sign = SignAsked /\ DigitsAsAsked
                          /\ Len(Said.int) > 1 => Said.int[1] # 0
                          /\ Said.exp # <<>> => Len(Said.exp) = 2 \/ (Len(Said.exp) > 2 /\ Said.exp[1] # 0)
                          /\ Said.pointed <=> (Said.frac # <<>> \/ out.layout.alternate)
    BY Zenon DEF TextSaysTheNumber
  <2> DEFINE l == out.layout
  <2>1. out # None
    BY DEF LaidOut, None
  <2>2. l \in Layouts /\ pc = "done" /\ status = "OK" /\ Printed
    BY <2>1, WrittenText DEF LaidOut, Printed
  <2>3. PICK scientific, int, frac, short, zeros, z, es, ex, now :
          SaidBut(l, scientific, int, frac, short, zeros, z, es, ex, now)
    BY <2>1, SaidIs
  <2>4. PICK pointed : DecimalShown(Whole(Body(l)), l, pointed, scientific, int, frac, es, ex)
    BY <2>3, Zenon DEF SaidBut
  <2>5. /\ Said.int = int /\ Said.frac = short /\ Said.exp = ex /\ Said.pointed = now
        /\ Said.sign = SignText(negative, l.sign)
    <3>1. Said = Record(SignText(negative, l.sign), now, int, short, es, ex, ExpBase)
      BY <2>3, Zenon DEF SaidBut
    <3>. QED  BY <3>1 DEF Record
  <2>6. z \in Nat /\ ValueOf(int \o short, 10) * 10 ^ z = rounded
    BY <2>3, SaidValue
  <2> DEFINE apart == (Said.power - Len(Said.frac)) + places
  <2>7. apart = z
    BY <2>2, <2>3, SaidApart
  <2>8. IF apart >= 0 THEN ValueOf(Said.int \o Said.frac, 10) * 10 ^ apart = rounded
                      ELSE ValueOf(Said.int \o Said.frac, 10) = rounded * 10 ^ (-apart)
    <3> HIDE DEF apart
    <3>1. apart >= 0
      BY <2>6, <2>7
    <3>. QED  BY <2>5, <2>6, <2>7, <3>1, Zenon
  <2>9. DigitsAsAsked
    BY <2>2, <2>3, SaidDigits, LayoutIs
  <2>10. Len(int) > 1 => int[1] # 0
    <3>1. Tells(int, frac, Len(frac))
      BY <2>4, Zenon DEF DecimalShown
    <3>. QED  BY <3>1, Zenon DEF Tells
  <2>11. ex # <<>> => Len(ex) = 2 \/ (Len(ex) > 2 /\ ex[1] # 0)
    <3>1. CASE scientific
      <4>1. ex = ExpDigits /\ ExpFits
        BY <2>4, <3>1, Zenon DEF DecimalShown
      <4>. QED  BY <4>1, ExpDigitsAre
    <3>2. CASE ~ scientific
      <4>1. ex = <<>>
        BY <2>4, <3>2, Zenon DEF DecimalShown
      <4>. QED  BY <4>1
    <3>. QED  BY <3>1, <3>2
  <2>12. now <=> (short # <<>> \/ l.alternate)
    BY <2>3, Zenon DEF SaidBut
  <2>13. Said.sign = SignAsked
    BY <2>5 DEF SignAsked
  <2>. QED  BY <2>5, <2>8, <2>9, <2>10, <2>11, <2>12, <2>13, Zenon
<1>. QED  BY <1>1, Invariance, DigitsInvariance, TextInvariance, DoublesOnly, PTL

---------------------------------------------------------------------------
(* The number that the text of %a says *)

\* Multiples of a power have the same last digits.
LEMMA SpelledRest ==
  ASSUME NEW b \in Nat \ {0, 1}, NEW n \in Nat, PowersUpTo(b, n), NEW h \in Nat, NEW f \in Nat,
         NEW x, x = b ^ n * h + f
  PROVE  Spelled(x, b, n) = Spelled(f, b, n)
<1>1. ASSUME NEW i \in 1 .. n PROVE (x \div b ^ (n - i)) % b = (f \div b ^ (n - i)) % b
  <2> DEFINE p == b ^ (n - i)
             c == b ^ (i - 1)
             d == f \div p
  <2>1. p \in Nat \ {0} /\ c \in Nat \ {0} /\ b ^ n \in Nat
    <3>1. n - i \in 0 .. n /\ i - 1 \in 0 .. n /\ n \in 0 .. n
      OBVIOUS
    <3>. QED  BY <3>1, PowerPositive
  <2>2. b ^ n = p * (b * c)
    <3>1. b ^ ((n - i) + i) = b ^ (n - i) * b ^ i
      <4> DEFINE j == n - i
      <4>1. j \in Nat /\ i \in Nat /\ j + i <= n
        OBVIOUS
      <4> HIDE DEF j
      <4>2. b ^ (j + i) = b ^ j * b ^ i
        BY <4>1, PowerSum
      <4>. QED  BY <4>2 DEF j
    <3>2. (n - i) + i = n /\ i - 1 \in 0 .. n - 1 /\ (i - 1) + 1 = i
      OBVIOUS
    <3>3. b ^ ((i - 1) + 1) = b * b ^ (i - 1)
      BY <3>2 DEF PowersUpTo
    <3>4. b ^ n = b ^ (n - i) * b ^ i /\ b ^ i = b * b ^ (i - 1)
      BY <3>1, <3>2, <3>3, Zenon
    <3>. QED  BY <3>4, Zenon
  <2> HIDE DEF p, c
  <2>3. d \in Nat /\ f % p \in 0 .. p - 1 /\ f = p * d + (f % p)
    BY <2>1, DivMod
  <2> HIDE DEF d
  <2> DEFINE k == c * h
             r == f % p
             q == b * k + d
  <2>4. k \in Nat /\ q \in Nat
    BY <2>1, <2>3
  <2>5. x = p * q + r
    <3>1. (p * (b * c)) * h = p * (b * k)
      BY <2>1
    <3>2. p * q = p * (b * k) + p * d
      <4> HIDE DEF k
      <4>. QED  BY <2>1, <2>3, <2>4
    <3>3. x = p * (b * k) + (p * d + r)
      BY <2>2, <2>3, <3>1, Zenon
    <3> HIDE DEF k, r
    <3>4. p * (b * k) \in Nat /\ p * d \in Nat /\ r \in Nat
      BY <2>1, <2>3, <2>4 DEF r
    <3>. QED  BY <3>2, <3>3, <3>4
  <2>6. x \in Nat
    <3> HIDE DEF q, r
    <3>. QED  BY <2>1, <2>3, <2>4, <2>5 DEF r
  <2>7. x \div p = q
    <3> HIDE DEF q
    <3>1. r \in 0 .. p - 1
      BY <2>3
    <3> HIDE DEF r
    <3>. QED  BY <2>1, <2>4, <2>5, <2>6, <3>1, DivModIs
  <2>8. q % b = d % b
    <3> HIDE DEF k
    <3> DEFINE e == d \div b
               t == d % b
    <3>1. e \in Nat /\ t \in 0 .. b - 1 /\ d = b * e + t
      BY <2>3, DivMod
    <3> HIDE DEF e, t
    <3>2. q = b * (k + e) + t /\ k + e \in Nat
      BY <2>3, <2>4, <3>1
    <3>3. q % b = t
      <4> HIDE DEF q
      <4> DEFINE m == k + e
      <4>1. m \in Nat /\ q = b * m + t
        BY <3>2
      <4> HIDE DEF m
      <4>. QED  BY <2>4, <3>1, <4>1, DivModIs
    <3>. QED  BY <3>3 DEF t
  <2>. QED  BY <2>7, <2>8, Zenon DEF d, p
<1>. QED  BY <1>1 DEF Spelled

\* t is u of n symbols and behind it v of m symbols.
JoinedAs(t, u, v, n, m) == /\ t \in Seq(Nat) /\ Len(t) = n + m
                           /\ \A i \in 1 .. n : t[i] = u[i]
                           /\ \A i \in 1 .. m : t[n + i] = v[i]
LEMMA JoinedText ==
  ASSUME NEW u \in Seq(Nat), NEW v \in Seq(Nat), NEW t, t = u \o v, NEW n, n = Len(u), NEW m, m = Len(v)
  PROVE  JoinedAs(t, u, v, n, m)
BY Joined DEF JoinedAs

\* Each digit by itself.
UnletteredAs(t, w, n) ==
  /\ t \in Seq(Nat) /\ Len(t) = n
  /\ \A i \in 1 .. n : t[i] = IF w[i] >= LetterA THEN 10 + w[i] - LetterA ELSE w[i]
LEMMA UnletteredIs ==
  ASSUME NEW w \in Seq(Nat), NEW n, n = Len(w)
  PROVE  UnletteredAs(Unlettered(w), w, n)
<1> DEFINE f(i) == IF w[i] >= LetterA THEN 10 + w[i] - LetterA ELSE w[i]
<1>1. n \in Nat /\ \A i \in 1 .. n : w[i] \in Nat
  BY ElementOfSeq, LenProperties
<1>2. \A i \in 1 .. n : f(i) \in Nat
  BY <1>1 DEF LetterA
<1>3. Unlettered(w) = [i \in 1 .. n |-> f(i)]
  BY DEF Unlettered
<1> HIDE DEF f
<1>4. /\ [i \in 1 .. n |-> f(i)] \in Seq(Nat)
      /\ Len([i \in 1 .. n |-> f(i)]) = n /\ \A i \in 1 .. n : [j \in 1 .. n |-> f(j)][i] = f(i)
  BY <1>1, <1>2
<1>. QED  BY <1>3, <1>4 DEF UnletteredAs, f

\* The digits the letters stand for.
LEMMA UnletteredText ==
  ASSUME NEW a \in Digits, NEW w \in Seq(Nat), NEW z \in Seq(Nat), \A i \in 1 .. Len(z) : z[i] = 0
  PROVE  Unlettered(<<a>> \o (Lettered(w) \o z)) = <<a>> \o (w \o z)
<1> DEFINE one == <<a>>
           f == Lettered(w)
           t == one \o (f \o z)
           u == one \o (w \o z)
           n == Len(w)
           m == Len(z)
<1>1. one \in Seq(Nat) /\ Len(one) = 1 /\ one[1] = a /\ a \in Nat /\ a < LetterA
  BY DEF Digits, LetterA
<1>2. f \in Seq(Nat) /\ Len(f) = n /\ n \in Nat /\ m \in Nat
      /\ \A i \in 1 .. n : f[i] = (IF w[i] > 9 THEN LetterA + w[i] - 10 ELSE w[i]) /\ w[i] \in Nat
  BY LetteredIs, LenProperties, ElementOfSeq
<1> HIDE DEF one, f, n, m
<1> DEFINE fz == f \o z
           wz == w \o z
           l == n + m
           k == 1
<1>3. JoinedAs(fz, f, z, n, m)
  <2>1. n = Len(f) /\ m = Len(z) /\ fz = f \o z
    BY <1>2 DEF m
  <2> HIDE DEF fz
  <2>. QED  BY <1>2, <2>1, JoinedText, Zenon
<1>4. JoinedAs(wz, w, z, n, m)
  <2>1. n = Len(w) /\ m = Len(z) /\ wz = w \o z
    BY DEF n, m
  <2> HIDE DEF wz
  <2>. QED  BY <2>1, JoinedText, Zenon
<1> HIDE DEF fz, wz, l, k
<1>5. JoinedAs(t, one, fz, k, l)
  <2>1. k = Len(one) /\ l = Len(fz) /\ t = one \o fz /\ fz \in Seq(Nat)
    BY <1>1, <1>3 DEF fz, l, k, JoinedAs
  <2> HIDE DEF t
  <2>. QED  BY <1>1, <2>1, JoinedText, Zenon
<1>6. JoinedAs(u, one, wz, k, l)
  <2>1. k = Len(one) /\ l = Len(wz) /\ u = one \o wz /\ wz \in Seq(Nat)
    BY <1>1, <1>4 DEF wz, l, k, JoinedAs
  <2> HIDE DEF u
  <2>. QED  BY <1>1, <2>1, JoinedText, Zenon
<1> HIDE DEF t, u
<1> DEFINE s == Unlettered(t)
           d == 1 + l
<1>7. UnletteredAs(s, t, d)
  <2>1. d = Len(t) /\ t \in Seq(Nat)
    BY <1>5 DEF JoinedAs, k
  <2> HIDE DEF d
  <2>. QED  BY <2>1, UnletteredIs, Zenon
<1> HIDE DEF s
<1>8. ASSUME NEW i \in 1 .. d PROVE s[i] = u[i]
  <2>1. s[i] = IF t[i] >= LetterA THEN 10 + t[i] - LetterA ELSE t[i]
    BY <1>7 DEF UnletteredAs
  <2>2. l \in Nat /\ i \in 1 .. 1 + l /\ l = n + m
    BY <1>2 DEF l
  <2>3. CASE i = 1
    <3>1. t[1] = one[1] /\ u[1] = one[1]
      <4>1. \A j \in 1 .. k : t[j] = one[j] /\ u[j] = one[j]
        BY <1>5, <1>6, Zenon DEF JoinedAs
      <4>2. k \in 1 .. k
        BY DEF k
      <4>3. t[k] = one[k] /\ u[k] = one[k]
        BY <4>1, <4>2, Zenon
      <4>. QED  BY <4>3 DEF k
    <3>2. t[i] = a /\ u[i] = a
      BY <1>1, <2>3, <3>1
    <3>3. ~ (a >= LetterA)
      BY DEF Digits, LetterA
    <3>. QED  BY <2>1, <3>2, <3>3
  <2>4. CASE i # 1 /\ i - 1 <= n
    <3> DEFINE j == i - 1
    <3>1. j \in 1 .. n /\ j \in 1 .. l /\ 1 + j = i
      BY <1>2, <2>2, <2>4
    <3> HIDE DEF j
    <3>2. t[i] = fz[j] /\ u[i] = wz[j]
      BY <1>5, <1>6, <3>1 DEF JoinedAs, k
    <3>3. fz[j] = f[j] /\ wz[j] = w[j]
      BY <1>3, <1>4, <3>1 DEF JoinedAs
    <3>4. f[j] = (IF w[j] > 9 THEN LetterA + w[j] - 10 ELSE w[j]) /\ w[j] \in Nat
      BY <1>2, <3>1
    <3> DEFINE e == f[j]
               c == w[j]
    <3>5. (IF e >= LetterA THEN 10 + e - LetterA ELSE e) = c
      <4>1. c \in Nat /\ e = IF c > 9 THEN LetterA + c - 10 ELSE c
        BY <3>4
      <4>2. LetterA \in Nat /\ LetterA > 9
        BY DEF LetterA
      <4> HIDE DEF e, c
      <4>3. CASE c > 9
        BY <4>1, <4>2, <4>3
      <4>4. CASE ~ (c > 9)
        BY <4>1, <4>2, <4>4
      <4>. QED  BY <4>3, <4>4
    <3>. QED  BY <2>1, <3>2, <3>3, <3>5
  <2>5. CASE i # 1 /\ ~ (i - 1 <= n)
    <3> DEFINE j == i - 1 - n
    <3>1. j \in 1 .. m /\ n + j \in 1 .. l /\ 1 + (n + j) = i
      BY <1>2, <2>2, <2>5
    <3> HIDE DEF j
    <3>2. t[i] = fz[n + j] /\ u[i] = wz[n + j]
      BY <1>5, <1>6, <3>1 DEF JoinedAs, k
    <3>3. fz[n + j] = z[j] /\ wz[n + j] = z[j] /\ z[j] = 0
      BY <1>3, <1>4, <3>1 DEF JoinedAs, m
    <3>. QED  BY <2>1, <3>2, <3>3 DEF LetterA
  <2>. QED  BY <2>3, <2>4, <2>5
<1>9. s = u
  <2>1. /\ s \in Seq(Nat) /\ u \in Seq(Nat) /\ Len(s) = Len(u) /\ Len(s) = d
    BY <1>6, <1>7 DEF JoinedAs, UnletteredAs, k
  <2>2. \A i \in 1 .. Len(s) : s[i] = u[i]
    BY <1>8, <2>1
  <2>. QED  BY <2>1, <2>2, SeqEqual
<1>. QED  BY <1>9 DEF s, t, u, one, f

LEMMA ValueOfOne ==
  ASSUME NEW a \in Nat, NEW b \in Nat
  PROVE  ValueOf(<<a>>, b) = a
<1> DEFINE w == <<a>>
           n == 1
<1>1. Numbers(w, n) /\ w[1] = a
  BY DEF Numbers
<1> HIDE DEF w, n
<1>2. PICK v : Values(v, w, b, n) /\ ValueOf(w, b) = v[n]
  BY <1>1, ValueSteps
<1>3. v[0] = 0 /\ v[1] = v[1 - 1] * b + w[1]
  BY <1>2 DEF Values, n
<1>4. v[1] = 0 * b + a
  BY <1>1, <1>3
<1>5. 0 * b + a = a
  OBVIOUS
<1>. QED  BY <1>2, <1>4, <1>5 DEF w, n

\* Digits in base b: a first one, the last n of x, and zeros.
LEMMA ValueOfParts ==
  ASSUME NEW b \in Nat \ {0, 1}, NEW a \in Nat, NEW x \in Nat, NEW n \in Nat, NEW c \in Nat,
         NEW w \in Seq(Nat), NEW z \in Seq(Nat), Len(w) = n, Len(z) = c, PowersUpTo(b, n), PowersUpTo(b, c),
         ValueOf(w, b) = x, \A i \in 1 .. Len(z) : z[i] = 0
  PROVE  ValueOf(<<a>> \o (w \o z), b) = (b ^ n * a + x) * b ^ c
<1> DEFINE one == <<a>>
<1>1. one \in Seq(Nat)
  OBVIOUS
<1>2. ValueOf(one, b) = a
  BY ValueOfOne
<1> HIDE DEF one
<1>3. one \o w \in Seq(Nat)
  BY <1>1, Joining
<1>4. (one \o w) \o z = one \o (w \o z)
  BY <1>1, Grouping, Zenon
<1>5. ValueOf(one \o w, b) = a * b ^ n + x
  <2>1. PowersUpTo(b, Len(w)) /\ b \in Nat
    BY Zenon
  <2>2. ValueOf(one \o w, b) = ValueOf(one, b) * b ^ Len(w) + ValueOf(w, b)
    BY <1>1, <2>1, ValueConcat
  <2>. QED  BY <1>2, <2>2, Zenon
<1> DEFINE t == one \o w
<1>6. ValueOf(t \o z, b) = ValueOf(t, b) * b ^ c
  <2>1. t \in Seq(Nat)
    BY <1>3
  <2> HIDE DEF t
  <2>2. PowersUpTo(b, Len(z)) /\ b \in Nat
    BY Zenon
  <2>3. ValueOf(t \o z, b) = ValueOf(t, b) * b ^ Len(z) + ValueOf(z, b)
    BY <2>1, <2>2, ValueConcat
  <2>4. ValueOf(z, b) = 0
    BY <2>2, ValueZeros
  <2>5. ValueOf(t, b) \in Nat /\ b ^ c \in Nat
    <3>1. b \in Nat \ {0} /\ c \in 0 .. c
      OBVIOUS
    <3>2. b ^ c \in Nat
      BY <3>1, PowerPositive
    <3>. QED  BY <2>1, <2>2, <3>2, ValueType
  <2>6. ValueOf(t \o z, b) = ValueOf(t, b) * b ^ c + 0
    BY <2>3, <2>4, Zenon
  <2> DEFINE v == ValueOf(t, b)
             p == b ^ c
  <2> HIDE DEF v, p
  <2>7. v * p + 0 = v * p
    BY <2>5 DEF v, p
  <2>. QED  BY <2>6, <2>7, Zenon DEF v, p
<1>7. a * b ^ n = b ^ n * a
  <2>1. b \in Nat \ {0} /\ n \in 0 .. n
    OBVIOUS
  <2>2. b ^ n \in Nat
    BY <2>1, PowerPositive
  <2>. QED  BY <2>2
<1>. QED  BY <1>4, <1>5, <1>6, <1>7, Zenon DEF t, one

\* The digits of %a are worth the number rounded, moved to the places shown.
LEMMA HexValue ==
  ASSUME rounded \in Nat, Kept \in 0 .. HexDigits, places \in Nat, Kept <= places,
         places <= HexDigits + MaxPrecision, HexLead \in Digits
  PROVE  ValueOf(Unlettered(<<HexLead>> \o HexFrac), Sixteen) = rounded * Sixteen ^ (places - Kept)
<1> DEFINE b == Sixteen
           n == Kept
           c == places - Kept
           p == b ^ n
           h == HexLead
           f == rounded % p
           w == Spelled(rounded, b, n)
           z == Zeros(c)
<1>1. /\ b \in Nat \ {0, 1} /\ n \in Nat /\ c \in Nat /\ PowersUpTo(b, n) /\ PowersUpTo(b, c) /\ h \in Nat
  <2>1. n \in Nat /\ c \in Nat /\ h \in Nat
    BY DEF Digits
  <2>2. PowersUpTo(b, HexDigits + MaxPrecision) /\ b \in Nat \ {0, 1} /\ HexDigits \in Nat /\ MaxPrecision \in Nat
    BY HexAssumption, SixteenIs, PrintfAssumption
  <2>3. n <= HexDigits + MaxPrecision /\ c <= HexDigits + MaxPrecision
    BY <2>1, <2>2
  <2> HIDE DEF b, n, c, h
  <2>4. PowersUpTo(b, n) /\ PowersUpTo(b, c)
    BY <2>1, <2>2, <2>3 DEF PowersUpTo
  <2>. QED  BY <2>1, <2>2, <2>4
<1>2. p \in Nat \ {0}
  <2> HIDE DEF b, n
  <2>1. n \in 0 .. n /\ b \in Nat \ {0}
    BY <1>1
  <2>. QED  BY <1>1, <2>1, PowerPositive
<1>3. h = rounded \div p
  BY DEF HexLead
<1>4. rounded = p * h + f /\ f \in 0 .. p - 1 /\ f \in Nat
  <2> HIDE DEF p, h
  <2>. QED  BY <1>2, <1>3, DivMod
<1>5. w = Spelled(f, b, n)
  <2>1. rounded = b ^ n * h + f
    BY <1>4
  <2> HIDE DEF b, n, h, f, p
  <2>2. Spelled(rounded, b, n) = Spelled(f, b, n)
    BY <1>1, <1>4, <2>1, SpelledRest
  <2>. QED  BY <2>2
<1>6. w \in Seq(Nat) /\ Len(w) = n /\ ValueOf(w, b) = f
  <2>1. f < b ^ n
    BY <1>2, <1>4
  <2> HIDE DEF b, n, f, p
  <2>2. Spelled(f, b, n) \in Seq(Nat) /\ Len(Spelled(f, b, n)) = n
    BY <1>1, <1>4, SpelledType
  <2>3. ValueOf(Spelled(f, b, n), b) = f
    BY <1>1, <1>4, <2>1, SpelledValue
  <2>. QED  BY <1>5, <2>2, <2>3, Zenon
<1>7. z \in Seq(Nat) /\ Len(z) = c /\ \A i \in 1 .. Len(z) : z[i] = 0
  <2> HIDE DEF c
  <2>1. z \in Seq(Nat) /\ Len(z) = c /\ \A i \in 1 .. c : z[i] = 0
    BY <1>1, ZerosAre
  <2>. QED  BY <2>1, Zenon
<1>8. Unlettered(<<h>> \o HexFrac) = <<h>> \o (w \o z)
  <2>1. HexFrac = Lettered(w) \o z
    BY DEF HexFrac
  <2> HIDE DEF w, z, h
  <2>2. Unlettered(<<h>> \o (Lettered(w) \o z)) = <<h>> \o (w \o z)
    <3>1. h \in Digits
      BY DEF h
    <3>. QED  BY <1>6, <1>7, <3>1, UnletteredText
  <2>. QED  BY <2>1, <2>2, Zenon
<1> HIDE DEF b, n, c, h, f, w, z
<1>9. ValueOf(<<h>> \o (w \o z), b) = (b ^ n * h + f) * b ^ c
  BY <1>1, <1>4, <1>6, <1>7, ValueOfParts
<1>10. ValueOf(<<h>> \o (w \o z), b) = rounded * b ^ c
  BY <1>4, <1>9, Zenon DEF p
<1>. QED  BY <1>8, <1>10, Zenon DEF b, n, c, h

\* Its last digit is that of the number.
LEMMA HexLast ==
  ASSUME rounded \in Nat, Kept \in 1 .. HexDigits, places = Kept, rounded % Sixteen # 0
  PROVE  HexFrac[Len(HexFrac)] # 0
<1> DEFINE n == Kept
           b == Sixteen
           w == Spelled(rounded, b, n)
<1>1. n \in Nat \ {0} /\ b \in Nat \ {0, 1} /\ PowersUpTo(b, HexDigits) /\ HexDigits \in Nat
  BY SixteenIs
<1>2. PowersUpTo(b, n)
  BY <1>1 DEF PowersUpTo
<1>3. w \in Seq(Nat) /\ Len(w) = n /\ w[n] # 0 /\ w[n] \in Nat
  <2> HIDE DEF n, b
  <2>1. /\ w \in Seq(Nat) /\ Len(w) = n
        /\ \A i \in 1 .. n : Spelled(rounded, b, n)[i] = (rounded \div b ^ (n - i)) % b
    BY <1>1, <1>2, SpelledType
  <2>2. n \in 1 .. n /\ n - n = 0 /\ b ^ 0 = 1 /\ rounded \div 1 = rounded
    BY <1>1, <1>2 DEF PowersUpTo
  <2>3. w[n] = (rounded \div b ^ (n - n)) % b
    BY <2>1, <2>2, Zenon
  <2>4. w[n] = rounded % b
    BY <2>2, <2>3, Zenon
  <2>5. rounded % b \in Nat
    BY <1>1
  <2>. QED  BY <2>1, <2>4, <2>5 DEF b
<1> DEFINE f == Lettered(w)
           z == Zeros(places - Kept)
<1>4. HexFrac = f \o z
  BY DEF HexFrac
<1> HIDE DEF w, n
<1>5. f \in Seq(Nat) /\ Len(f) = n /\ f[n] # 0
  <2>1. /\ f \in Seq(Nat) /\ Len(f) = Len(w)
        /\ \A i \in 1 .. Len(w) : f[i] = IF w[i] > 9 THEN LetterA + w[i] - 10 ELSE w[i]
    BY <1>3, LetteredIs
  <2>2. n \in 1 .. Len(w)
    BY <1>1, <1>3
  <2>3. f[n] = IF w[n] > 9 THEN LetterA + w[n] - 10 ELSE w[n]
    BY <2>1, <2>2, Zenon
  <2>4. f[n] # 0
    <3> DEFINE x == w[n]
               y == f[n]
    <3>1. x \in Nat /\ x # 0 /\ y = IF x > 9 THEN LetterA + x - 10 ELSE x
      BY <1>3, <2>3
    <3> HIDE DEF x, y
    <3>2. y # 0
      BY <3>1 DEF LetterA
    <3>. QED  BY <3>2 DEF y
  <2>. QED  BY <1>3, <2>1, <2>4
<1>6. z = <<>>
  BY <1>1, NoZeros DEF n
<1> HIDE DEF f, z
<1>7. f \o z = f
  BY <1>5, <1>6, ConcatEmptySeq
<1>. QED  BY <1>4, <1>5, <1>7

\* The significand and its unit: two to this power.
Mantissa == Leading * Hidden + Fraction
Unit == IF bits < Hidden THEN 0 ELSE (bits \div Hidden) - 1

LEMMA MostBitsAre ==
  /\ MostBits \in Nat /\ Prec + EMax - EMin <= MostBits /\ Prec - 1 + (EMax - EMin) <= MostBits
  /\ PowersUpTo(2, MostBits) /\ \A k \in 0 .. MostBits : 2 ^ k \in Nat \ {0}
<1>1. /\ Prec \in Nat /\ EMin \in Int /\ EMax \in Int /\ EMin < EMax /\ HexBits \in Nat /\ MaxPrecision \in Nat
      /\ PowersUpTo(2, MostBits)
  BY FormatAssumption, HexAssumption, PrintfAssumption
<1>2. HexBits * MaxPrecision \in Nat
  BY <1>1
<1>3. MostBits \in Nat /\ Prec + EMax - EMin <= MostBits /\ Prec - 1 + (EMax - EMin) <= MostBits
  BY <1>1, <1>2 DEF MostBits
<1>4. \A k \in 0 .. MostBits : 2 ^ k \in Nat \ {0}
  <2> DEFINE two == 2
  <2>1. two \in Nat \ {0} /\ PowersUpTo(two, MostBits)
    BY <1>1
  <2> HIDE DEF two
  <2>2. \A k \in 0 .. MostBits : two ^ k \in Nat \ {0}
    BY <1>3, <2>1, PowerPositive
  <2>. QED  BY <2>2 DEF two
<1>. QED  BY <1>1, <1>3, <1>4

LEMMA UnitsAre ==
  ASSUME bits \in FiniteBits, bits \in Nat
  PROVE  /\ Mantissa \in Nat /\ Unit \in 0 .. EMax - EMin
         /\ Units(bits) = Mantissa * 2 ^ Unit
         /\ bits # 0 => HexExp10 - EMin = Unit
         /\ bits = 0 => Mantissa = 0 /\ Unit = 0 /\ HexExp10 = 0
         /\ HexExp10 \in EMin .. EMax
<1>1. /\ Hidden \in Nat \ {0} /\ EMax + Bias + 1 \in Nat /\ EMin \in Int /\ EMax \in Int /\ EMin < EMax
      /\ Bias = 1 - EMin /\ EMin <= 0 /\ 0 <= EMax
  BY Format, FormatAssumption, HexAssumption
<1> DEFINE d == bits \div Hidden
           f == bits % Hidden
<1>2. d \in Nat /\ f \in 0 .. Hidden - 1 /\ bits = Hidden * d + f
  BY <1>1, DivMod
<1>3. Fraction = f /\ Leading = (IF bits < Hidden THEN 0 ELSE 1)
  BY DEF Fraction, Leading
<1>4. Units(bits) = IF d = 0 THEN f ELSE (Hidden + f) * 2 ^ (d - 1)
  BY DEF Units
<1>5. d < EMax + Bias + 1
  <2>1. bits < Hidden * (EMax + Bias + 1)
    BY Format DEF FiniteBits
  <2>. QED  BY <1>1, <2>1, QuotientBelow
<1>6. 2 ^ 0 = 1
  BY MostBitsAre DEF PowersUpTo
<1>7. HexExp10 = CASE bits = 0 -> 0
                   [] bits # 0 /\ bits < Hidden -> EMin
                   [] OTHER -> d - Bias
  BY DEF HexExp10
<1>8. Unit = IF bits < Hidden THEN 0 ELSE d - 1
  BY DEF Unit
<1> HIDE DEF d, f
<1>9. CASE bits < Hidden
  <2>1. d = 0 /\ f = bits
    <3>1. bits = Hidden * 0 + bits /\ bits \in 0 .. Hidden - 1 /\ 0 \in Nat
      BY <1>1, <1>9
    <3>2. bits \div Hidden = 0 /\ bits % Hidden = bits
      BY <1>1, <3>1, DivModIs
    <3>. QED  BY <3>2 DEF d, f
  <2>2. Leading = 0 /\ Unit = 0
    BY <1>3, <1>8, <1>9
  <2>3. Mantissa = f /\ f \in Nat
    <3>1. 0 * Hidden + f = f /\ f \in Nat
      BY <1>1, <1>2
    <3>2. Mantissa = 0 * Hidden + f
      BY <1>3, <2>2 DEF Mantissa
    <3>. QED  BY <3>1, <3>2
  <2>4. Units(bits) = Mantissa * 2 ^ Unit
    <3>1. Units(bits) = f
      BY <1>4, <2>1
    <3>2. f * 1 = f
      BY <2>3
    <3>. QED  BY <1>6, <2>2, <2>3, <3>1, <3>2, Zenon
  <2>5. bits # 0 => HexExp10 = EMin
    BY <1>7, <1>9
  <2>6. bits = 0 => HexExp10 = 0
    BY <1>7
  <2>. QED  BY <1>1, <2>1, <2>2, <2>3, <2>4, <2>5, <2>6
<1>10. CASE ~ (bits < Hidden)
  <2>1. d # 0
    <3> SUFFICES ASSUME d = 0 PROVE FALSE
      OBVIOUS
    <3>1. Hidden * d = 0
      BY <1>1
    <3>. QED  BY <1>1, <1>2, <1>10, <3>1
  <2>2. Leading = 1 /\ Unit = d - 1 /\ HexExp10 = d - Bias /\ bits # 0
    BY <1>1, <1>3, <1>7, <1>8, <1>10
  <2>3. Mantissa = Hidden + f /\ Mantissa \in Nat
    <3>1. 1 * Hidden + f = Hidden + f /\ Hidden + f \in Nat
      BY <1>1, <1>2
    <3>2. Mantissa = 1 * Hidden + f
      BY <1>3, <2>2 DEF Mantissa
    <3>. QED  BY <3>1, <3>2
  <2>4. Units(bits) = Mantissa * 2 ^ Unit
    BY <1>4, <2>1, <2>2, <2>3, Zenon
  <2>. QED  BY <1>1, <1>2, <1>5, <2>1, <2>2, <2>3, <2>4
<1>. QED  BY <1>9, <1>10

\* What is left over and the half of it grow alike.
LEMMA RoundedScaled ==
  ASSUME NEW n \in Nat, NEW d \in Nat, NEW u \in Nat, d + u <= MostBits
  PROVE  RoundedBits(n * 2 ^ u, d + u) = RoundedBits(n, d)
<1> DEFINE p == 2 ^ u
           q == 2 ^ d
           t == 2 ^ (d + u)
           down == n \div q
           r == n % q
<1>1. p \in Nat \ {0} /\ q \in Nat \ {0}
  <2>1. u \in 0 .. MostBits /\ d \in 0 .. MostBits
    BY MostBitsAre
  <2>. QED  BY <2>1, MostBitsAre
<1>2. t = q * p
  <2> DEFINE two == 2
  <2>1. two \in Nat /\ PowersUpTo(two, MostBits) /\ MostBits \in Nat
    BY MostBitsAre
  <2> HIDE DEF two
  <2>2. two ^ (d + u) = two ^ d * two ^ u
    BY <2>1, PowerSum
  <2>. QED  BY <2>2 DEF two
<1> HIDE DEF p, q, t
<1>3. down \in Nat /\ r \in 0 .. q - 1 /\ r \in Nat /\ n = q * down + r
  BY <1>1, DivMod
<1> HIDE DEF down, r
<1> DEFINE x == n * p
           s == r * p
<1>4. t \in Nat \ {0} /\ x \in Nat /\ s \in Nat /\ s < t
  <2>1. r < q
    BY <1>1, <1>3
  <2>2. r * p < q * p /\ r * p \in Nat /\ n * p \in Nat /\ q * p \in Nat
    BY <1>1, <1>3, <2>1, Products
  <2>. QED  BY <1>2, <2>2
<1>5. x = t * down + s
  <2>1. (q * down + r) * p = (q * down) * p + r * p
    BY <1>1, <1>3
  <2>2. (q * down) * p = (q * p) * down
    BY <1>1, <1>3, Swapped
  <2>. QED  BY <1>2, <1>3, <2>1, <2>2, Zenon
<1> HIDE DEF x
<1>6. x \div t = down /\ x % t = s
  <2> HIDE DEF s
  <2>1. s \in 0 .. t - 1
    BY <1>4
  <2>. QED  BY <1>3, <1>4, <1>5, <2>1, DivModIs
<1>7. (s # 0 <=> r # 0) /\ (2 * s > t <=> 2 * r > q) /\ (2 * s = t <=> 2 * r = q)
  <2>1. r = 0 <=> r * p = 0 * p
    BY <1>1, <1>3, Products
  <2>2. 0 * p = 0 /\ (2 * r) * p = 2 * (r * p) /\ 2 * r \in Nat
    BY <1>1, <1>3
  <2>3. (q < 2 * r <=> q * p < (2 * r) * p) /\ (2 * r = q <=> (2 * r) * p = q * p)
    BY <1>1, <2>2, Products
  <2>4. q * p \in Nat /\ 2 * s \in Nat /\ 2 * r \in Nat /\ q \in Nat
    BY <1>1, <1>2, <1>4, <2>2
  <2>. QED  BY <1>2, <2>1, <2>2, <2>3, <2>4
<1> HIDE DEF s
<1> DEFINE up1 == CASE mode = "TOWARD_ZERO" -> FALSE
                    [] mode = "TOWARD_POS" -> ~negative /\ s # 0
                    [] mode = "TOWARD_NEG" -> negative /\ s # 0
                    [] OTHER -> 2 * s > t \/ (2 * s = t /\ down % 2 = 1)
           up2 == CASE mode = "TOWARD_ZERO" -> FALSE
                    [] mode = "TOWARD_POS" -> ~negative /\ r # 0
                    [] mode = "TOWARD_NEG" -> negative /\ r # 0
                    [] OTHER -> 2 * r > q \/ (2 * r = q /\ down % 2 = 1)
<1>8. RoundedBits(x, d + u) = (IF up1 THEN down + 1 ELSE down)
  <2>1. x \div 2 ^ (d + u) = down /\ x % 2 ^ (d + u) = s /\ t = 2 ^ (d + u)
    BY <1>6 DEF t
  <2>. QED  BY <2>1, Zenon DEF RoundedBits
<1>9. RoundedBits(n, d) = (IF up2 THEN down + 1 ELSE down)
  <2>1. n \div 2 ^ d = down /\ n % 2 ^ d = r /\ q = 2 ^ d
    BY DEF down, r, q
  <2>. QED  BY <2>1, Zenon DEF RoundedBits
<1>10. RoundedBits(x, d + u) = RoundedBits(n, d)
  <2>1. CASE mode = "TOWARD_ZERO"
    <3>1. ~ up1 /\ ~ up2
      BY <2>1, Zenon
    <3> HIDE DEF up1, up2
    <3>. QED  BY <1>8, <1>9, <3>1, Zenon
  <2>2. CASE mode = "TOWARD_POS"
    <3>1. mode # "TOWARD_ZERO"
      BY <2>2
    <3>2. (up1 <=> ~ negative /\ s # 0) /\ (up2 <=> ~ negative /\ r # 0)
      BY <2>2, <3>1, Zenon
    <3> HIDE DEF up1, up2
    <3>3. up1 <=> up2
      BY <1>7, <3>2
    <3>a. CASE up1
      BY <1>8, <1>9, <3>3, <3>a
    <3>b. CASE ~ up1
      BY <1>8, <1>9, <3>3, <3>b
    <3>. QED  BY <3>a, <3>b
  <2>3. CASE mode = "TOWARD_NEG"
    <3>1. mode # "TOWARD_ZERO" /\ mode # "TOWARD_POS"
      BY <2>3
    <3>2. (up1 <=> negative /\ s # 0) /\ (up2 <=> negative /\ r # 0)
      BY <2>3, <3>1, Zenon
    <3> HIDE DEF up1, up2
    <3>3. up1 <=> up2
      BY <1>7, <3>2
    <3>a. CASE up1
      BY <1>8, <1>9, <3>3, <3>a
    <3>b. CASE ~ up1
      BY <1>8, <1>9, <3>3, <3>b
    <3>. QED  BY <3>a, <3>b
  <2>4. CASE mode # "TOWARD_ZERO" /\ mode # "TOWARD_POS" /\ mode # "TOWARD_NEG"
    <3>1. /\ up1 <=> (2 * s > t \/ (2 * s = t /\ down % 2 = 1))
          /\ up2 <=> (2 * r > q \/ (2 * r = q /\ down % 2 = 1))
      BY <2>4, Zenon
    <3> HIDE DEF up1, up2
    <3>2. up1 <=> up2
      BY <1>7, <3>1
    <3>a. CASE up1
      BY <1>8, <1>9, <3>2, <3>a
    <3>b. CASE ~ up1
      BY <1>8, <1>9, <3>2, <3>b
    <3>. QED  BY <3>a, <3>b
  <2>. QED  BY <2>1, <2>2, <2>3, <2>4, Zenon
<1>. QED  BY <1>10 DEF x, p

\* A number cut in two, with a digit before it.
LEMMA CutNumber ==
  ASSUME NEW cut \in Nat \ {0}, NEW most \in Nat \ {0}, NEW lead \in 0 .. 1, NEW kept \in Nat,
         NEW rest \in 0 .. cut - 1, NEW f \in Nat, f = cut * kept + rest, NEW m, m = lead * (cut * most) + f
  PROVE  /\ m = cut * (most * lead + kept) + rest
         /\ m \div cut = most * lead + kept /\ m % cut = rest
<1> DEFINE g == most * lead
           h == g + kept
<1>1. g \in Nat /\ lead * (cut * most) = cut * g
  <2>1. lead = 0 \/ lead = 1
    OBVIOUS
  <2>2. CASE lead = 0
    BY <2>2
  <2>3. CASE lead = 1
    BY <2>3
  <2>. QED  BY <2>1, <2>2, <2>3
<1> HIDE DEF g
<1>2. cut * h = cut * g + cut * kept /\ cut * g \in Nat /\ cut * kept \in Nat /\ h \in Nat
  BY <1>1
<1> DEFINE a == cut * g
           e == cut * kept
           t == cut * h
<1>3. m = a + f /\ f = e + rest /\ t = a + e /\ a \in Nat /\ e \in Nat /\ rest \in Nat
  BY <1>1, <1>2
<1> HIDE DEF a, e, t
<1>4. m = t + rest /\ m \in Nat
  BY <1>3
<1>5. m = cut * h + rest /\ h \in Nat
  BY <1>2, <1>4 DEF t
<1> HIDE DEF h
<1>6. m \div cut = h /\ m % cut = rest
  BY <1>4, <1>5, DivModIs
<1>. QED  BY <1>5, <1>6 DEF g, h

CutAs(m, cut, most, lead, kept, rest) ==
  /\ m = cut * (most * lead + kept) + rest
  /\ m \div cut = most * lead + kept /\ m % cut = rest
Cutting(m, f, cut, most, lead, kept, rest) ==
  m = lead * (cut * most) + f /\ f = cut * kept + rest
LEMMA CutNumberAs ==
  ASSUME NEW cut \in Nat \ {0}, NEW most \in Nat \ {0}, NEW lead \in 0 .. 1, NEW kept \in Nat,
         NEW rest \in 0 .. cut - 1, NEW f \in Nat, NEW m, Cutting(m, f, cut, most, lead, kept, rest)
  PROVE  CutAs(m, cut, most, lead, kept, rest)
BY CutNumber DEF CutAs, Cutting

\* The hidden bit and the fraction, cut where the digits kept end.
LEMMA HexCut ==
  ASSUME bits \in Nat, precision \in Int, NEW c, c = HexDigits - Kept, NEW cut, cut = Sixteen ^ c,
         NEW most, most = Sixteen ^ Kept, NEW kept, kept = Fraction \div cut, NEW rest, rest = Fraction % cut
  PROVE  /\ c \in 0 .. HexDigits /\ Kept \in 0 .. HexDigits /\ Kept \in Nat
         /\ cut \in Nat \ {0} /\ most \in Nat \ {0} /\ cut = 2 ^ (HexBits * c) /\ Hidden = cut * most
         /\ kept \in Nat /\ kept < most /\ rest \in 0 .. cut - 1 /\ rest \in Nat /\ Fraction = cut * kept + rest
         /\ Mantissa = cut * (most * Leading + kept) + rest
         /\ Mantissa \div cut = most * Leading + kept /\ Mantissa % cut = rest
         /\ Leading \in 0 .. 1 /\ Fraction \in Nat
<1>1. HexDigits \in Nat \ {0} /\ Sixteen \in Nat \ {0, 1} /\ PowersUpTo(Sixteen, HexDigits)
      /\ HexBits \in Nat \ {0} /\ HexBits * HexDigits = Prec - 1
  BY SixteenIs
<1>2. \A k \in 0 .. HexDigits : Sixteen ^ k \in Nat \ {0} /\ Sixteen ^ k = 2 ^ (HexBits * k)
  BY HexRoundedType
<1>3. /\ Fraction \in 0 .. Hidden - 1 /\ Fraction \in Nat /\ Leading \in 0 .. 1
      /\ Kept \in 0 .. HexDigits /\ c \in 0 .. HexDigits /\ c + Kept = HexDigits /\ c \in Nat /\ Kept \in Nat
  <2>1. Fraction \in 0 .. Hidden - 1 /\ Leading \in 0 .. 1 /\ Kept \in 0 .. HexDigits
    BY HexType
  <2>. QED  BY <1>1, <2>1
<1>4. cut \in Nat \ {0} /\ most \in Nat \ {0} /\ cut = 2 ^ (HexBits * c)
  BY <1>2, <1>3
<1>5. Hidden = cut * most
  <2>1. Hidden = Sixteen ^ HexDigits
    BY <1>1, <1>2 DEF Hidden
  <2>2. Sixteen ^ (c + Kept) = Sixteen ^ c * Sixteen ^ Kept
    BY <1>1, <1>3, PowerSum
  <2>. QED  BY <1>3, <2>1, <2>2
<1>6. kept \in Nat /\ rest \in 0 .. cut - 1 /\ rest \in Nat /\ Fraction = cut * kept + rest
  BY <1>3, <1>4, DivMod
<1>7. kept < most
  <2>1. Fraction < cut * most
    BY <1>3, <1>5, Format
  <2>. QED  BY <1>3, <1>4, <2>1, QuotientBelow
<1>8. /\ Mantissa = cut * (most * Leading + kept) + rest
      /\ Mantissa \div cut = most * Leading + kept /\ Mantissa % cut = rest
  <2>1. Mantissa = Leading * (cut * most) + Fraction
    BY <1>5, Zenon DEF Mantissa
  <2> DEFINE m == Mantissa
             f == Fraction
             lead == Leading
  <2>2. m = lead * (cut * most) + f /\ f = cut * kept + rest /\ f \in Nat /\ lead \in 0 .. 1
    BY <1>3, <1>6, <2>1, Zenon
  <2> HIDE DEF m, f, lead
  <2>3. Cutting(m, f, cut, most, lead, kept, rest)
    BY <2>2 DEF Cutting
  <2>4. CutAs(m, cut, most, lead, kept, rest)
    BY <1>4, <1>6, <2>2, <2>3, CutNumberAs, Zenon
  <2>. QED  BY <2>4, Zenon DEF m, f, lead, CutAs
<1>. QED  BY <1>3, <1>4, <1>5, <1>6, <1>7, <1>8, Zenon

\* The cut is even, or nothing is cut.
LEMMA EvenCut ==
  ASSUME NEW c \in 0 .. HexDigits, NEW cut, cut = Sixteen ^ c, cut > 1
  PROVE  \E k \in Nat : cut = 2 * k
<1>1. HexDigits \in Nat \ {0} /\ Sixteen \in Nat \ {0, 1} /\ PowersUpTo(Sixteen, HexDigits) /\ HexBits \in Nat \ {0}
  BY SixteenIs
<1>2. \E k \in Nat : Sixteen = 2 * k
  <2>1. HexBits <= MaxDigits /\ MaxDigits \in Nat /\ PowersUpTo(2, MaxDigits)
    <3>1. HexBits <= HexBits * HexDigits
      BY <1>1, Products
    <3>2. HexBits * HexDigits = Prec - 1 /\ Prec <= MaxDigits /\ Prec \in Nat /\ MaxDigits \in Nat
      BY SixteenIs, SizeAssumption, FormatAssumption
    <3>. QED  BY <1>1, <3>1, <3>2, PowersAssumption
  <2>2. HexBits - 1 \in 0 .. MaxDigits - 1 /\ HexBits - 1 \in 0 .. MaxDigits /\ (HexBits - 1) + 1 = HexBits
    BY <1>1, <2>1
  <2>3. 2 ^ ((HexBits - 1) + 1) = 2 * 2 ^ (HexBits - 1)
    BY <2>1, <2>2 DEF PowersUpTo
  <2>4. 2 ^ (HexBits - 1) \in Nat
    BY <2>1, <2>2, PowerPositive
  <2>. QED  BY <2>2, <2>3, <2>4 DEF Sixteen
<1>3. c # 0
  BY <1>1 DEF PowersUpTo
<1> DEFINE b == Sixteen
<1>4. b ^ (c - 1) \in Nat /\ b ^ ((c - 1) + 1) = b * b ^ (c - 1) /\ (c - 1) + 1 = c
  <2> HIDE DEF b
  <2>1. c - 1 \in 0 .. HexDigits - 1 /\ c - 1 \in 0 .. HexDigits /\ (c - 1) + 1 = c
    BY <1>1, <1>3
  <2>2. b ^ (c - 1) \in Nat
    BY <1>1, <2>1, PowerPositive DEF b
  <2>. QED  BY <1>1, <2>1, <2>2 DEF PowersUpTo, b
<1> HIDE DEF b
<1>5. PICK k \in Nat : b = 2 * k
  BY <1>2 DEF b
<1> DEFINE m == b ^ (c - 1)
<1>6. cut = (2 * k) * m /\ m \in Nat
  BY <1>4, <1>5, Zenon DEF b
<1> HIDE DEF m
<1>7. cut = 2 * (k * m) /\ k * m \in Nat
  BY <1>5, <1>6
<1>. QED  BY <1>7

\* The parity of what is kept decides a tie, of the leading digit where nothing is kept.
LEMMA HexParity ==
  ASSUME bits \in Nat, precision \in Int, Shown <= HexDigits, NEW most, most = Sixteen ^ Kept,
         NEW kept \in Nat, kept < most
  PROVE  (most * Leading + kept) % 2 = (IF Shown > 0 THEN kept ELSE Leading) % 2
<1>1. Shown \in Nat /\ Kept \in 0 .. HexDigits /\ Kept = Shown /\ Leading \in 0 .. 1 /\ HexDigits \in Nat
  <2>1. Shown \in Nat /\ Kept \in 0 .. HexDigits /\ (Shown < HexDigits => Kept = Shown)
        /\ (Shown >= HexDigits => Kept = HexDigits) /\ Leading \in 0 .. 1
    BY HexType
  <2>. QED  BY <2>1, SixteenIs
<1>2. CASE Shown = 0
  <2>1. most = 1
    BY <1>1, <1>2, SixteenIs DEF PowersUpTo
  <2>2. kept = 0
    BY <2>1
  <2>. QED  BY <1>1, <1>2, <2>1, <2>2
<1>3. CASE Shown # 0
  <2>1. most > 1
    <3> DEFINE j == 0
               b == Sixteen
    <3>1. b \in Nat \ {0, 1} /\ HexDigits \in Nat /\ PowersUpTo(b, HexDigits) /\ j \in 0 .. HexDigits /\ j < Kept
      BY <1>1, <1>3, SixteenIs
    <3>2. b ^ j = 1
      BY <3>1 DEF PowersUpTo
    <3>4. most \in Nat
      <4>1. b \in Nat \ {0}
        BY <3>1
      <4> HIDE DEF b
      <4>. QED  BY <1>1, <3>1, <4>1, PowerPositive DEF b
    <3> HIDE DEF j, b
    <3>3. b ^ j < b ^ Kept
      BY <1>1, <3>1, PowerGrows
    <3>. QED  BY <3>2, <3>3, <3>4 DEF b
  <2>2. PICK k \in Nat : most = 2 * k
    BY <1>1, <2>1, EvenCut
  <2>3. most * Leading = 2 * (k * Leading) /\ k * Leading \in Nat
    BY <1>1, <2>2
  <2> DEFINE x == k * Leading
  <2>4. (2 * x + kept) % 2 = kept % 2
    <3> HIDE DEF x
    <3>. QED  BY <2>3 DEF x
  <2>. QED  BY <1>1, <1>3, <2>3, <2>4
<1>. QED  BY <1>2, <1>3

\* Half of an even number.
LEMMA Half ==
  ASSUME NEW cut \in Nat, NEW k \in Nat, cut = 2 * k
  PROVE  cut \div 2 = k
OBVIOUS

\* The directions in which a rest is rounded up, and that a carry loses nothing.
RoundsAway(rest, more, tie) ==
  CASE mode = "TOWARD_ZERO" -> FALSE
    [] mode = "TOWARD_POS" -> ~negative /\ rest
    [] mode = "TOWARD_NEG" -> negative /\ rest
    [] OTHER -> more \/ tie
LEMMA Carry ==
  ASSUME NEW most \in Nat \ {0}, NEW lead \in Nat, NEW kept \in Nat, kept < most, NEW up \in BOOLEAN,
         NEW down, down = most * lead + kept,
         NEW r, r = CASE up -> IF kept + 1 >= most THEN [leading |-> lead + 1, frac |-> 0]
                                 ELSE [leading |-> lead, frac |-> kept + 1]
                      [] OTHER -> [leading |-> lead, frac |-> kept]
  PROVE  r.leading * most + r.frac = IF up THEN down + 1 ELSE down
<1> DEFINE g == most * lead
<1>1. g \in Nat /\ lead * most = g /\ (lead + 1) * most = g + most /\ down = g + kept
  <2>1. (lead + 1) * most = lead * most + most
    BY Products
  <2>2. g \in Nat /\ lead * most = g
    OBVIOUS
  <2> HIDE DEF g
  <2>. QED  BY <2>1, <2>2 DEF g
<1> HIDE DEF g
<1>2. CASE up /\ kept + 1 >= most
  <2>1. kept + 1 = most /\ r.leading = lead + 1 /\ r.frac = 0
    BY <1>2
  <2>. QED  BY <1>1, <1>2, <2>1
<1>3. CASE up /\ ~ (kept + 1 >= most)
  <2>1. r.leading = lead /\ r.frac = kept + 1
    BY <1>3
  <2>. QED  BY <1>1, <1>3, <2>1
<1>4. CASE ~ up
  <2>1. r.leading = lead /\ r.frac = kept
    BY <1>4
  <2>. QED  BY <1>1, <1>4, <2>1
<1>. QED  BY <1>2, <1>3, <1>4

HexCarry(r, up, most, lead, kept) ==
  r = CASE up -> IF kept + 1 >= most THEN [leading |-> lead + 1, frac |-> 0]
                   ELSE [leading |-> lead, frac |-> kept + 1]
        [] OTHER -> [leading |-> lead, frac |-> kept]
HexCarriedTo(r, up, most, down) == r.leading * most + r.frac = IF up THEN down + 1 ELSE down
LEMMA CarryAs ==
  ASSUME NEW most \in Nat \ {0}, NEW lead \in Nat, NEW kept \in Nat, kept < most, NEW up \in BOOLEAN,
         NEW r, HexCarry(r, up, most, lead, kept)
  PROVE  HexCarriedTo(r, up, most, most * lead + kept)
BY Carry DEF HexCarry, HexCarriedTo

\* The number of the digits kept is the number rounded where they end.
LEMMA HexRounds ==
  ASSUME bits \in Nat, precision \in Int, Shown <= HexDigits
  PROVE  HexRounded.leading * Sixteen ^ Kept + HexRounded.frac
           = RoundedBits(Mantissa, HexBits * (HexDigits - Kept))
<1> DEFINE c == HexDigits - Kept
           cut == Sixteen ^ c
           most == Sixteen ^ Kept
           kept == Fraction \div cut
           rest == Fraction % cut
           down == most * Leading + kept
           upa == (cut > 1 /\ Fraction # 0) /\ RoundsUpAt(kept, rest, cut \div 2)
           upb == RoundsAway(rest # 0, 2 * rest > cut, 2 * rest = cut /\ down % 2 = 1)
<1>1. /\ c \in 0 .. HexDigits /\ cut \in Nat \ {0} /\ most \in Nat \ {0} /\ cut = 2 ^ (HexBits * c)
      /\ kept \in Nat /\ kept < most /\ rest \in 0 .. cut - 1 /\ rest \in Nat /\ Fraction = cut * kept + rest
      /\ Mantissa \div cut = down /\ Mantissa % cut = rest /\ Leading \in 0 .. 1 /\ Fraction \in Nat
  BY HexCut
<1>2. down % 2 = (IF Shown > 0 THEN kept ELSE Leading) % 2
  <2> HIDE DEF kept
  <2>. QED  BY <1>1, HexParity
<1>3. HexRounded = CASE upa -> IF kept + 1 >= most THEN [leading |-> Leading + 1, frac |-> 0]
                                 ELSE [leading |-> Leading, frac |-> kept + 1]
                     [] OTHER -> [leading |-> Leading, frac |-> kept]
  BY Zenon DEF HexRounded
<1>4. RoundedBits(Mantissa, HexBits * c) = IF upb THEN down + 1 ELSE down
  <2>1. Mantissa \div 2 ^ (HexBits * c) = down /\ Mantissa % 2 ^ (HexBits * c) = rest /\ 2 ^ (HexBits * c) = cut
    BY <1>1, Zenon
  <2> HIDE DEF down, rest, cut
  <2>. QED  BY <2>1, Zenon DEF RoundedBits, RoundsAway
<1> HIDE DEF cut, most, kept, rest, down, c
<1>5. upa <=> upb
  <2>1. CASE rest = 0
    <3>1. ~ upb
      <4>1. ~ (2 * rest > cut) /\ ~ (2 * rest = cut) /\ ~ (rest # 0)
        BY <1>1, <2>1
      <4>. QED  BY <4>1, Zenon DEF RoundsAway
    <3>2. cut > 1 => cut \div 2 > 0
      BY <1>1
    <3>3. cut > 1 => ~ (rest > 0) /\ ~ (rest > cut \div 2) /\ ~ (rest = cut \div 2)
      BY <1>1, <2>1, <3>2
    <3>. QED  BY <3>1, <3>3, Zenon DEF RoundsUpAt
  <2>2. CASE rest # 0
    <3>1. cut > 1 /\ rest > 0
      BY <1>1, <2>2
    <3>2. Fraction # 0
      <4>1. cut * kept \in Nat
        BY <1>1
      <4>. QED  BY <1>1, <3>1, <4>1
    <3>3. PICK k \in Nat : cut = 2 * k
      BY <1>1, <3>1, EvenCut DEF cut
    <3>4. cut \div 2 = k
      BY <1>1, <3>3, Half
    <3>5. (rest > cut \div 2 <=> 2 * rest > cut) /\ (rest = cut \div 2 <=> 2 * rest = cut)
      BY <1>1, <3>3, <3>4
    <3>. QED  BY <1>2, <2>2, <3>1, <3>2, <3>5, Zenon DEF RoundsUpAt, RoundsAway
  <2>. QED  BY <2>1, <2>2
<1>6. upb \in BOOLEAN /\ upa \in BOOLEAN
  BY DEF RoundsAway, RoundsUpAt
<1> HIDE DEF upa, upb
<1>7. HexRounded.leading * most + HexRounded.frac = IF upa THEN down + 1 ELSE down
  <2>1. Leading \in Nat
    BY <1>1
  <2>2. HexCarry(HexRounded, upa, most, Leading, kept)
    BY <1>3, Zenon DEF HexCarry
  <2>3. HexCarriedTo(HexRounded, upa, most, most * Leading + kept)
    BY <1>1, <1>6, <2>1, <2>2, CarryAs, ZenonT(60)
  <2>. QED  BY <2>3, Zenon DEF HexCarriedTo, down
<1>8. (IF upa THEN down + 1 ELSE down) = (IF upb THEN down + 1 ELSE down)
  BY <1>5, <1>6
<1>. QED  BY <1>4, <1>7, <1>8, Zenon DEF c, most

\* A multiple is not rounded.
LEMMA RoundedNot ==
  ASSUME NEW n, NEW d, NEW cut \in Nat \ {0}, cut = 2 ^ d, n % cut = 0
  PROVE  RoundedBits(n, d) = n \div cut
<1>1. n % 2 ^ d = 0 /\ n \div 2 ^ d = n \div cut
  BY Zenon
<1>2. ~ (2 * 0 > cut) /\ ~ (2 * 0 = cut)
  OBVIOUS
<1>3. RoundedBits(n, d) = n \div 2 ^ d
  <2> DEFINE up == CASE mode = "TOWARD_ZERO" -> FALSE
                     [] mode = "TOWARD_POS" -> ~negative /\ 0 # 0
                     [] mode = "TOWARD_NEG" -> negative /\ 0 # 0
                     [] OTHER -> 2 * 0 > cut \/ (2 * 0 = cut /\ (n \div 2 ^ d) % 2 = 1)
  <2>1. RoundedBits(n, d) = IF up THEN (n \div 2 ^ d) + 1 ELSE n \div 2 ^ d
    BY <1>1, Zenon DEF RoundedBits
  <2>2. ~ up
    BY <1>2, Zenon
  <2>. QED  BY <2>1, <2>2, Zenon
<1>. QED  BY <1>1, <1>3, Zenon

\* A digit more that is zero would be a digit too many.
LEMMA ZeroBelow ==
  ASSUME NEW b \in Nat \ {0}, NEW cut \in Nat \ {0}, NEW half \in Nat, NEW most, most = b * half,
         NEW lead \in 0 .. 1, NEW kept \in Nat, NEW x, x = most * lead + kept, x % b = 0
  PROVE  (cut * kept) % (b * cut) = 0
<1> DEFINE j == x \div b
           g == half * lead
<1>1. g \in Nat /\ most * lead = b * g
  <2>1. CASE lead = 0
    BY <2>1
  <2>2. CASE lead = 1
    BY <2>2
  <2>. QED  BY <2>1, <2>2
<1>2. b * g \in Nat /\ x \in Nat /\ x = b * g + kept
  BY <1>1
<1>3. j \in Nat /\ x = b * j
  BY <1>2, DivMod
<1> HIDE DEF j, g
<1>4. g <= j
  <2> SUFFICES ASSUME j < g PROVE FALSE
    BY <1>1, <1>3
  <2>1. b * j < b * g /\ b * j \in Nat
    BY <1>1, <1>3, Products
  <2>. QED  BY <1>2, <1>3, <2>1
<1>5. PICK i \in Nat : j = g + i
  <2>1. j - g \in Nat /\ j = g + (j - g)
    BY <1>1, <1>3, <1>4
  <2>. QED  BY <2>1
<1>6. b * j = b * g + b * i /\ b * i \in Nat
  BY <1>1, <1>5
<1>7. kept = b * i
  BY <1>2, <1>3, <1>6
<1>8. cut * kept = (b * cut) * i /\ b * cut \in Nat \ {0}
  BY <1>5, <1>7, Products
<1> DEFINE m == b * cut
<1>9. (m * i) % m = 0
  <2> HIDE DEF m
  <2>1. m \in Nat \ {0} /\ m * i + 0 = m * i /\ 0 \in 0 .. m - 1 /\ m * i \in Nat
    BY <1>5, <1>8 DEF m
  <2>. QED  BY <1>5, <2>1, DivModIs
<1>. QED  BY <1>8, <1>9

NoDigit(b, cut, half, most, lead, kept) == most = b * half /\ (most * lead + kept) % b = 0
WasZero(b, cut, kept) == (cut * kept) % (b * cut) = 0
LEMMA ZeroBelowAs ==
  ASSUME NEW b \in Nat \ {0}, NEW cut \in Nat \ {0}, NEW half \in Nat, NEW most,
         NEW lead \in 0 .. 1, NEW kept \in Nat, NoDigit(b, cut, half, most, lead, kept)
  PROVE  WasZero(b, cut, kept)
<1> DEFINE x == most * lead + kept
<1>1. most = b * half /\ x % b = 0
  BY Zenon DEF NoDigit
<1>2. \A y : y = x => (cut * kept) % (b * cut) = 0
  <2> TAKE y
  <2> HAVE y = x
  <2>1. y = most * lead + kept /\ y % b = 0
    BY <1>1, Zenon
  <2> HIDE DEF x
  <2>. QED  BY <1>1, <2>1, ZeroBelow
<1>. QED  BY <1>2, Zenon DEF WasZero

\* Without a precision nothing is rounded, and the last digit is not zero.
LEMMA HexExact ==
  ASSUME bits \in Nat, precision \in Int, precision < 0
  PROVE  LET x == RoundedBits(Mantissa, HexBits * (HexDigits - Kept))
         IN  /\ x * Sixteen ^ (HexDigits - Kept) = Mantissa
             /\ Kept = Shown /\ Shown <= HexDigits
             /\ Shown > 0 => x % Sixteen # 0
<1> DEFINE c == HexDigits - Kept
           cut == Sixteen ^ c
           most == Sixteen ^ Kept
           kept == Fraction \div cut
           rest == Fraction % cut
           down == most * Leading + kept
<1>1. /\ c \in 0 .. HexDigits /\ Kept \in 0 .. HexDigits /\ cut \in Nat \ {0} /\ most \in Nat \ {0}
      /\ cut = 2 ^ (HexBits * c)
      /\ kept \in Nat /\ rest \in 0 .. cut - 1 /\ Fraction = cut * kept + rest
      /\ Mantissa = cut * down + rest
      /\ Mantissa \div cut = down /\ Mantissa % cut = rest /\ Leading \in 0 .. 1 /\ Fraction \in Nat
  BY HexCut
<1>2. /\ Shown = Needed /\ Needed \in 0 .. HexDigits /\ Kept = Needed /\ HexDigits \in Nat
      /\ Fraction % Sixteen ^ (HexDigits - Needed) = 0
      /\ Needed > 0 => Fraction % Sixteen ^ (HexDigits - Needed + 1) # 0
  <2>1. Shown = Needed
    BY DEF Shown
  <2>. QED  BY <2>1, HexType, SixteenIs
<1>3. rest = 0
  BY <1>2
<1>4. RoundedBits(Mantissa, HexBits * c) = down
  <2> HIDE DEF cut, down, rest, c
  <2>1. Mantissa % cut = 0 /\ Mantissa \div cut = down /\ cut \in Nat \ {0} /\ cut = 2 ^ (HexBits * c)
    BY <1>1, <1>3
  <2> DEFINE d == HexBits * c
  <2> HIDE DEF d
  <2>2. RoundedBits(Mantissa, d) = Mantissa \div cut
    BY <2>1, RoundedNot DEF d
  <2>. QED  BY <2>1, <2>2 DEF d
<1> HIDE DEF cut, most, kept, rest
<1>5. down \in Nat
  <2> DEFINE g == most * Leading
  <2>1. g \in Nat
    BY <1>1
  <2> HIDE DEF g
  <2>2. g + kept \in Nat
    BY <1>1, <2>1
  <2>. QED  BY <2>2 DEF g
<1>6. ASSUME Shown > 0 PROVE down % Sixteen # 0
  <2> DEFINE b == Sixteen
             half == b ^ (Kept - 1)
  <2>1. b \in Nat \ {0} /\ PowersUpTo(b, HexDigits) /\ HexDigits \in Nat
    BY SixteenIs
  <2> HIDE DEF b
  <2>2. Kept - 1 \in 0 .. HexDigits - 1 /\ Kept - 1 \in 0 .. HexDigits /\ (Kept - 1) + 1 = Kept
        /\ c \in 0 .. HexDigits - 1 /\ HexDigits - Needed + 1 = c + 1
    BY <1>1, <1>2, <1>6
  <2>3. half \in Nat /\ most = b * half
    <3>1. half \in Nat
      BY <2>1, <2>2, PowerPositive
    <3>2. b ^ ((Kept - 1) + 1) = b * b ^ (Kept - 1)
      BY <2>1, <2>2 DEF PowersUpTo
    <3>. QED  BY <2>2, <3>1, <3>2 DEF most, b
  <2>4. b ^ (c + 1) = b * cut
    <3>1. \A k \in 0 .. HexDigits - 1 : b ^ (k + 1) = b * b ^ k
      BY <2>1 DEF PowersUpTo
    <3>2. cut = b ^ c
      BY Zenon DEF cut, b
    <3> HIDE DEF c
    <3>3. c \in 0 .. HexDigits - 1
      BY <2>2
    <3> HIDE DEF cut
    <3>4. b ^ (c + 1) = b * b ^ c
      BY <3>1, <3>3
    <3>. QED  BY <3>2, <3>4
  <2>5. Fraction = cut * kept
    <3>1. cut \in Nat \ {0} /\ kept \in Nat /\ Fraction = cut * kept + rest
      BY <1>1, Zenon
    <3>2. cut * kept \in Nat
      BY <3>1
    <3>. QED  BY <1>3, <3>1, <3>2
  <2>6. Fraction % b ^ (c + 1) # 0
    BY <1>2, <1>6, <2>2 DEF b
  <2> HIDE DEF half
  <2> SUFFICES ASSUME down % b = 0 PROVE FALSE
    BY DEF b
  <2>7. (cut * kept) % (b * cut) = 0
    <3>1. NoDigit(b, cut, half, most, Leading, kept)
      BY <2>3, Zenon DEF NoDigit, down
    <3>2. WasZero(b, cut, kept)
      BY <1>1, <2>1, <2>3, <3>1, ZeroBelowAs, Zenon
    <3>. QED  BY <3>2, Zenon DEF WasZero
  <2>. QED  BY <2>4, <2>5, <2>6, <2>7
<1>7. down * cut = Mantissa
  <2>1. cut \in Nat \ {0} /\ Mantissa = cut * down + rest
    BY <1>1, Zenon
  <2> HIDE DEF down
  <2>2. cut * down \in Nat /\ down * cut = cut * down
    BY <1>5, <2>1, Products
  <2>. QED  BY <1>3, <2>1, <2>2
<1>8. Kept = Shown /\ Shown <= HexDigits
  BY <1>2
<1> HIDE DEF down
<1>. QED  BY <1>4, <1>6, <1>7, <1>8, Zenon DEF cut, c

\* With more digits than the fraction has, nothing is rounded.
LEMMA HexWide ==
  ASSUME bits \in Nat, precision \in Int, Shown > HexDigits
  PROVE  HexRounded.leading * Sixteen ^ Kept + HexRounded.frac = Mantissa /\ Kept = HexDigits
<1> DEFINE c == HexDigits - Kept
           cut == Sixteen ^ c
           most == Sixteen ^ Kept
           kept == Fraction \div cut
           rest == Fraction % cut
<1>1. /\ cut \in Nat \ {0} /\ most \in Nat \ {0}
      /\ kept \in Nat /\ rest \in 0 .. cut - 1
      /\ Mantissa = cut * (most * Leading + kept) + rest /\ Leading \in 0 .. 1
  BY HexCut
<1>2. Kept = HexDigits /\ c = 0
  <2>1. Shown \in Nat /\ HexDigits \in Nat
    BY HexType, SixteenIs
  <2>. QED  BY <2>1, HexType
<1>3. cut = 1
  BY <1>2, SixteenIs DEF PowersUpTo
<1>4. HexRounded = [leading |-> Leading, frac |-> kept]
  <2>1. ~ (cut > 1)
    BY <1>3
  <2>. QED  BY <2>1, Zenon DEF HexRounded
<1> HIDE DEF cut, most, kept, rest
<1>5. HexRounded.leading = Leading /\ HexRounded.frac = kept
  BY <1>4
<1> DEFINE lead == Leading
           g == most * lead
<1>6. g \in Nat /\ lead * most = g
  <2>1. lead \in Nat
    BY <1>1
  <2> HIDE DEF lead
  <2>. QED  BY <1>1, <2>1
<1>7. Mantissa = g + kept
  <2>1. rest = 0 /\ Mantissa = cut * (g + kept) + rest
    BY <1>1, <1>3
  <2> HIDE DEF g
  <2>. QED  BY <1>1, <1>3, <1>6, <2>1
<1>8. HexRounded.leading * most + HexRounded.frac = Mantissa
  <2>1. HexRounded.leading * most = g
    BY <1>5, <1>6, Zenon
  <2>. QED  BY <1>5, <1>7, <2>1, Zenon
<1>. QED  BY <1>2, <1>8 DEF most

\* What the digits of %a say, and where they end.
HexSays(value, frac, drop) ==
  /\ value \in Nat
  /\ IF Shown <= HexDigits
       THEN /\ drop \in 0 .. Prec - 1 /\ value = RoundedBits(Mantissa, drop)
            /\ precision < 0 => /\ value * 2 ^ drop = Mantissa
                                /\ Shown > 0 => frac[Len(frac)] # 0
       ELSE /\ drop < 0 /\ -drop <= MostBits /\ precision >= 0
            /\ value = Mantissa * 2 ^ (-drop)

LEMMA HexNumber ==
  ASSUME IInv, ShapeInv, Printed, kind = "a", HexLead \in Digits
  PROVE  HexSays(ValueOf(Unlettered(<<HexLead>> \o HexFrac), Sixteen), HexFrac, Prec - 1 - HexBits * Shown)
<1> DEFINE value == ValueOf(Unlettered(<<HexLead>> \o HexFrac), Sixteen)
           drop == Prec - 1 - HexBits * Shown
           r == HexRounded.leading * Sixteen ^ Kept + HexRounded.frac
<1>1. /\ bits \in Nat /\ precision \in Int /\ rounded \in Nat /\ places = Shown /\ rounded = r
      /\ precision <= MaxPrecision
  BY PrintedFacts DEF Accepted
<1>2. /\ Shown \in Nat /\ Kept \in 0 .. HexDigits /\ Kept <= Shown
      /\ Shown < HexDigits => Kept = Shown
      /\ Shown >= HexDigits => Kept = HexDigits
  BY <1>1, HexType
<1>3. /\ HexBits \in Nat \ {0} /\ HexDigits \in Nat /\ HexBits * HexDigits = Prec - 1 /\ Prec \in Nat
      /\ Sixteen \in Nat \ {0, 1} /\ PowersUpTo(Sixteen, HexDigits + MaxPrecision) /\ MaxPrecision \in Nat
      /\ PowersUpTo(Sixteen, HexDigits)
  BY SixteenIs, HexAssumption, Format, PrintfAssumption
<1>4. Shown <= HexDigits + MaxPrecision
  <2>1. CASE precision < 0
    <3>1. Shown \in 0 .. HexDigits
      BY <1>1, <2>1, HexType DEF Shown
    <3>. QED  BY <1>3, <3>1
  <2>2. CASE ~ (precision < 0)
    <3>1. Shown = precision
      BY <2>2 DEF Shown
    <3>. QED  BY <1>1, <1>3, <3>1
  <2>. QED  BY <2>1, <2>2
<1>5. value = rounded * Sixteen ^ (Shown - Kept)
  <2>1. places \in Nat /\ Kept <= places /\ places <= HexDigits + MaxPrecision
    BY <1>1, <1>2, <1>4
  <2>2. value = rounded * Sixteen ^ (places - Kept)
    BY <1>1, <1>2, <2>1, HexValue
  <2>. QED  BY <1>1, <2>2
<1>8. value \in Nat
  <2> DEFINE b == Sixteen
             most == HexDigits + MaxPrecision
             k == Shown - Kept
  <2>1. b \in Nat \ {0} /\ most \in Nat /\ PowersUpTo(b, most) /\ k \in 0 .. most
    BY <1>2, <1>3, <1>4
  <2> HIDE DEF b, most, k
  <2>2. b ^ k \in Nat
    BY <2>1, PowerPositive
  <2>3. value = rounded * b ^ k
    BY <1>5, Zenon DEF b, k
  <2>. QED  BY <1>1, <2>2, <2>3
<1> HIDE DEF value, r
<1>6. CASE Shown <= HexDigits
  <2>1. Kept = Shown /\ Shown - Kept = 0
    BY <1>2, <1>3, <1>6
  <2>2. value = rounded
    <3>1. Sixteen ^ 0 = 1
      BY <1>3 DEF PowersUpTo
    <3>2. value = rounded * 1
      BY <1>5, <2>1, <3>1
    <3>. QED  BY <1>1, <3>2
  <2>3. drop = HexBits * (HexDigits - Kept) /\ drop \in 0 .. Prec - 1
    <3> DEFINE c == HexDigits - Kept
    <3>1. c \in Nat /\ Shown + c = HexDigits
      BY <1>2, <1>3, <2>1
    <3> HIDE DEF c
    <3>2. HexBits * (Shown + c) = HexBits * Shown + HexBits * c
      BY <1>2, <1>3, <3>1
    <3>3. HexBits * Shown \in Nat /\ HexBits * c \in Nat
      BY <1>2, <1>3, <3>1
    <3>4. HexBits * Shown + HexBits * c = Prec - 1
      BY <1>3, <3>1, <3>2
    <3>5. drop = HexBits * c /\ drop \in 0 .. Prec - 1
      BY <1>3, <3>3, <3>4
    <3>. QED  BY <3>5 DEF c
  <2>4. rounded = RoundedBits(Mantissa, drop)
    <3>1. r = RoundedBits(Mantissa, HexBits * (HexDigits - Kept))
      BY <1>1, <1>6, HexRounds DEF r
    <3>. QED  BY <1>1, <2>3, <3>1, Zenon
  <2>5. ASSUME precision < 0
        PROVE  value * 2 ^ drop = Mantissa /\ (Shown > 0 => HexFrac[Len(HexFrac)] # 0)
    <3>1. /\ rounded * Sixteen ^ (HexDigits - Kept) = Mantissa
          /\ Shown > 0 => rounded % Sixteen # 0
      <4>1. rounded = RoundedBits(Mantissa, HexBits * (HexDigits - Kept))
        BY <2>3, <2>4, Zenon
      <4>. QED  BY <1>1, <2>5, <4>1, HexExact, Zenon
    <3>2. Sixteen ^ (HexDigits - Kept) = 2 ^ drop
      <4>1. HexDigits - Kept \in 0 .. HexDigits
        BY <1>2, <1>3
      <4>2. Sixteen ^ (HexDigits - Kept) = 2 ^ (HexBits * (HexDigits - Kept))
        BY <1>1, <4>1, HexRoundedType
      <4>. QED  BY <2>3, <4>2, Zenon
    <3>3. ASSUME Shown > 0 PROVE HexFrac[Len(HexFrac)] # 0
      <4>1. Kept \in 1 .. HexDigits /\ places = Kept
        BY <1>1, <1>2, <2>1, <3>3
      <4>. QED  BY <1>1, <3>1, <3>3, <4>1, HexLast
    <3>. QED  BY <2>2, <3>1, <3>2, <3>3, Zenon
  <2> HIDE DEF drop
  <2>. QED  BY <1>6, <1>8, <2>2, <2>3, <2>4, <2>5, Zenon DEF HexSays, value, drop
<1>7. CASE Shown > HexDigits
  <2>1. rounded = Mantissa /\ Kept = HexDigits
    BY <1>1, <1>7, HexWide DEF r
  <2> DEFINE k == Shown - HexDigits
  <2>2. k \in Nat /\ Shown = HexDigits + k /\ k <= MaxPrecision /\ k # 0
    BY <1>2, <1>3, <1>4, <1>7
  <2>3. precision >= 0
    <3>1. precision < 0 => Shown \in 0 .. HexDigits
      BY <1>1, HexType DEF Shown
    <3>. QED  BY <1>1, <1>2, <1>3, <1>7, <3>1
  <2> HIDE DEF k
  <2>4. -drop = HexBits * k /\ drop < 0 /\ HexBits * k \in Nat
    <3>1. HexBits * (HexDigits + k) = HexBits * HexDigits + HexBits * k
      BY <1>3, <2>2
    <3>2. HexBits * k \in Nat \ {0}
      BY <1>3, <2>2
    <3>3. drop = Prec - 1 - (HexBits * HexDigits + HexBits * k)
      BY <2>2, <3>1
    <3>. QED  BY <1>3, <3>2, <3>3
  <2>5. HexBits * MaxPrecision <= MostBits /\ MostBits \in Nat
    <3>1. /\ Prec \in Nat /\ EMin \in Int /\ EMax \in Int /\ EMin < EMax
          /\ HexBits * MaxPrecision \in Nat
      BY <1>3, FormatAssumption
    <3>. QED  BY <3>1, MostBitsAre DEF MostBits
  <2>6. HexBits * k <= MostBits
    <3>1. k * HexBits <= MaxPrecision * HexBits /\ k * HexBits = HexBits * k
          /\ MaxPrecision * HexBits = HexBits * MaxPrecision /\ HexBits * MaxPrecision \in Nat
      BY <1>3, <2>2, Products
    <3>. QED  BY <2>4, <2>5, <3>1
  <2>7. 2 ^ (HexBits * k) = Sixteen ^ k
    <3> DEFINE two == 2
               s == two ^ HexBits
    <3>1. two \in Nat /\ PowersUpTo(two, MostBits) /\ s = Sixteen /\ MostBits \in Nat
      BY MostBitsAre DEF Sixteen
    <3>2. PowersUpTo(s, MaxPrecision)
      <4>1. \A i \in 0 .. MaxPrecision - 1 : i \in 0 .. HexDigits + MaxPrecision - 1
        BY <1>3
      <4>. QED  BY <1>3, <3>1, <4>1 DEF PowersUpTo
    <3> HIDE DEF two, s
    <3>3. k \in 0 .. MaxPrecision
      BY <1>3, <2>2
    <3>4. PowersUpTo(two ^ HexBits, MaxPrecision)
      BY <3>2 DEF s
    <3>5. two ^ (HexBits * k) = (two ^ HexBits) ^ k
      BY <1>3, <2>5, <3>1, <3>3, <3>4, PowerPower
    <3>. QED  BY <3>1, <3>5 DEF s, two
  <2>8. value = Mantissa * 2 ^ (-drop)
    <3>1. Shown - Kept = k
      BY <2>1 DEF k
    <3>. QED  BY <1>5, <2>1, <2>4, <2>7, <3>1, Zenon
  <2>9. ~ (Shown <= HexDigits)
    BY <1>2, <1>3, <1>7
  <2> HIDE DEF drop
  <2>10. -drop <= MostBits
    BY <2>4, <2>6
  <2>. QED  BY <1>8, <2>3, <2>4, <2>8, <2>9, <2>10, Zenon DEF HexSays, value, drop
<1>. QED  BY <1>2, <1>3, <1>6, <1>7

\* The exponent of %a is the one that was written.
LEMMA HexPower ==
  ASSUME ExpFits
  PROVE  ValueOf(ExpText, ExpBase) * (IF Negative(<<ExpSign>>) THEN -1 ELSE 1) = exp10
BY SaidPower, ExpTextIs, ExpDigitsAre, Zenon

\* The text of %a, read by its point and its exponent.
LEMMA HexSaid ==
  ASSUME IInv, ShapeInv, OutInv, Doubles, out # None, LaidOut, kind = "a"
  PROVE  /\ Said = Record(SignAsked, places > 0 \/ out.layout.alternate, <<HexLead>>, HexFrac, <<ExpSign>>,
                          ExpText, ExpBase)
         /\ HexLead \in Digits /\ Len(HexFrac) = places /\ Printed /\ places = Shown /\ places \in Nat
<1> DEFINE l == out.layout
           w == Written(Pieces(l), l.cap)
           whole == Whole(Pieces(l))
           s == SignText(negative, l.sign)
           pointed == places > 0 \/ l.alternate
<1>1. /\ l \in Layouts /\ pc = "done" /\ status = "OK"
      /\ w.status = "OK" => w.text = whole
      /\ w.status \in {"OK", "BUFFER_TOO_SMALL"}
      /\ IF w.status = "OK" /\ bits \in FiniteBits /\ kind = "g" /\ ~ l.alternate
           THEN \/ out.status = "OK" /\ out.text = Trimmed(w.text)
                \/ out.status = "CRASH" /\ out.text = w.text
           ELSE out.status = w.status /\ out.text = w.text
  BY WrittenText
<1>2. out.status = "OK" /\ bits \in FiniteBits
  BY DEF LaidOut
<1>3. Printed /\ l.alternate \in BOOLEAN /\ s \in SignTexts
  BY <1>1, <1>2, LayoutIs, SignIs DEF Printed
<1>4. whole = s \o Whole(Body(l))
  BY <1>1, <1>2, PiecesSafe
<1>5. out.text = whole
  <2>1. out.status = w.status /\ out.text = w.text
    BY <1>1, Zenon
  <2>. QED  BY <1>1, <1>2, <2>1, Zenon
<1>6. HexShown(Body(l), pointed) /\ HexLead = HexRounded.leading
  BY <1>3, HexBody
<1>7. /\ bits \in Nat /\ precision \in Int /\ rounded \in Nat /\ places = Shown
  BY <1>3, PrintedFacts
<1>8. Shown \in Nat /\ Kept \in 0 .. HexDigits /\ Kept <= Shown
  BY <1>7, HexType
<1>9. HexLead \in Digits
  BY <1>6, <1>7, HexRoundedType DEF Digits
<1>10. Len(HexFrac) = places
  BY <1>7, <1>8, HexFracIs
<1>11. Reads(s \o Whole(Body(l)), ExpBase, s, pointed, <<HexLead>>, HexFrac, <<ExpSign>>, ExpText)
  <2>1. Shows(Whole(Body(l)), pointed, TRUE, <<0, X>>, <<HexLead>>, HexFrac, <<ExpSign>>, ExpText)
    BY <1>6, Zenon DEF HexShown
  <2>2. pointed \in BOOLEAN
    BY <1>3
  <2> HIDE DEF s, pointed, l
  <2>. QED  BY <1>3, <2>1, <2>2, ShownReads, Zenon
<1>12. Said = Record(s, pointed, <<HexLead>>, HexFrac, <<ExpSign>>, ExpText, ExpBase)
  BY <1>4, <1>5, <1>11, Zenon DEF Said, Reads
<1>. QED  BY <1>3, <1>7, <1>8, <1>9, <1>10, <1>12, Zenon DEF SignAsked

\* The digits in the units of the smallest number.
LEMMA InUnits ==
  ASSUME bits \in FiniteBits, bits \in Nat, precision \in Int, NEW value \in Nat, NEW frac, NEW drop \in Int,
         HexSays(value, frac, drop), HexDigits \in Nat, Shown \in Nat
  PROVE  /\ IF drop >= 0
              THEN value * 2 ^ Unit = RoundedBits(Units(bits), drop + Unit) * 2 ^ Unit
              ELSE value * 2 ^ Unit = Units(bits) * 2 ^ (-drop)
         /\ precision < 0 => (value * 2 ^ Unit) * 2 ^ drop = Units(bits) /\ (Shown > 0 => frac[Len(frac)] # 0)
<1>1. Mantissa \in Nat /\ Unit \in 0 .. EMax - EMin /\ Units(bits) = Mantissa * 2 ^ Unit
  BY UnitsAre
<1>2. /\ MostBits \in Nat /\ Prec - 1 + (EMax - EMin) <= MostBits /\ \A k \in 0 .. MostBits : 2 ^ k \in Nat \ {0}
      /\ Prec \in Nat /\ Prec > 1 /\ EMin \in Int /\ EMax \in Int
  BY MostBitsAre, FormatAssumption, Format
<1>3. 2 ^ Unit \in Nat
  BY <1>1, <1>2
<1>4. CASE Shown <= HexDigits
  <2>1. /\ drop \in 0 .. Prec - 1 /\ value = RoundedBits(Mantissa, drop)
        /\ precision < 0 => value * 2 ^ drop = Mantissa /\ (Shown > 0 => frac[Len(frac)] # 0)
    BY <1>4, Zenon DEF HexSays
  <2>2. drop \in Nat /\ Unit \in Nat /\ drop + Unit <= MostBits /\ drop \in 0 .. MostBits
    BY <1>1, <1>2, <2>1
  <2> DEFINE d == drop
             m == Mantissa
             u == Unit
  <2>3. RoundedBits(m * 2 ^ u, d + u) = RoundedBits(m, d)
    <3>1. m \in Nat /\ d \in Nat /\ u \in Nat /\ d + u <= MostBits
      BY <1>1, <2>2
    <3> HIDE DEF m, d, u
    <3>. QED  BY <3>1, RoundedScaled
  <2>4. value * 2 ^ Unit = RoundedBits(Units(bits), drop + Unit) * 2 ^ Unit
    BY <1>1, <2>1, <2>3, Zenon
  <2>5. precision < 0 => (value * 2 ^ Unit) * 2 ^ drop = Units(bits)
    <3> SUFFICES ASSUME precision < 0 PROVE (value * 2 ^ Unit) * 2 ^ drop = Units(bits)
      OBVIOUS
    <3> DEFINE p == 2 ^ Unit
               q == 2 ^ drop
    <3>1. p \in Nat /\ q \in Nat /\ value * q = Mantissa /\ Units(bits) = Mantissa * p
      BY <1>1, <1>2, <1>3, <2>1, <2>2
    <3> HIDE DEF p, q
    <3>2. (value * p) * q = (value * q) * p
      BY <3>1
    <3>3. (value * p) * q = Units(bits)
      BY <3>1, <3>2, Zenon
    <3>. QED  BY <3>3 DEF p, q
  <2>6. drop >= 0
    BY <2>2
  <2>. QED  BY <2>1, <2>4, <2>5, <2>6, Zenon
<1>5. CASE ~ (Shown <= HexDigits)
  <2>1. drop < 0 /\ -drop <= MostBits /\ precision >= 0 /\ value = Mantissa * 2 ^ (-drop)
    BY <1>5, Zenon DEF HexSays
  <2>2. ~ (drop >= 0) /\ -drop \in 0 .. MostBits
    BY <1>2, <2>1
  <2> DEFINE p == 2 ^ Unit
             q == 2 ^ (-drop)
             m == Mantissa
  <2>3. p \in Nat /\ q \in Nat /\ m \in Nat /\ value = m * q /\ Units(bits) = m * p
    BY <1>1, <1>2, <1>3, <2>1, <2>2
  <2> HIDE DEF p, q, m
  <2>4. (m * q) * p = (m * p) * q
    BY <2>3
  <2>5. value * p = Units(bits) * q
    BY <2>3, <2>4, Zenon
  <2>6. ~ (precision < 0)
    BY <2>1
  <2>. QED  BY <2>2, <2>5, <2>6, Zenon DEF p, q
<1>. QED  BY <1>4, <1>5

(***************************************************************************)
(* The text of %a is the number rounded once, in the mode asked for, to    *)
(* the hexadecimal digits asked for, in every format, size of the digits,  *)
(* mode and precision: also when a carry reaches the digit before the      *)
(* point and below the normal numbers; without a precision it is the       *)
(* number itself, in as few digits as that takes.                          *)
(***************************************************************************)
THEOREM HexTextOfTheNumber == TSpec => []HexSaysTheNumber
<1>1. IInv /\ ShapeInv /\ OutInv /\ Doubles => HexSaysTheNumber
  <2> SUFFICES ASSUME IInv, ShapeInv, OutInv, Doubles, LaidOut, kind = "a"
      PROVE  LET shown == Len(Said.frac)
                 drop == Prec - 1 - HexBits * shown
                 unit == IF bits = 0 THEN 0 ELSE Said.power - EMin
                 written == ValueOf(Unlettered(Said.int \o Said.frac), Sixteen) * 2 ^ unit
             IN  /\ IF drop >= 0
                      THEN written = RoundedBits(Units(bits), drop + unit) * 2 ^ unit
                      ELSE written = Units(bits) * 2 ^ (-drop)
                 /\ Said.power \in EMin .. EMax /\ Said.sign = SignAsked
                 /\ IF precision >= 0 THEN shown = precision
                      ELSE /\ written * 2 ^ drop = Units(bits)
                           /\ shown > 0 => Said.frac[shown] # 0
                 /\ Said.pointed <=> (shown > 0 \/ out.layout.alternate)
    BY Zenon DEF HexSaysTheNumber
  <2>1. out # None
    BY DEF LaidOut, None
  <2>2. /\ Said = Record(SignAsked, places > 0 \/ out.layout.alternate, <<HexLead>>, HexFrac, <<ExpSign>>,
                         ExpText, ExpBase)
        /\ HexLead \in Digits /\ Len(HexFrac) = places /\ Printed /\ places = Shown /\ places \in Nat
    BY <2>1, HexSaid
  <2>3. /\ Said.int = <<HexLead>> /\ Said.frac = HexFrac /\ Said.sign = SignAsked
        /\ Said.power = ValueOf(ExpText, ExpBase) * (IF Negative(<<ExpSign>>) THEN -1 ELSE 1)
        /\ Said.pointed = (places > 0 \/ out.layout.alternate)
    BY <2>2 DEF Record
  <2>4. Said.power = exp10 /\ exp10 = HexExp10
    <3>1. ExpFits
      BY <2>2, ExponentFits
    <3>. QED  BY <2>2, <2>3, <3>1, HexPower, PrintedFacts
  <2>5. bits \in Nat /\ bits \in FiniteBits /\ precision \in Int /\ rounded \in Nat
    BY <2>2, PrintedFacts
  <2>6. HexExp10 \in EMin .. EMax /\ (IF bits = 0 THEN 0 ELSE HexExp10 - EMin) = Unit
    BY <2>5, UnitsAre
  <2> DEFINE value == ValueOf(Unlettered(<<HexLead>> \o HexFrac), Sixteen)
             drop == Prec - 1 - HexBits * Shown
  <2>7. HexSays(value, HexFrac, drop)
    BY <2>2, HexNumber
  <2>8. value \in Nat /\ drop \in Int /\ HexDigits \in Nat /\ Shown \in Nat
    <3>1. value \in Nat
      BY <2>7, Zenon DEF HexSays
    <3>2. HexBits \in Nat /\ HexDigits \in Nat /\ Prec \in Nat /\ Shown \in Nat
      BY <2>2, SixteenIs, Format
    <3>3. HexBits * Shown \in Int
      BY <3>2
    <3>. QED  BY <3>1, <3>2, <3>3
  <2> HIDE DEF value
  <2>9. /\ IF drop >= 0
             THEN value * 2 ^ Unit = RoundedBits(Units(bits), drop + Unit) * 2 ^ Unit
             ELSE value * 2 ^ Unit = Units(bits) * 2 ^ (-drop)
        /\ precision < 0 => /\ (value * 2 ^ Unit) * 2 ^ drop = Units(bits)
                            /\ Shown > 0 => HexFrac[Len(HexFrac)] # 0
    <3> HIDE DEF drop
    <3>. QED  BY <2>5, <2>7, <2>8, InUnits
  <2>10. precision >= 0 => Shown = precision
    BY <2>5 DEF Shown
  <2>11. precision < 0 <=> ~ (precision >= 0)
    BY <2>5
  <2> DEFINE unit == IF bits = 0 THEN 0 ELSE Said.power - EMin
  <2>12. unit = Unit
    BY <2>4, <2>6
  <2> HIDE DEF unit
  <2>13. /\ IF drop >= 0
              THEN value * 2 ^ unit = RoundedBits(Units(bits), drop + unit) * 2 ^ unit
              ELSE value * 2 ^ unit = Units(bits) * 2 ^ (-drop)
         /\ Said.power \in EMin .. EMax
         /\ IF precision >= 0 THEN Shown = precision
              ELSE /\ (value * 2 ^ unit) * 2 ^ drop = Units(bits)
                   /\ Shown > 0 => HexFrac[Shown] # 0
         /\ Len(HexFrac) = Shown
    BY <2>2, <2>4, <2>6, <2>9, <2>10, <2>11, <2>12, ZenonT(60)
  <2>. QED  BY <2>2, <2>3, <2>13, Zenon DEF value, unit
<1>. QED  BY <1>1, Invariance, DigitsInvariance, TextInvariance, DoublesOnly, PTL


---------------------------------------------------------------------------
(* Enough digits read back: the magnitudes and the gaps between them *)

LEMMA Reach ==
  /\ UnitExp \in Nat \ {0} /\ UnitExp <= MaxDigits /\ UnitExp = Prec - 1 - EMin
  /\ 2 ^ UnitExp \in Nat \ {0} /\ 2 ^ (UnitExp + 1) = 2 * 2 ^ UnitExp
  /\ 2 ^ Prec \in Nat \ {0} /\ 2 ^ Prec = 2 * Hidden
  /\ SmallExp10 \in 0 .. MaxDigits /\ LargeExp10 \in 0 .. MaxDigits - 1
  /\ DefaultPrecision <= MaxPrecision /\ MaxPrecision <= SmallExp10
<1>1. /\ Prec \in Nat /\ Prec > 1 /\ EMin \in Int /\ EMax \in Int /\ EMin <= 0 /\ 0 <= EMax
      /\ MaxDigits \in Nat /\ MaxPrecision \in Nat /\ SmallExp10 \in Nat /\ LargeExp10 \in Nat
      /\ UnitExp = Prec - 1 - EMin /\ UnitExp <= MaxDigits
  BY Format, Sizes, FormatAssumption, HexAssumption, SizeAssumption
<1>2. /\ MostBits \in Nat /\ Prec + EMax - EMin <= MostBits
      /\ PowersUpTo(2, MostBits) /\ \A k \in 0 .. MostBits : 2 ^ k \in Nat \ {0}
  BY MostBitsAre
<1>3. /\ UnitExp \in 0 .. MostBits - 1 /\ UnitExp \in Nat \ {0}
      /\ Prec \in 0 .. MostBits /\ Prec - 1 \in 0 .. MostBits - 1 /\ (Prec - 1) + 1 = Prec
  BY <1>1, <1>2
<1>4. 2 ^ UnitExp \in Nat \ {0} /\ 2 ^ (UnitExp + 1) = 2 * 2 ^ UnitExp /\ 2 ^ Prec \in Nat \ {0}
  <2>1. UnitExp \in 0 .. MostBits
    BY <1>2, <1>3
  <2>. QED  BY <1>2, <1>3, <2>1 DEF PowersUpTo
<1>5. 2 ^ Prec = 2 * Hidden
  <2>1. 2 ^ ((Prec - 1) + 1) = 2 * 2 ^ (Prec - 1)
    BY <1>2, <1>3 DEF PowersUpTo
  <2>. QED  BY <1>3, <2>1 DEF Hidden
<1>6. /\ DefaultPrecision <= MaxPrecision /\ MaxPrecision <= SmallExp10
      /\ SmallExp10 <= MaxDigits /\ LargeExp10 < MaxDigits
  BY ReachAssumption
<1>. QED  BY <1>1, <1>3, <1>4, <1>5, <1>6

\* The parts of a magnitude.
LEMMA MagnitudeParts ==
  ASSUME NEW b \in 0 .. InfBits
  PROVE  /\ b \div Hidden \in 0 .. EMax + Bias + 1 /\ b % Hidden \in 0 .. Hidden - 1
         /\ b = Hidden * (b \div Hidden) + (b % Hidden)
<1> DEFINE d == b \div Hidden
           r == b % Hidden
           c == EMax + Bias + 1
           h == Hidden
<1>1. h \in Nat \ {0} /\ c \in Nat /\ InfBits = h * c /\ InfBits \in Nat
  BY Format
<1>2. d \in Nat /\ r \in 0 .. h - 1 /\ b = h * d + r
  <2>1. b \in Nat
    BY <1>1
  <2> HIDE DEF h
  <2>2. b \div h \in Nat /\ b % h \in 0 .. h - 1 /\ b = h * (b \div h) + (b % h)
    BY <1>1, <2>1, DivMod
  <2>. QED  BY <2>2 DEF h
<1> HIDE DEF d, r, c, h
<1>3. b < h * (c + 1)
  <2>1. h * (c + 1) = h * c + h
    BY <1>1
  <2>. QED  BY <1>1, <2>1
<1>4. d < c + 1
  <2>1. b \in Nat /\ c + 1 \in Nat
    BY <1>1
  <2>2. b \div h < c + 1
    BY <1>1, <1>3, <2>1, QuotientBelow
  <2>. QED  BY <2>2 DEF d, h
<1>5. d \in 0 .. c /\ r \in 0 .. h - 1 /\ b = h * d + r
  BY <1>1, <1>2, <1>4
<1>. QED  BY <1>5 DEF d, r, c, h

LEMMA ExponentPower ==
  ASSUME NEW d \in 0 .. EMax + Bias + 1
  PROVE  /\ d > 0 => 2 ^ (d - 1) \in Nat \ {0} /\ d - 1 \in 0 .. MostBits
         /\ d > 0 /\ d <= EMax + Bias => 2 ^ d = 2 * 2 ^ (d - 1)
         /\ 2 ^ 0 = 1
<1>1. /\ MostBits \in Nat /\ Prec + EMax - EMin <= MostBits
      /\ PowersUpTo(2, MostBits) /\ \A k \in 0 .. MostBits : 2 ^ k \in Nat \ {0}
      /\ Prec \in Nat /\ Prec > 1 /\ EMin \in Int /\ EMax \in Int /\ Bias = 1 - EMin
  BY MostBitsAre, Format
<1>2. d > 0 => d - 1 \in 0 .. MostBits
  BY <1>1
<1>3. d > 0 /\ d <= EMax + Bias => d - 1 \in 0 .. MostBits - 1 /\ (d - 1) + 1 = d
  BY <1>1
<1>4. \A k \in 0 .. MostBits - 1 : 2 ^ (k + 1) = 2 * 2 ^ k
  BY <1>1 DEF PowersUpTo
<1>5. d > 0 /\ d <= EMax + Bias => 2 ^ ((d - 1) + 1) = 2 * 2 ^ (d - 1)
  BY <1>3, <1>4, Zenon
<1>6. 2 ^ 0 = 1
  BY <1>1 DEF PowersUpTo
<1>. QED  BY <1>1, <1>2, <1>3, <1>5, <1>6

LEMMA MagnitudeUnits ==
  ASSUME NEW d \in 0 .. EMax + Bias + 1, NEW r \in 0 .. Hidden - 1
  PROVE  Units(Hidden * d + r) = IF d = 0 THEN r ELSE (Hidden + r) * 2 ^ (d - 1)
<1>1. Hidden \in Nat \ {0} /\ d \in Nat
  BY Format
<1>2. (Hidden * d + r) \div Hidden = d /\ (Hidden * d + r) % Hidden = r
  <2> DEFINE a == Hidden * d + r
  <2>1. a \in Nat /\ a = Hidden * d + r
    BY <1>1
  <2> HIDE DEF a
  <2>2. a \div Hidden = d /\ a % Hidden = r
    BY <1>1, <2>1, DivModIs
  <2>. QED  BY <2>2 DEF a
<1>. QED  BY <1>2, Zenon DEF Units

LEMMA MagnitudeType ==
  ASSUME NEW b \in 0 .. InfBits
  PROVE  Units(b) \in Nat
<1> DEFINE d == b \div Hidden
           r == b % Hidden
<1>1. d \in 0 .. EMax + Bias + 1 /\ r \in 0 .. Hidden - 1 /\ b = Hidden * d + r /\ Hidden \in Nat \ {0}
  BY MagnitudeParts, Format
<1> HIDE DEF d, r
<1>2. Units(b) = IF d = 0 THEN r ELSE (Hidden + r) * 2 ^ (d - 1)
  BY <1>1, MagnitudeUnits
<1>3. d # 0 => 2 ^ (d - 1) \in Nat
  BY <1>1, Format, ExponentPower
<1>4. d # 0 => (Hidden + r) * 2 ^ (d - 1) \in Nat
  BY <1>1, <1>3
<1>. QED  BY <1>1, <1>2, <1>4

\* The next magnitude is a gap away, and no more than 2^Prec of its gaps.
Gap(b) == Units(b + 1) - Units(b)

LEMMA GapIs ==
  ASSUME NEW b \in 0 .. InfBits - 1
  PROVE  /\ Gap(b) \in Nat \ {0} /\ Units(b + 1) = Units(b) + Gap(b)
         /\ Units(b + 1) <= Gap(b) * 2 ^ Prec
         /\ Units(b) \in Nat /\ Units(b + 1) \in Nat
<1> DEFINE d == b \div Hidden
           r == b % Hidden
<1>0. b \in 0 .. InfBits /\ b + 1 \in 0 .. InfBits /\ b < InfBits
  BY Format
<1>1. d \in 0 .. EMax + Bias + 1 /\ r \in 0 .. Hidden - 1 /\ b = Hidden * d + r /\ Hidden \in Nat \ {0}
  BY <1>0, MagnitudeParts, Format
<1>2. d < EMax + Bias + 1
  <2>1. b \in Nat /\ EMax + Bias + 1 \in Nat /\ b < Hidden * (EMax + Bias + 1)
    BY <1>0, Format
  <2>. QED  BY <1>1, <2>1, QuotientBelow
<1> HIDE DEF d, r
<1>3. /\ d \in 0 .. EMax + Bias + 1 /\ d + 1 \in 0 .. EMax + Bias + 1 /\ d <= EMax + Bias
      /\ Hidden * d \in Nat /\ r \in Nat
  BY <1>1, <1>2, Format
<1> DEFINE g == IF d = 0 THEN 1 ELSE 2 ^ (d - 1)
           base == IF d = 0 THEN 0 ELSE Hidden
<1>4. g \in Nat \ {0} /\ base \in 0 .. Hidden /\ base \in Nat
  <2>1. d # 0 => 2 ^ (d - 1) \in Nat \ {0}
    BY <1>3, ExponentPower
  <2>. QED  BY <1>1, <2>1
<1>5. Units(b) = (base + r) * g
  <2>1. Units(b) = IF d = 0 THEN r ELSE (Hidden + r) * 2 ^ (d - 1)
    BY <1>1, <1>3, MagnitudeUnits
  <2>2. CASE d = 0
    BY <1>3, <2>1, <2>2
  <2>3. CASE d # 0
    BY <2>1, <2>3
  <2>. QED  BY <2>2, <2>3
<1>6. Units(b + 1) = (base + r + 1) * g
  <2>1. CASE r + 1 # Hidden
    <3>1. r + 1 \in 0 .. Hidden - 1 /\ b + 1 = Hidden * d + (r + 1)
      BY <1>1, <1>3, <2>1
    <3>2. Units(b + 1) = IF d = 0 THEN r + 1 ELSE (Hidden + (r + 1)) * 2 ^ (d - 1)
      BY <1>3, <3>1, MagnitudeUnits
    <3>3. CASE d = 0
      <4>1. (0 + r + 1) * 1 = r + 1
        BY <1>3
      <4>. QED  BY <3>2, <3>3, <4>1
    <3>4. CASE d # 0
      <4>1. Hidden + (r + 1) = Hidden + r + 1
        BY <1>1, <1>3
      <4>. QED  BY <3>2, <3>4, <4>1
    <3>. QED  BY <3>3, <3>4
  <2>2. CASE r + 1 = Hidden
    <3>1. 0 \in 0 .. Hidden - 1 /\ b + 1 = Hidden * (d + 1) + 0
      BY <1>1, <1>3, <2>2
    <3>2. Units(b + 1) = IF d + 1 = 0 THEN 0 ELSE (Hidden + 0) * 2 ^ ((d + 1) - 1)
      BY <1>3, <3>1, MagnitudeUnits
    <3>3. d + 1 # 0 /\ (d + 1) - 1 = d /\ Hidden + 0 = Hidden
      BY <1>1, <1>3
    <3>4. Units(b + 1) = Hidden * 2 ^ d
      BY <3>2, <3>3, Zenon
    <3>5. CASE d = 0
      <4>1. 2 ^ d = 1
        BY <1>3, <3>5, ExponentPower
      <4>. QED  BY <1>1, <1>3, <2>2, <3>4, <3>5, <4>1
    <3>6. CASE d # 0
      <4>1. d > 0
        BY <1>3, <3>6
      <4>2. 2 ^ d = 2 * 2 ^ (d - 1)
        BY <1>3, <4>1, ExponentPower
      <4>3. g = 2 ^ (d - 1) /\ base = Hidden
        BY <3>6
      <4>4. Hidden + r + 1 = 2 * Hidden
        BY <1>1, <1>3, <2>2
      <4>5. \A h, x \in Nat : h * (2 * x) = (2 * h) * x
        OBVIOUS
      <4>6. Hidden * (2 * g) = (2 * Hidden) * g
        BY <1>1, <1>4, <4>5
      <4>. QED  BY <3>4, <4>2, <4>3, <4>4, <4>6
    <3>. QED  BY <3>5, <3>6
  <2>. QED  BY <2>1, <2>2
<1> HIDE DEF g, base
<1>7. (base + r + 1) * g = (base + r) * g + g /\ (base + r) * g \in Nat
  <2>1. base + r \in Nat
    BY <1>3, <1>4
  <2>2. \A x \in Nat : (x + 1) * g = x * g + g /\ x * g \in Nat
    BY <1>4
  <2>. QED  BY <2>1, <2>2
<1>8. Gap(b) = g
  BY <1>4, <1>5, <1>6, <1>7 DEF Gap
<1>9. (base + r + 1) * g <= g * 2 ^ Prec
  <2>1. base + r + 1 <= 2 ^ Prec /\ base + r + 1 \in Nat /\ 2 ^ Prec \in Nat
    BY <1>1, <1>3, <1>4, Reach
  <2>2. (base + r + 1) * g <= 2 ^ Prec * g /\ 2 ^ Prec * g = g * 2 ^ Prec
    BY <1>4, <2>1, Products
  <2>. QED  BY <2>2
<1>. QED  BY <1>4, <1>5, <1>6, <1>7, <1>8, <1>9

\* The order of the bits is that of the magnitudes.
LEMMA MagnitudeOrder ==
  ASSUME NEW b \in 0 .. InfBits, NEW c \in 0 .. InfBits
  PROVE  /\ b < c => Units(b) < Units(c)
         /\ b <= c => Units(b) <= Units(c)
         /\ Units(b) \in Nat
<1> DEFINE S == {x \in 0 .. InfBits : \A y \in 0 .. InfBits : y < x => Units(y) < Units(x)}
<1>0. InfBits \in Nat
  BY Format
<1>1. 0 \in S
  BY <1>0
<1>2. \A x \in 0 .. InfBits - 1 : x \in S => x + 1 \in S
  <2> SUFFICES ASSUME NEW x \in 0 .. InfBits - 1, x \in S PROVE x + 1 \in S
    OBVIOUS
  <2>1. x \in 0 .. InfBits /\ x + 1 \in 0 .. InfBits
    BY <1>0
  <2>2. Units(x) < Units(x + 1) /\ Units(x) \in Nat /\ Units(x + 1) \in Nat
    BY <2>1, GapIs
  <2>3. ASSUME NEW y \in 0 .. InfBits, y < x + 1
        PROVE  Units(y) < Units(x + 1)
    <3>1. Units(y) \in Nat /\ (y < x \/ y = x)
      BY <2>3, MagnitudeType
    <3>2. y < x => Units(y) < Units(x)
      OBVIOUS
    <3>. QED  BY <2>2, <3>1, <3>2
  <2>. QED  BY <2>1, <2>3
<1>3. 0 .. InfBits \subseteq S
  <2> HIDE DEF S
  <2>. QED  BY <1>0, <1>1, <1>2, InductionUpTo
<1>4. b < c => Units(b) < Units(c)
  BY <1>3
<1>5. Units(b) \in Nat /\ Units(c) \in Nat
  BY MagnitudeType
<1>. QED  BY <1>4, <1>5
---------------------------------------------------------------------------
(* The exact decimal is the number *)

LEMMA TenIs ==
  ASSUME NEW k \in 0 .. MaxDigits
  PROVE  10 ^ k = 2 ^ k * 5 ^ k /\ 2 ^ k \in Nat \ {0} /\ 5 ^ k \in Nat \ {0}
<1>1. /\ MaxDigits \in Nat /\ PowersUpTo(2, MaxDigits) /\ PowersUpTo(5, MaxDigits)
      /\ PowersUpTo(10, MaxDigits)
  BY Sizes, PowersAssumption
<1>2. \A n \in 0 .. MaxDigits : 2 ^ n \in Nat \ {0} /\ 5 ^ n \in Nat \ {0} /\ 10 ^ n \in Nat
  <2>1. \A b \in {2, 5, 10} : b \in Nat \ {0} /\ PowersUpTo(b, MaxDigits)
    BY <1>1
  <2>2. \A b \in {2, 5, 10}, n \in 0 .. MaxDigits : b ^ n \in Nat \ {0}
    BY <1>1, <2>1, PowerPositive
  <2>. QED  BY <2>2
<1> DEFINE S == {n \in Nat : 10 ^ n = 2 ^ n * 5 ^ n}
<1>3. 0 \in S
  BY <1>1 DEF PowersUpTo
<1>4. ASSUME NEW n \in 0 .. MaxDigits - 1, n \in S PROVE n + 1 \in S
  <2>1. 10 ^ n = 2 ^ n * 5 ^ n /\ n \in 0 .. MaxDigits /\ n + 1 \in Nat
    BY <1>1, <1>4
  <2>2. 10 ^ (n + 1) = 10 * 10 ^ n /\ 2 ^ (n + 1) = 2 * 2 ^ n /\ 5 ^ (n + 1) = 5 * 5 ^ n
    BY <1>1 DEF PowersUpTo
  <2>3. \A x, y \in Nat : 10 * (x * y) = (2 * x) * (5 * y)
    OBVIOUS
  <2>4. 10 * (2 ^ n * 5 ^ n) = (2 * 2 ^ n) * (5 * 5 ^ n)
    BY <1>2, <2>1, <2>3
  <2>5. 10 ^ (n + 1) = 2 ^ (n + 1) * 5 ^ (n + 1)
    BY <2>1, <2>2, <2>4, Zenon
  <2>. QED  BY <2>1, <2>5
<1> HIDE DEF S
<1>5. 0 .. MaxDigits \subseteq S
  BY <1>1, <1>3, <1>4, InductionUpTo
<1>. QED  BY <1>2, <1>5 DEF S

LEMMA WorthExact ==
  ASSUME IInv, Exact
  PROVE  WorthInv'
<1> DEFINE biased == bits \div Hidden
           frac == bits % Hidden
           mantissa == IF biased = 0 THEN bits ELSE Hidden + frac
           up == IF biased = 0 THEN 0 ELSE biased - 1
           exp2 == up - UnitExp
<1>1. /\ bits \in FiniteBits /\ bits' = bits /\ pc' \in {"fractional", "significant"}
      /\ digits' = IF exp2 >= 0 THEN mantissa * 2 ^ exp2 ELSE mantissa * 5 ^ (-exp2)
      /\ scale' = IF exp2 >= 0 \/ mantissa = 0 THEN 0 ELSE -exp2
  BY DEF Exact, spec
<1>2. bits \in 0 .. InfBits /\ bits < InfBits /\ bits \in Nat /\ Hidden \in Nat \ {0}
  BY <1>1, Format DEF FiniteBits
<1>3. biased \in 0 .. EMax + Bias + 1 /\ frac \in 0 .. Hidden - 1 /\ bits = Hidden * biased + frac
  BY <1>2, MagnitudeParts
<1>4. biased < EMax + Bias + 1
  <2>1. bits < Hidden * (EMax + Bias + 1) /\ EMax + Bias + 1 \in Nat
    BY <1>2, Format
  <2>. QED  BY <1>2, <2>1, QuotientBelow
<1>5. Units(bits) = IF biased = 0 THEN frac ELSE (Hidden + frac) * 2 ^ (biased - 1)
  BY DEF Units
<1> HIDE DEF biased, frac
<1>6. biased = 0 => bits = frac
  BY <1>2, <1>3
<1>7. /\ mantissa \in Nat /\ up \in Nat /\ up <= EMax + Bias /\ UnitExp \in Nat \ {0} /\ UnitExp <= MaxDigits
      /\ exp2 \in Int /\ exp2 >= -UnitExp
      /\ MostBits \in Nat /\ PowersUpTo(2, MostBits) /\ up <= MostBits /\ UnitExp <= MostBits
      /\ \A k \in 0 .. MostBits : 2 ^ k \in Nat \ {0}
  BY <1>2, <1>3, <1>4, MostBitsAre, Reach, Format, HexAssumption
<1>8. Units(bits) = mantissa * 2 ^ up
  <2>1. CASE biased = 0
    <3>1. 2 ^ 0 = 1
      BY <1>7 DEF PowersUpTo
    <3>2. up = 0 /\ mantissa = frac /\ Units(bits) = frac /\ frac * 1 = frac
      BY <1>3, <1>5, <1>6, <2>1
    <3>. QED  BY <3>1, <3>2, Zenon
  <2>2. CASE biased # 0
    BY <1>5, <2>2
  <2>. QED  BY <2>1, <2>2
<1> HIDE DEF mantissa, up
<1> DEFINE m == mantissa
           u == 2 ^ UnitExp
<1>9. CASE exp2 >= 0
  <2>1. digits' = m * 2 ^ exp2 /\ scale' = 0
    BY <1>1, <1>9
  <2>2. exp2 \in Nat /\ exp2 + UnitExp = up /\ exp2 + UnitExp <= MostBits /\ exp2 \in 0 .. MostBits
    BY <1>7, <1>9
  <2>3. 2 ^ (exp2 + UnitExp) = 2 ^ exp2 * 2 ^ UnitExp
    <3> HIDE DEF exp2
    <3>. QED  BY <1>7, <2>2, PowerSum
  <2>4. 10 ^ 0 = 1
    BY Tens, Sizes
  <2> DEFINE x == 2 ^ exp2
  <2>5. x \in Nat /\ u \in Nat /\ 2 ^ up = x * u
    BY <1>7, <2>2, <2>3, Reach
  <2> HIDE DEF x, u, exp2
  <2>6. (m * x) * u = m * (x * u) /\ m * (x * u) \in Nat
    <3> HIDE DEF m
    <3>. QED  BY <1>7, <2>5, Swapped DEF m
  <2>7. Units(bits) * 1 = Units(bits)
    BY <1>8, <2>5, <2>6
  <2>8. digits' * 2 ^ UnitExp = Units(bits) * 10 ^ scale'
    BY <1>8, <2>1, <2>4, <2>5, <2>6, <2>7, Zenon DEF x, u, m
  <2>9. scale' <= UnitExp
    BY <1>7, <2>1
  <2>. QED  BY <1>1, <2>8, <2>9 DEF WorthInv, FiniteBits, Hidden
<1>10. CASE exp2 < 0
  <2> DEFINE k == -exp2
  <2>1. k \in 0 .. MaxDigits /\ k \in Nat /\ k <= UnitExp /\ up + k = UnitExp /\ up + k <= MostBits
        /\ digits' = m * 5 ^ k /\ scale' = (IF m = 0 THEN 0 ELSE k)
    BY <1>1, <1>7, <1>10, Sizes
  <2> HIDE DEF k, exp2
  <2>2. 10 ^ k = 2 ^ k * 5 ^ k /\ 2 ^ k \in Nat \ {0} /\ 5 ^ k \in Nat \ {0}
    BY <2>1, TenIs
  <2>3. 2 ^ (up + k) = 2 ^ up * 2 ^ k
    BY <1>7, <2>1, PowerSum
  <2> DEFINE x == 2 ^ k
             f == 5 ^ k
             v == 2 ^ up
  <2>4. x \in Nat /\ f \in Nat /\ v \in Nat /\ u = v * x /\ 10 ^ k = x * f
    BY <1>7, <2>1, <2>2, <2>3
  <2> HIDE DEF x, f, v, u
  <2>5. (m * f) * (v * x) = (m * v) * (x * f)
    <3>1. \A a, b1, c1, d1 \in Nat : (a * b1) * (c1 * d1) = (a * c1) * (d1 * b1)
      <4> SUFFICES ASSUME NEW a \in Nat, NEW b1 \in Nat, NEW c1 \in Nat, NEW d1 \in Nat
                   PROVE  (a * b1) * (c1 * d1) = (a * c1) * (d1 * b1)
        OBVIOUS
      <4>1. (a * b1) * (c1 * d1) = a * (b1 * (c1 * d1)) /\ (a * c1) * (d1 * b1) = a * (c1 * (d1 * b1))
        BY Swapped
      <4>2. b1 * (c1 * d1) = c1 * (d1 * b1)
        BY Swapped
      <4>. QED  BY <4>1, <4>2
    <3>. QED  BY <1>7, <2>4, <3>1
  <2>6. digits' * 2 ^ UnitExp = Units(bits) * 10 ^ k
    BY <1>8, <2>1, <2>4, <2>5, Zenon DEF u, f, v, m
  <2>7. digits' * 2 ^ UnitExp = Units(bits) * 10 ^ scale' /\ scale' <= UnitExp
    <3>1. CASE m = 0
      <4>1. 0 * f = 0 /\ 0 * v = 0 /\ 10 ^ 0 = 1
        BY <2>4, Tens, Sizes
      <4>2. digits' = 0 /\ Units(bits) = 0 /\ scale' = 0
        BY <1>8, <2>1, <3>1, <4>1 DEF m, v, f
      <4>3. 2 ^ UnitExp \in Nat
        BY Reach
      <4>. QED  BY <1>7, <4>1, <4>2, <4>3
    <3>2. CASE m # 0
      BY <2>1, <2>6, <3>2
    <3>. QED  BY <3>1, <3>2
  <2>. QED  BY <1>1, <2>7 DEF WorthInv, FiniteBits, Hidden
<1>. QED  BY <1>7, <1>9, <1>10

LEMMA WorthSame ==
  ASSUME WorthInv, UNCHANGED <<spec, exactly>>,
         pc' \in {"fractional", "significant", "shrink", "emit"} \/ InDecimal' =>
           pc \in {"fractional", "significant", "shrink", "emit"} \/ InDecimal
  PROVE  WorthInv'
<1>1. bits' = bits /\ digits' = digits /\ scale' = scale
  BY DEF spec, exactly
<1>. QED  BY <1>1 DEF WorthInv

(***************************************************************************)
(* What ryu_exact_decimal_from_bits makes of a double is the double, in    *)
(* every format and for every number of it, subnormal or not, and stays so *)
(* until the answer is given.                                              *)
(***************************************************************************)
THEOREM DecimalIsExact == TSpec => []WorthInv
<1>1. TInit => WorthInv
  BY DEF TInit, Init, WorthInv, InDecimal, Printed
<1>2. IInv /\ WorthInv /\ [TNext]_<<vars, out>> => WorthInv'
  <2> SUFFICES ASSUME IInv, WorthInv, [TNext]_<<vars, out>> PROVE WorthInv'
    OBVIOUS
  <2>1. CASE UNCHANGED vars
    BY <2>1, WorthSame DEF vars, spec, exactly, InDecimal, Printed
  <2>2. CASE Compute
    <3>1. CASE Exact
      BY <3>1, WorthExact
    <3>2. CASE Reject
      BY <3>2, WorthSame DEF Reject, Answer, InDecimal, Printed
    <3>3. CASE NotFinite
      BY <3>3, WorthSame DEF NotFinite, Answer, InDecimal, Printed, spec
    <3>4. CASE Fractional \/ ZeroSignificant \/ Significant \/ Shrink \/ Emit
      <4>1. pc \in {"fractional", "significant", "shrink", "emit"}
        BY <3>4 DEF Fractional, ZeroSignificant, Significant, Shrink, Emit
      <4>2. UNCHANGED <<spec, exactly>>
        BY <3>4 DEF Fractional, ZeroSignificant, Significant, Shrink, Emit
      <4>. QED  BY <4>1, <4>2, WorthSame
    <3>5. CASE Hexadecimal
      <4>1. kind' = "a" /\ pc' = "done"
        BY <3>5 DEF Hexadecimal, Answer, spec
      <4>. QED  BY <4>1 DEF WorthInv, InDecimal
    <3>. QED  BY <2>2, <3>1, <3>2, <3>3, <3>4, <3>5 DEF Compute, Next
  <2>. QED  BY <2>1, <2>2 DEF TNext, LayOut
<1>. QED  BY <1>1, <1>2, Invariance, PTL DEF TSpec

\* Neither are more digits left out, or filled up, than a number can have.
LEMMA CutStep ==
  ASSUME IInv, CutInv, Next \/ Hexadecimal
  PROVE  CutInv'
<1>1. CASE Reject \/ NotFinite \/ Exact \/ Fractional \/ Significant \/ Hexadecimal
  <2>1. CASE Reject
    BY <2>1 DEF Reject, Answer, CutInv, InDecimal, Printed
  <2>2. CASE NotFinite
    BY <2>2 DEF NotFinite, Answer, CutInv, InDecimal, Printed, spec
  <2>3. CASE Exact
    BY <2>3 DEF Exact, CutInv, InDecimal, Printed
  <2>4. CASE Fractional
    <3>1. kind' = "f" /\ pc' = "done"
      BY <2>4 DEF Fractional, Answer, spec, IInv, ExactInv
    <3>. QED  BY <3>1 DEF CutInv
  <2>5. CASE Significant
    <3>1. pc' = "shrink" \/ (pc' = "done" /\ status' = "UNSUPPORTED")
      BY <2>5 DEF Significant, Answer
    <3>. QED  BY <3>1 DEF CutInv, InDecimal, Printed
  <2>6. CASE Hexadecimal
    BY <2>6 DEF Hexadecimal, Answer, spec, CutInv, InDecimal
  <2>. QED  BY <1>1, <2>1, <2>2, <2>3, <2>4, <2>5, <2>6
<1>2. CASE ZeroSignificant
  <2>1. /\ Accepted /\ TypeInv /\ kind \in {"e", "g"} /\ scale = 0 /\ exp10 = 0
        /\ UNCHANGED <<bits, negative, kind, precision, mode, scale, exp10>>
    BY <1>2 DEF ZeroSignificant, IInv, ExactInv, spec, exactly
  <2>2. SigDigits \in 1 .. MaxDigits - 1 /\ SigDigits' = SigDigits
    BY <2>1, Precision DEF SigDigits, Effective
  <2>3. LeftOut' = 1 - SigDigits
    BY <2>1, <2>2 DEF LeftOut
  <2>. QED  BY <2>2, <2>3, Sizes DEF CutInv
<1>3. CASE Shrink
  <2> DEFINE l == DecimalLen(digits)
  <2>1. /\ pc = "shrink" /\ TypeInv /\ Accepted /\ kind \in {"e", "g"} /\ digits \in Nat /\ digits < 10 ^ MaxDigits
        /\ LeftOut = l - SigDigits \/ LeftOut = l - SigDigits + 1
        /\ scale \in Nat /\ exp10 \in Int
        /\ UNCHANGED <<bits, negative, kind, precision, mode, scale>>
        /\ pc' = "shrink" \/ (pc' = "emit" /\ exp10' = exp10)
    BY <1>3 DEF Shrink, IInv, ExactInv, ShrinkInv, TypeInv, spec, exactly
  <2>2. SigDigits \in 1 .. MaxDigits - 1 /\ SigDigits' = SigDigits /\ l \in 1 .. MaxDigits
    BY <2>1, Precision, Length DEF SigDigits, Effective
  <2> HIDE DEF l
  <2>3. LeftOut \in -MaxDigits .. MaxDigits
    BY <2>1, <2>2, Sizes
  <2>4. CASE pc' = "emit" /\ exp10' = exp10
    <3>1. LeftOut' = LeftOut
      BY <2>1, <2>2, <2>4 DEF LeftOut
    <3>. QED  BY <2>3, <3>1, Sizes DEF CutInv
  <2>5. CASE pc' = "shrink"
    BY <2>5 DEF CutInv, InDecimal, Printed
  <2>. QED  BY <2>1, <2>4, <2>5
<1>4. CASE Emit
  <2>1. /\ pc = "emit" /\ UNCHANGED <<bits, negative, kind, precision, mode, scale, exp10>>
    BY <1>4 DEF Emit, spec, exactly
  <2>2. LeftOut' = LeftOut
    BY <2>1 DEF LeftOut, SigDigits, Effective
  <2>. QED  BY <2>1, <2>2 DEF CutInv
<1>. QED  BY <1>1, <1>2, <1>3, <1>4 DEF Next

LEMMA CutAlways == TSpec => []CutInv
<1>1. TInit => CutInv
  BY DEF TInit, Init, CutInv, InDecimal, Printed
<1>2. IInv /\ CutInv /\ [TNext]_<<vars, out>> => CutInv'
  <2> SUFFICES ASSUME IInv, CutInv, [TNext]_<<vars, out>> PROVE CutInv'
    OBVIOUS
  <2>1. CASE UNCHANGED vars
    <3>1. UNCHANGED <<bits, negative, kind, precision, mode, scale, exp10, pc, status>>
      BY <2>1 DEF vars, spec, exactly
    <3>2. LeftOut' = LeftOut
      BY <3>1 DEF LeftOut, SigDigits, Effective
    <3>. QED  BY <3>1, <3>2 DEF CutInv, InDecimal, Printed
  <2>2. CASE Compute
    BY <2>2, CutStep DEF Compute
  <2>. QED  BY <2>1, <2>2 DEF TNext, LayOut
<1>. QED  BY <1>1, <1>2, Invariance, PTL DEF TSpec

---------------------------------------------------------------------------
(* How near the rounded number is *)

\* Rounding to nearest leaves no more than half a unit of the last place.
LEMMA RoundedNear ==
  ASSUME NEW n \in Nat, NEW k \in 1 .. MaxDigits, mode = "NEAREST_EVEN"
  PROVE  /\ RoundedTo(n, k) \in Nat
         /\ 2 * (RoundedTo(n, k) * 10 ^ k) <= 2 * n + 10 ^ k
         /\ 2 * n <= 2 * (RoundedTo(n, k) * 10 ^ k) + 10 ^ k
<1> DEFINE t == 10 ^ k
           q == n \div t
           r == n % t
           x == RoundedTo(n, k)
<1>1. t \in Nat \ {0}
  BY Tens, Sizes
<1>2. q \in Nat /\ r \in 0 .. t - 1 /\ n = t * q + r
  <2> HIDE DEF t
  <2>. QED  BY <1>1, DivMod
<1>3. x = IF RoundsRest(r, t, q % 2 = 1) THEN q + 1 ELSE q
  BY RoundedToIs
<1>4. RoundsRest(r, t, q % 2 = 1) <=> (2 * r > t \/ (2 * r = t /\ q % 2 = 1))
  BY DEF RoundsRest
<1> HIDE DEF t, q, r, x
<1>5. (x = q + 1 /\ 2 * r >= t) \/ (x = q /\ 2 * r <= t)
  <2>1. CASE RoundsRest(r, t, q % 2 = 1)
    <3>1. x = q + 1
      BY <1>3, <2>1, Zenon
    <3>2. 2 * r > t \/ 2 * r = t
      BY <1>4, <2>1, Zenon
    <3>. QED  BY <1>1, <1>2, <3>1, <3>2
  <2>2. CASE ~ RoundsRest(r, t, q % 2 = 1)
    <3>1. x = q
      BY <1>3, <2>2, Zenon
    <3>2. ~ (2 * r > t)
      BY <1>4, <2>2, Zenon
    <3>. QED  BY <1>1, <1>2, <3>1, <3>2
  <2>. QED  BY <2>1, <2>2
<1>6. t * q \in Nat /\ q * t = t * q /\ (q + 1) * t = t * q + t
  BY <1>1, <1>2
<1>7. x \in Nat /\ 2 * (x * t) <= 2 * n + t /\ 2 * n <= 2 * (x * t) + t
  BY <1>1, <1>2, <1>5, <1>6
<1>. QED  BY <1>7 DEF x, t

\* The number n, at T to the unit, that is rounded from d, and d is u units of 1/U, in halves,
\* at scale s: if n has more than p units the number is nearer to u than half the gap g.
LEMMA NearerThanGap ==
  ASSUME NEW d \in Nat, NEW n \in Nat, NEW T \in Nat \ {0}, NEW U \in Nat \ {0}, NEW s \in Nat \ {0},
         NEW u \in Nat, NEW g \in Nat \ {0}, NEW p \in Nat \ {0},
         d * U = (2 * u) * s, 2 * (n * T) <= 2 * d + T, 2 * d <= 2 * (n * T) + T,
         p < n, u <= g * p
  PROVE  /\ (n * T) * U < (2 * u + g) * s
         /\ (2 * u) * s < (n * T) * U + g * s
<1>1. (p + 1) * T <= n * T /\ (p + 1) * T = p * T + T /\ p * T \in Nat /\ n * T \in Nat
  <2>1. p + 1 \in Nat /\ p + 1 <= n
    OBVIOUS
  <2>2. (p + 1) * T <= n * T
    BY <2>1, Products
  <2>. QED  BY <2>2
<1> DEFINE a == n * T
<1>2. a \in Nat /\ p * T + T <= a /\ 2 * a <= 2 * d + T /\ 2 * d <= 2 * a + T
  BY <1>1
<1> HIDE DEF a
<1>3. p * T < d
  BY <1>1, <1>2
<1>4. (p * T) * U < d * U
  BY <1>1, <1>3, Products
<1>5. (2 * u) * s <= ((2 * g) * s) * p
  <2>1. u * s <= (g * p) * s
    BY Products
  <2>2. (2 * u) * s = 2 * (u * s) /\ ((2 * g) * s) * p = 2 * ((g * p) * s) /\ u * s \in Nat /\ (g * p) * s \in Nat
    <3>1. (g * p) * s = (g * s) * p /\ (2 * g) * s = 2 * (g * s) /\ (2 * (g * s)) * p = 2 * ((g * s) * p)
      <4>1. (g * p) * s = (g * s) * p
        BY Swapped
      <4>2. (2 * (g * s)) * p = 2 * ((g * s) * p)
        BY Swapped
      <4>. QED  BY <4>1, <4>2
    <3>. QED  BY <3>1
  <2>. QED  BY <2>1, <2>2
<1>6. T * U < (2 * g) * s
  <2> DEFINE v == T * U
             w == (2 * g) * s
  <2>1. v \in Nat /\ w \in Nat /\ (p * T) * U = v * p
    <3>1. (p * T) * U = (T * U) * p
      BY Swapped
    <3>. QED  BY <3>1
  <2> HIDE DEF v
  <2>2. v * p < w * p
    <3>1. v * p < (2 * u) * s
      BY <1>4, <2>1
    <3>2. (2 * u) * s \in Nat /\ w * p \in Nat /\ v * p \in Nat
      BY <2>1
    <3>3. (2 * u) * s <= w * p
      BY <1>5
    <3> HIDE DEF w
    <3>. QED  BY <3>1, <3>2, <3>3
  <2> HIDE DEF w
  <2>3. v < w
    BY <2>1, <2>2, Products
  <2>. QED  BY <2>3 DEF v, w
<1>7. /\ (2 * a) * U <= (2 * d + T) * U /\ (2 * d) * U <= (2 * a + T) * U
      /\ (2 * d + T) * U = 2 * (d * U) + T * U /\ (2 * a + T) * U = 2 * (a * U) + T * U
      /\ (2 * a) * U = 2 * (a * U) /\ (2 * d) * U = 2 * (d * U)
      /\ a * U \in Nat /\ d * U \in Nat /\ T * U \in Nat
  <2>1. 2 * a \in Nat /\ 2 * d + T \in Nat /\ 2 * d \in Nat /\ 2 * a + T \in Nat
    BY <1>2
  <2>2. (2 * a) * U <= (2 * d + T) * U /\ (2 * d) * U <= (2 * a + T) * U
    BY <1>2, <2>1, Products
  <2>. QED  BY <1>2, <2>2
<1>8. (2 * u + g) * s = (2 * u) * s + g * s /\ (2 * g) * s = 2 * (g * s) /\ g * s \in Nat /\ (2 * u) * s \in Nat
  OBVIOUS
<1>9. a * U < (2 * u + g) * s /\ (2 * u) * s < a * U + g * s
  BY <1>6, <1>7, <1>8
<1>. QED  BY <1>9 DEF a
---------------------------------------------------------------------------
(* What Nearest makes of a number between two midpoints *)

HalfUnit == 2 ^ (UnitExp + 1)       \* half units in 1

\* n * 10^e is less, or more, than so many half units.
LessThan(n, e, halves) == IF e < 0 THEN n * HalfUnit < halves * 10 ^ (-e)
                          ELSE (n * HalfUnit) * 10 ^ e < halves
MoreThan(n, e, halves) == IF e < 0 THEN n * HalfUnit > halves * 10 ^ (-e)
                          ELSE (n * HalfUnit) * 10 ^ e > halves

\* Within the reach of the format.
Reached(n, e) == e \in -SmallExp10 .. LargeExp10 /\ (e >= 0 => n <= 2 * Units(InfBits))

LEMMA HalvesCompare ==
  ASSUME NEW n \in Nat, NEW e \in Int, Reached(n, e), NEW halves \in Nat
  PROVE  /\ HalfUnits(n, e) \in Nat
         /\ LessThan(n, e, halves) => HalfUnits(n, e) < halves
         /\ MoreThan(n, e, halves) => HalfUnits(n, e) > halves \/ (HalfUnits(n, e) = halves /\ Leftover(n, e))
<1>1. HalfUnit \in Nat \ {0} /\ SmallExp10 \in 0 .. MaxDigits /\ LargeExp10 \in 0 .. MaxDigits - 1
  BY Reach DEF HalfUnit
<1>2. MaxDigits \in Nat /\ e \in -SmallExp10 .. LargeExp10 /\ (e >= 0 => n <= 2 * Units(InfBits))
  BY Sizes DEF Reached
<1> DEFINE x == n * HalfUnit
<1>3. x \in Nat
  BY <1>1
<1>4. CASE e < 0
  <2> DEFINE t == 10 ^ (-e)
             q == x \div t
             r == x % t
  <2>1. -e \in 0 .. MaxDigits /\ ~ (e < -SmallExp10)
    BY <1>1, <1>2, <1>4
  <2>2. t \in Nat \ {0}
    BY <2>1, Tens
  <2>3. HalfUnits(n, e) = q /\ (Leftover(n, e) <=> r # 0)
    BY <1>4, <2>1 DEF HalfUnits, Leftover, HalfUnit
  <2>4. /\ LessThan(n, e, halves) <=> x < halves * t
        /\ MoreThan(n, e, halves) <=> x > halves * t
    BY <1>4 DEF LessThan, MoreThan
  <2> HIDE DEF x, t
  <2>5. q \in Nat /\ r \in 0 .. t - 1 /\ x = t * q + r
    BY <1>3, <2>2, DivMod
  <2> HIDE DEF q, r
  <2>6. ASSUME x < halves * t PROVE q < halves
    <3> SUFFICES ASSUME halves <= q PROVE FALSE
      BY <2>5
    <3>1. halves * t <= q * t /\ q * t = t * q /\ halves * t \in Nat /\ q * t \in Nat
      BY <2>2, <2>5, Products
    <3>. QED  BY <1>3, <2>5, <2>6, <3>1
  <2>7. ASSUME x > halves * t PROVE q > halves \/ (q = halves /\ r # 0)
    <3> SUFFICES ASSUME q < halves \/ (q = halves /\ r = 0) PROVE FALSE
      BY <2>5
    <3>1. q * t = t * q /\ q * t \in Nat /\ halves * t \in Nat
      BY <2>2, <2>5, Products
    <3>2. CASE q < halves
      <4>1. q * t + t <= halves * t
        BY <2>2, <2>5, <3>2, Products
      <4>. QED  BY <2>2, <2>5, <2>7, <3>1, <4>1
    <3>3. CASE q = halves /\ r = 0
      BY <2>2, <2>5, <2>7, <3>1, <3>3
    <3>. QED  BY <3>2, <3>3
  <2>. QED  BY <2>3, <2>4, <2>5, <2>6, <2>7
<1>5. CASE e >= 0
  <2> DEFINE t == 10 ^ e
  <2>1. e \in 0 .. MaxDigits /\ ~ (e < 0) /\ ~ (e > LargeExp10)
    BY <1>1, <1>2, <1>5
  <2>2. t \in Nat \ {0}
    BY <2>1, Tens
  <2>3. Units(InfBits) \in Nat
    BY Format, MagnitudeType
  <2>4. ~ (n > 2 * Units(InfBits))
    BY <1>2, <1>5, <2>3
  <2>5. HalfUnits(n, e) = x * t
    BY <1>5, <2>1, <2>4 DEF HalfUnits, HalfUnit
  <2>6. /\ LessThan(n, e, halves) <=> x * t < halves
        /\ MoreThan(n, e, halves) <=> x * t > halves
    BY <2>1 DEF LessThan, MoreThan
  <2> HIDE DEF x, t
  <2>7. x * t \in Nat
    BY <1>3, <2>2
  <2>. QED  BY <2>5, <2>6, <2>7
<1>. QED  BY <1>2, <1>4, <1>5

\* Between the midpoints of its neighbours the magnitude is the only nearest one.
LEMMA NearestBetween ==
  ASSUME NEW n \in Nat, NEW e \in Int, Reached(n, e), NEW b \in 0 .. InfBits - 1,
         LessThan(n, e, Units(b) + Units(b + 1)),
         b > 0 => MoreThan(n, e, Units(b - 1) + Units(b))
  PROVE  Nearest(n, e) = b
<1> DEFINE x == HalfUnits(n, e)
           Past(c) == x > Units(c) + Units(c + 1)
                        \/ (x = Units(c) + Units(c + 1) /\ (Leftover(n, e) \/ c % 2 = 1))
<1>1. InfBits \in Nat /\ b \in Nat /\ b < InfBits /\ b \in 0 .. InfBits
  BY Format
<1>2. \A c \in 0 .. InfBits : Units(c) \in Nat
  BY MagnitudeType
<1>3. \A c : RoundsPast(n, e, c) <=> Past(c)
  BY DEF RoundsPast
<1>4. x \in Nat /\ x < Units(b) + Units(b + 1)
  <2>1. Units(b) + Units(b + 1) \in Nat
    <3>1. b + 1 \in 0 .. InfBits
      BY <1>1
    <3>2. Units(b) \in Nat /\ Units(b + 1) \in Nat
      BY <1>1, <1>2, <3>1
    <3>. QED  BY <3>2
  <2>. QED  BY <2>1, HalvesCompare
<1>5. ASSUME b > 0
      PROVE  x > Units(b - 1) + Units(b) \/ (x = Units(b - 1) + Units(b) /\ Leftover(n, e))
  <2>1. Units(b - 1) + Units(b) \in Nat
    <3>1. b - 1 \in 0 .. InfBits
      BY <1>1, <1>5
    <3>2. Units(b) \in Nat /\ Units(b - 1) \in Nat
      BY <1>1, <1>2, <3>1
    <3>. QED  BY <3>2
  <2>. QED  BY <1>5, <2>1, HalvesCompare
<1> HIDE DEF x
\* Past the midpoints below b, and not past those from b on.
<1>6. ASSUME NEW c \in 0 .. InfBits - 1, c < b PROVE RoundsPast(n, e, c)
  <2>1. c \in 0 .. InfBits /\ c + 1 \in 0 .. InfBits /\ b - 1 \in 0 .. InfBits /\ c <= b - 1 /\ c + 1 <= b
        /\ b > 0
    BY <1>1, <1>6
  <2>2. Units(c) <= Units(b - 1) /\ Units(c + 1) <= Units(b)
    BY <1>1, <2>1, MagnitudeOrder
  <2>3. Units(c) \in Nat /\ Units(c + 1) \in Nat /\ Units(b - 1) \in Nat /\ Units(b) \in Nat
    BY <1>1, <1>2, <2>1
  <2>4. x > Units(c) + Units(c + 1) \/ (x = Units(c) + Units(c + 1) /\ Leftover(n, e))
    BY <1>4, <1>5, <2>1, <2>2, <2>3
  <2>. QED  BY <1>3, <2>4
<1>7. ASSUME NEW c \in 0 .. InfBits - 1, b <= c PROVE ~ RoundsPast(n, e, c)
  <2>1. c \in 0 .. InfBits /\ c + 1 \in 0 .. InfBits /\ b + 1 \in 0 .. InfBits /\ b + 1 <= c + 1
    BY <1>1, <1>7
  <2>2. Units(b) <= Units(c) /\ Units(b + 1) <= Units(c + 1)
    BY <1>1, <1>7, <2>1, MagnitudeOrder
  <2>3. Units(c) \in Nat /\ Units(c + 1) \in Nat /\ Units(b + 1) \in Nat /\ Units(b) \in Nat
    BY <1>1, <1>2, <2>1
  <2>4. x < Units(c) + Units(c + 1) /\ Units(c) + Units(c + 1) \in Nat
    BY <1>4, <2>2, <2>3
  <2>. QED  BY <1>3, <1>4, <2>4
<1>8. IsNearest(n, e, b)
  <2>1. b > 0 => b - 1 \in 0 .. InfBits - 1 /\ b - 1 < b
    BY <1>1
  <2>. QED  BY <1>6, <1>7, <2>1 DEF IsNearest
<1>9. ASSUME NEW c \in 0 .. InfBits, IsNearest(n, e, c) PROVE c = b
  <2>1. CASE c < b
    <3>1. c \in 0 .. InfBits - 1 /\ c < InfBits
      BY <1>1, <2>1
    <3>. QED  BY <1>6, <1>9, <2>1, <3>1 DEF IsNearest
  <2>2. CASE c > b
    <3>1. c > 0 /\ c - 1 \in 0 .. InfBits - 1 /\ b <= c - 1
      BY <1>1, <2>2
    <3>. QED  BY <1>7, <1>9, <3>1 DEF IsNearest
  <2>. QED  BY <1>1, <2>1, <2>2
<1>. QED  BY <1>1, <1>8, <1>9 DEF Nearest
---------------------------------------------------------------------------
(* What is printed lies between the midpoints *)

\* Products of powers of ten are ordered as the sums of their exponents.
LEMMA TensProducts ==
  ASSUME NEW i \in 0 .. MaxDigits, NEW j \in 0 .. MaxDigits, NEW k \in 0 .. MaxDigits, NEW l \in 0 .. MaxDigits,
         k + l <= i + j
  PROVE  10 ^ k * 10 ^ l <= 10 ^ i * 10 ^ j
<1>1. \A v \in 0 .. MaxDigits : 10 ^ v \in Nat \ {0}
  BY Tens, Sizes
<1>2. MaxDigits \in Nat
  BY Sizes
\* One exponent larger, the other smaller, by no more.
<1>3. ASSUME NEW a \in 0 .. MaxDigits, NEW b \in 0 .. MaxDigits, NEW c \in 0 .. MaxDigits,
             NEW d \in 0 .. MaxDigits, c + d <= a + b, c <= a
      PROVE  10 ^ c * 10 ^ d <= 10 ^ a * 10 ^ b
  <2>1. CASE d <= b
    <3>1. 10 ^ c <= 10 ^ a /\ 10 ^ d <= 10 ^ b
      BY <1>3, <2>1, TensOrder
    <3>2. \A x, y, v, w \in Nat \ {0} : x <= v /\ y <= w => x * y <= v * w
      <4> SUFFICES ASSUME NEW x \in Nat \ {0}, NEW y \in Nat \ {0}, NEW v \in Nat \ {0}, NEW w \in Nat \ {0},
                          x <= v, y <= w
                   PROVE  x * y <= v * w
        OBVIOUS
      <4>1. x * y <= v * y /\ y * v <= w * v /\ x * y \in Nat /\ v * y \in Nat
        BY Products
      <4>2. y * v = v * y /\ w * v = v * w /\ v * w \in Nat
        OBVIOUS
      <4>. QED  BY <4>1, <4>2
    <3>. QED  BY <1>1, <3>1, <3>2
  <2>2. CASE d > b
    <3> DEFINE h == a - c
               m == d - b
    <3>1. h \in Nat /\ m \in Nat /\ a = c + h /\ d = b + m /\ m <= h /\ h \in 0 .. MaxDigits /\ m \in 0 .. MaxDigits
          /\ c \in Nat /\ b \in Nat /\ c + h <= MaxDigits /\ b + m <= MaxDigits
      BY <1>2, <1>3, <2>2
    <3> HIDE DEF h, m
    <3>2. 10 ^ (c + h) = 10 ^ c * 10 ^ h /\ 10 ^ (b + m) = 10 ^ b * 10 ^ m
      BY <3>1, TensSum
    <3>3. 10 ^ m <= 10 ^ h
      BY <3>1, TensOrder
    <3> DEFINE x == 10 ^ c
               y == 10 ^ b
               v == 10 ^ m
               w == 10 ^ h
    <3>4. x \in Nat \ {0} /\ y \in Nat \ {0} /\ v \in Nat \ {0} /\ w \in Nat \ {0} /\ v <= w
          /\ 10 ^ a = x * w /\ 10 ^ d = y * v
      BY <1>1, <3>1, <3>2, <3>3
    <3> HIDE DEF x, y, v, w
    <3>5. x * (y * v) <= (x * w) * y
      <4>1. x * (y * v) = v * (x * y) /\ (x * w) * y = w * (x * y) /\ x * y \in Nat \ {0}
        BY <3>4, Swapped
      <4>2. v * (x * y) <= w * (x * y)
        BY <3>4, <4>1, Products
      <4>. QED  BY <4>1, <4>2
    <3>. QED  BY <3>4, <3>5 DEF x, y
  <2>. QED  BY <2>1, <2>2
<1>4. CASE k <= i
  BY <1>3, <1>4
<1>5. CASE ~ (k <= i)
  <2>1. l + k <= j + i /\ l <= j
    BY <1>2, <1>5
  <2>2. 10 ^ l * 10 ^ k <= 10 ^ j * 10 ^ i
    BY <1>3, <2>1
  <2>3. \A x, y \in Nat \ {0} : x * y = y * x
    OBVIOUS
  <2>4. 10 ^ l * 10 ^ k = 10 ^ k * 10 ^ l /\ 10 ^ j * 10 ^ i = 10 ^ i * 10 ^ j
    BY <1>1, <2>3
  <2>. QED  BY <2>2, <2>4
<1>. QED  BY <1>4, <1>5

\* What is printed is not past the small end: the number is at least one unit.
LEMMA NotTooSmall ==
  ASSUME NEW d \in Nat \ {0}, NEW s \in 0 .. UnitExp, NEW left \in -MaxDigits .. MaxDigits,
         NEW n \in 1 .. MaxPrecision + 1,
         10 ^ s <= d * 2 ^ UnitExp,
         IF left > 0 THEN d < 10 ^ n * 10 ^ left ELSE d * 10 ^ (-left) < 10 ^ n
  PROVE  s - left <= SmallExp10
<1> DEFINE r == SmallExp10 - MaxPrecision
           u == 2 ^ UnitExp
<1>1. /\ MaxDigits \in Nat /\ MaxPrecision \in Nat /\ SmallExp10 \in 0 .. MaxDigits /\ MaxPrecision <= SmallExp10
      /\ MaxPrecision + 1 < MaxDigits /\ UnitExp \in Nat /\ UnitExp <= MaxDigits
  BY Sizes, Reach
<1>2. r \in 0 .. MaxDigits /\ r \in Nat /\ n + r <= SmallExp10 + 1 /\ n \in 0 .. MaxDigits /\ s \in 0 .. MaxDigits
  BY <1>1
<1>3. u \in Nat \ {0} /\ u <= 10 ^ r
  BY Reach, ReachAssumption
<1> HIDE DEF r, u
<1> SUFFICES ASSUME s - left >= SmallExp10 + 1 PROVE FALSE
  BY <1>1
<1>4. s - left >= n + r
  BY <1>1, <1>2
<1>5. \A k \in 0 .. MaxDigits : 10 ^ k \in Nat \ {0}
  BY Tens
<1>6. 10 ^ s <= d * u
  BY DEF u
<1>7. CASE left > 0
  <2>1. left \in 0 .. MaxDigits /\ n + left \in 0 .. MaxDigits /\ n + left + r <= s /\ n \in Nat /\ left \in Nat
        /\ (n + left) + r \in 0 .. MaxDigits /\ n + left \in Nat /\ n + left <= MaxDigits
    BY <1>1, <1>2, <1>4, <1>7
  <2> DEFINE c == n + left
  <2>2. 10 ^ (n + left) = 10 ^ n * 10 ^ left
    BY <2>1, TensSum
  <2>3. c \in Nat /\ c + r <= MaxDigits /\ c \in 0 .. MaxDigits /\ c + r \in 0 .. MaxDigits /\ c + r <= s
    BY <1>2, <2>1
  <2>4. d < 10 ^ c
    BY <1>7, <2>2
  <2> HIDE DEF c
  <2>5. 10 ^ (c + r) = 10 ^ c * 10 ^ r /\ 10 ^ (c + r) <= 10 ^ s
    BY <1>2, <2>3, TensSum, TensOrder
  <2> DEFINE x == 10 ^ c
             y == 10 ^ r
             z == 10 ^ s
  <2>6. x \in Nat \ {0} /\ y \in Nat \ {0} /\ z \in Nat /\ x * y <= z /\ d < x /\ u <= y /\ z <= d * u
    BY <1>2, <1>3, <1>5, <1>6, <2>3, <2>4, <2>5
  <2> HIDE DEF x, y, z
  <2>7. d * u < x * u /\ x * u <= y * x /\ y * x = x * y /\ d * u \in Nat /\ x * u \in Nat /\ x * y \in Nat
    <3>1. d * u < x * u
      BY <1>3, <2>6, Products
    <3>2. u * x <= y * x
      BY <1>3, <2>6, Products
    <3>3. u * x = x * u /\ y * x = x * y /\ d * u \in Nat /\ x * u \in Nat /\ x * y \in Nat
      BY <1>3, <2>6
    <3>. QED  BY <3>1, <3>2, <3>3
  <2>. QED  BY <2>6, <2>7
<1>8. CASE ~ (left > 0)
  <2> DEFINE j == -left
  <2>1. j \in 0 .. MaxDigits /\ n + r <= s + j
    BY <1>1, <1>2, <1>4, <1>8
  <2>2. d * 10 ^ j < 10 ^ n
    BY <1>8
  <2> HIDE DEF j
  <2>3. 10 ^ n * 10 ^ r <= 10 ^ s * 10 ^ j
    BY <1>2, <2>1, TensProducts
  <2> DEFINE x == 10 ^ n
             y == 10 ^ r
             z == 10 ^ s
             w == 10 ^ j
  <2>4. /\ x \in Nat \ {0} /\ y \in Nat \ {0} /\ z \in Nat \ {0} /\ w \in Nat \ {0}
        /\ x * y <= z * w /\ d * w < x /\ u <= y /\ z <= d * u
    BY <1>2, <1>3, <1>5, <1>6, <2>1, <2>2, <2>3
  <2> HIDE DEF x, y, z, w
  <2>5. z * w <= (d * u) * w /\ (d * u) * w = (d * w) * u
    <3>1. d * u \in Nat
      BY <1>3
    <3>2. z * w <= (d * u) * w
      BY <2>4, <3>1, Products
    <3>3. (d * u) * w = (d * w) * u
      BY <1>3, <2>4, Swapped
    <3>. QED  BY <3>2, <3>3
  <2>6. (d * w) * u < x * u /\ u * x <= y * x
    <3>1. d * w \in Nat
      BY <2>4
    <3>. QED  BY <1>3, <2>4, <3>1, Products
  <2>7. u * x = x * u /\ y * x = x * y /\ x * u \in Nat /\ x * y \in Nat /\ (d * w) * u \in Nat /\ z * w \in Nat
    BY <1>3, <2>4
  <2>. QED  BY <2>4, <2>5, <2>6, <2>7
<1>. QED  BY <1>7, <1>8

\* Nor past the large end.
LEMMA NotTooLarge ==
  ASSUME NEW d \in Nat, NEW n \in Nat \ {0}, NEW s \in 0 .. MaxDigits, NEW e \in 0 .. MaxDigits, s + e <= MaxDigits,
         NEW b \in 0 .. InfBits - 1,
         d * 2 ^ UnitExp = Units(b) * 10 ^ s, n * 10 ^ (s + e) <= 2 * d
  PROVE  n <= 2 * Units(InfBits) /\ e <= LargeExp10
<1> DEFINE u == 2 ^ UnitExp
           x == 10 ^ s
           y == 10 ^ e
           w == Units(b)
           top == Units(InfBits)
<1>1. u \in Nat \ {0} /\ x \in Nat \ {0} /\ y \in Nat \ {0} /\ LargeExp10 \in 0 .. MaxDigits - 1 /\ MaxDigits \in Nat
  BY Reach, Tens, Sizes
<1>2. w \in Nat /\ top \in Nat /\ w < top
  <2>1. b \in 0 .. InfBits /\ InfBits \in 0 .. InfBits /\ b < InfBits
    BY Format
  <2>. QED  BY <2>1, MagnitudeOrder
<1>3. 10 ^ (s + e) = x * y
  <2>1. s \in Nat /\ e \in Nat
    OBVIOUS
  <2>. QED  BY <2>1, TensSum
<1>4. d * u = w * x /\ n * (x * y) <= 2 * d
  BY <1>3
<1>5. 2 * top <= u * 10 ^ (LargeExp10 + 1)
  BY ReachAssumption
<1> HIDE DEF u, x, y, w, top
<1>6. (n * y) * u <= 2 * w
  <2>1. (n * (x * y)) * u <= (2 * d) * u
    <3>1. n * (x * y) \in Nat /\ 2 * d \in Nat
      BY <1>1
    <3>. QED  BY <1>1, <1>4, <3>1, Products
  <2>2. (n * (x * y)) * u = ((n * y) * u) * x
    <3>1. n * (x * y) = (n * y) * x
      BY <1>1, Swapped
    <3>2. ((n * y) * x) * u = ((n * y) * u) * x
      <4>1. n * y \in Nat
        BY <1>1
      <4>. QED  BY <1>1, <4>1, Swapped
    <3>. QED  BY <3>1, <3>2
  <2>3. (2 * d) * u = (2 * w) * x
    <3>1. (2 * d) * u = 2 * (d * u) /\ (2 * w) * x = 2 * (w * x)
      BY <1>1, <1>2, Swapped
    <3>. QED  BY <1>4, <3>1
  <2>4. (n * y) * u \in Nat /\ 2 * w \in Nat
    <3>1. n * y \in Nat
      BY <1>1
    <3>. QED  BY <1>1, <1>2, <3>1
  <2>5. ((n * y) * u) * x <= (2 * w) * x
    BY <2>1, <2>2, <2>3
  <2>. QED  BY <1>1, <2>4, <2>5, Products
<1>7. n * y \in Nat /\ n <= n * y /\ y <= n * y /\ n * y <= (n * y) * u
  <2>1. n * y \in Nat /\ n <= n * y
    BY <1>1, Products
  <2>2. y <= y * n /\ y * n = n * y
    BY <1>1, Products
  <2>3. n * y <= (n * y) * u
    BY <1>1, <2>1, Products
  <2>. QED  BY <2>1, <2>2, <2>3
<1>8. n <= 2 * top
  <2>1. (n * y) * u \in Nat
    BY <1>1, <1>7
  <2>. QED  BY <1>2, <1>6, <1>7, <2>1
<1>9. e <= LargeExp10
  <2> SUFFICES ASSUME LargeExp10 + 1 <= e PROVE FALSE
    BY <1>1
  <2> DEFINE z == 10 ^ (LargeExp10 + 1)
  <2>1. z <= y /\ z \in Nat
    <3>1. LargeExp10 + 1 \in 0 .. MaxDigits
      BY <1>1
    <3>. QED  BY <3>1, TensOrder, Tens DEF y
  <2>2. 2 * top <= u * z
    BY <1>5
  <2> HIDE DEF z
  <2>3. z * u <= y * u /\ y * u <= (n * y) * u /\ z * u = u * z
    BY <1>1, <1>7, <2>1, Products
  <2>4. z * u \in Nat /\ y * u \in Nat /\ (n * y) * u \in Nat
    BY <1>1, <1>7, <2>1
  <2>. QED  BY <1>2, <1>6, <2>2, <2>3, <2>4
<1>. QED  BY <1>8, <1>9 DEF top

\* The powers that the number and the midpoint have in common can be struck out.
LEMMA Cancelled ==
  ASSUME NEW n \in Nat, NEW s \in 0 .. MaxDigits, NEW left \in 1 .. MaxDigits, NEW halves \in Nat
  PROVE  /\ (n * 10 ^ left) * HalfUnit < halves * 10 ^ s => LessThan(n, left - s, halves)
         /\ halves * 10 ^ s < (n * 10 ^ left) * HalfUnit => MoreThan(n, left - s, halves)
<1> DEFINE u == HalfUnit
           e == left - s
           x == 10 ^ left
           z == 10 ^ s
<1>1. MaxDigits \in Nat /\ u \in Nat \ {0} /\ x \in Nat \ {0} /\ z \in Nat \ {0} /\ e \in Int
  BY Sizes, Reach, Tens DEF HalfUnit
<1>2. CASE e < 0
  <2> DEFINE y == 10 ^ (-e)
  <2>1. -e \in 0 .. MaxDigits /\ -e \in Nat /\ left \in Nat /\ left + (-e) = s /\ s <= MaxDigits
    BY <1>1, <1>2
  <2>2. 10 ^ (left + (-e)) = 10 ^ left * 10 ^ (-e)
    <3> DEFINE k == -e
    <3>1. k \in Nat /\ left \in Nat /\ left + k <= MaxDigits
      BY <2>1
    <3> HIDE DEF k
    <3>2. 10 ^ (left + k) = 10 ^ left * 10 ^ k
      BY <3>1, TensSum
    <3>. QED  BY <3>2 DEF k
  <2>3. z = x * y /\ y \in Nat \ {0}
    BY <2>1, <2>2, Tens
  <2>4. /\ LessThan(n, e, halves) <=> n * u < halves * y
        /\ MoreThan(n, e, halves) <=> n * u > halves * y
    BY <1>2 DEF LessThan, MoreThan
  <2> HIDE DEF u, e, x, y, z
  <2>5. (n * x) * u = (n * u) * x /\ halves * (x * y) = (halves * y) * x /\ n * u \in Nat /\ halves * y \in Nat
    BY <1>1, <2>3, Swapped
  <2>6. /\ n * u < halves * y <=> (n * u) * x < (halves * y) * x
        /\ halves * y < n * u <=> (halves * y) * x < (n * u) * x
    BY <1>1, <2>5, Products
  <2>7. /\ (n * x) * u < halves * z => LessThan(n, e, halves)
        /\ halves * z < (n * x) * u => MoreThan(n, e, halves)
    <3>1. halves * y < n * u => n * u > halves * y
      BY <2>5
    <3>. QED  BY <2>3, <2>4, <2>5, <2>6, <3>1
  <2>. QED  BY <2>7 DEF u, e, x, z
<1>3. CASE ~ (e < 0)
  <2> DEFINE y == 10 ^ e
  <2>1. e \in 0 .. MaxDigits /\ e \in Nat /\ s \in Nat /\ s + e = left /\ left <= MaxDigits
    BY <1>1, <1>3
  <2>2. 10 ^ (s + e) = 10 ^ s * 10 ^ e
    <3> HIDE DEF e
    <3>. QED  BY <2>1, TensSum
  <2>3. x = z * y /\ y \in Nat \ {0}
    <3> HIDE DEF e
    <3>. QED  BY <2>1, <2>2, Tens
  <2>4. /\ LessThan(n, e, halves) <=> (n * u) * y < halves
        /\ MoreThan(n, e, halves) <=> (n * u) * y > halves
    BY <1>3 DEF LessThan, MoreThan
  <2> HIDE DEF u, e, x, y, z
  <2>5. (n * (z * y)) * u = ((n * u) * y) * z /\ (n * u) * y \in Nat
    <3>1. n * (z * y) = (n * y) * z /\ n * y \in Nat /\ n * u \in Nat
      BY <1>1, <2>3, Swapped
    <3>2. ((n * y) * z) * u = ((n * y) * u) * z /\ (n * y) * u = (n * u) * y
      BY <1>1, <2>3, <3>1, Swapped
    <3>3. (n * u) * y \in Nat
      BY <2>3, <3>1
    <3>. QED  BY <3>1, <3>2, <3>3
  <2>6. /\ (n * u) * y < halves <=> ((n * u) * y) * z < halves * z
        /\ halves < (n * u) * y <=> halves * z < ((n * u) * y) * z
    BY <1>1, <2>5, Products
  <2>7. /\ (n * x) * u < halves * z => LessThan(n, e, halves)
        /\ halves * z < (n * x) * u => MoreThan(n, e, halves)
    <3>1. halves < (n * u) * y => (n * u) * y > halves
      BY <2>5
    <3>. QED  BY <2>3, <2>4, <2>5, <2>6, <3>1
  <2>. QED  BY <2>7 DEF u, e, x, z
<1>. QED  BY <1>2, <1>3

\* Half units are what the magnitudes are counted in.
LEMMA HalfUnitIs ==
  ASSUME NEW d \in Nat, NEW u \in Nat, NEW x \in Nat, d * 2 ^ UnitExp = u * x
  PROVE  HalfUnit \in Nat \ {0} /\ d * HalfUnit = (2 * u) * x
<1> DEFINE v == 2 ^ UnitExp
<1>1. v \in Nat \ {0} /\ HalfUnit = 2 * v /\ d * v = u * x
  BY Reach DEF HalfUnit
<1> HIDE DEF v
<1>2. d * (2 * v) = 2 * (d * v) /\ (2 * u) * x = 2 * (u * x)
  <2>1. d * (2 * v) = 2 * (d * v)
    BY <1>1
  <2>2. (2 * u) * x = 2 * (u * x)
    OBVIOUS
  <2>. QED  BY <2>1, <2>2
<1>. QED  BY <1>1, <1>2

\* A number padded with zeros is the number.
LEMMA FilledReadsBack ==
  ASSUME NEW d \in Nat, NEW s \in 0 .. MaxDigits, NEW j \in 0 .. MaxDigits, s + j <= MaxDigits,
         NEW b \in 0 .. InfBits - 1, d * 2 ^ UnitExp = Units(b) * 10 ^ s,
         Reached(d * 10 ^ j, -(s + j))
  PROVE  Nearest(d * 10 ^ j, -(s + j)) = b
<1> DEFINE u == Units(b)
           x == 10 ^ s
           y == 10 ^ j
           h == HalfUnit
           t == x * y
           n == d * y
           e == -(s + j)
<1>1. x \in Nat \ {0} /\ y \in Nat \ {0} /\ 10 ^ 0 = 1
  BY Tens, Sizes
<1>2. u \in Nat /\ b \in 0 .. InfBits
  BY MagnitudeType, Format
<1>3. h \in Nat \ {0} /\ d * h = (2 * u) * x
  BY <1>1, <1>2, HalfUnitIs
<1>4. 10 ^ (s + j) = t /\ s + j \in Nat
  <2>1. s \in Nat /\ j \in Nat
    OBVIOUS
  <2>. QED  BY <2>1, TensSum
<1>5. e \in Int /\ -e = s + j /\ (e < 0 \/ e = 0) /\ (e = 0 => 10 ^ e = 1 /\ t = 1)
  <2>1. e \in Int /\ -e = s + j /\ (e < 0 \/ e = 0)
    BY <1>4
  <2>2. e = 0 => s + j = 0
    BY <1>4
  <2>. QED  BY <1>1, <1>4, <2>1, <2>2
<1> HIDE DEF e, u, x, y, h
<1>6. n * h = (2 * u) * t /\ t \in Nat \ {0} /\ n \in Nat
  <2>1. (d * y) * h = (d * h) * y
    BY <1>1, <1>3, Swapped
  <2>2. ((2 * u) * x) * y = (2 * u) * (x * y)
    BY <1>1, <1>2, Swapped
  <2>3. t \in Nat \ {0} /\ n \in Nat
    BY <1>1
  <2>. QED  BY <1>3, <2>1, <2>2, <2>3
<1> HIDE DEF t, n
\* The number is that many half units.
<1>7. ASSUME NEW v \in Nat
      PROVE  /\ 2 * u < v => LessThan(n, e, v)
             /\ v < 2 * u => MoreThan(n, e, v)
  <2>1. 2 * u \in Nat
    BY <1>2
  <2>2. CASE e < 0
    <3>1. /\ LessThan(n, e, v) <=> n * h < v * t
          /\ MoreThan(n, e, v) <=> n * h > v * t
      BY <1>4, <1>5, <2>2 DEF LessThan, MoreThan, h
    <3>2. /\ 2 * u < v <=> (2 * u) * t < v * t
          /\ v < 2 * u <=> v * t < (2 * u) * t
      BY <1>6, <2>1, Products
    <3>3. (2 * u) * t \in Nat /\ v * t \in Nat
      BY <1>6, <2>1, Products
    <3>. QED  BY <1>6, <3>1, <3>2, <3>3
  <2>3. CASE e = 0
    <3>1. /\ LessThan(n, e, v) <=> (n * h) * 10 ^ e < v
          /\ MoreThan(n, e, v) <=> (n * h) * 10 ^ e > v
      BY <2>3 DEF LessThan, MoreThan, h
    <3>2. (n * h) * 10 ^ e = 2 * u
      BY <1>5, <1>6, <2>1, <2>3
    <3>. QED  BY <2>1, <3>1, <3>2
  <2>. QED  BY <1>5, <2>2, <2>3
<1>8. LessThan(n, e, Units(b) + Units(b + 1))
  <2>1. Gap(b) \in Nat \ {0} /\ Units(b + 1) = Units(b) + Gap(b) /\ Units(b + 1) \in Nat
    BY GapIs
  <2>2. Units(b) + Units(b + 1) \in Nat /\ 2 * u < Units(b) + Units(b + 1)
    BY <1>2, <2>1 DEF u
  <2>. QED  BY <1>7, <2>2
<1>9. ASSUME b > 0 PROVE MoreThan(n, e, Units(b - 1) + Units(b))
  <2>1. b - 1 \in 0 .. InfBits - 1 /\ (b - 1) + 1 = b
    BY <1>9, Format
  <2>2. /\ Gap(b - 1) \in Nat \ {0} /\ Units((b - 1) + 1) = Units(b - 1) + Gap(b - 1)
        /\ Units(b - 1) \in Nat
    BY <2>1, GapIs
  <2>3. Units(b - 1) + Units(b) \in Nat /\ Units(b - 1) + Units(b) < 2 * u
    BY <1>2, <2>1, <2>2 DEF u
  <2>. QED  BY <1>7, <2>3
<1>10. Reached(n, e)
  BY DEF n, e, y
<1>11. Nearest(n, e) = b
  BY <1>5, <1>6, <1>8, <1>9, <1>10, NearestBetween
<1>. QED  BY <1>11 DEF n, e, y

\* A number rounded to enough digits is nearer to itself than its neighbours are.
LEMMA CutReadsBack ==
  ASSUME mode = "NEAREST_EVEN",
         NEW d \in Nat, NEW s \in 0 .. MaxDigits, NEW left \in 1 .. MaxDigits,
         NEW b \in 0 .. InfBits - 1, d * 2 ^ UnitExp = Units(b) * 10 ^ s,
         2 ^ Prec < RoundedTo(d, left), Reached(RoundedTo(d, left), left - s)
  PROVE  Nearest(RoundedTo(d, left), left - s) = b
<1> DEFINE n == RoundedTo(d, left)
           t == 10 ^ left
           x == 10 ^ s
           u == Units(b)
           h == HalfUnit
           p == 2 ^ Prec
           e == left - s
<1>1. t \in Nat \ {0} /\ x \in Nat \ {0} /\ p \in Nat \ {0} /\ e \in Int
  BY Tens, Sizes, Reach
<1>2. n \in Nat /\ 2 * (n * t) <= 2 * d + t /\ 2 * d <= 2 * (n * t) + t /\ p < n
  BY RoundedNear
<1>3. u \in Nat
  BY MagnitudeType, Format
<1>4. h \in Nat \ {0} /\ d * h = (2 * u) * x
  BY <1>1, <1>3, HalfUnitIs
<1>5. Reached(n, e)
  OBVIOUS
<1>6. \A v \in Nat : /\ (n * t) * h < v * x => LessThan(n, e, v)
                     /\ v * x < (n * t) * h => MoreThan(n, e, v)
  BY <1>2, Cancelled
<1>7. Gap(b) \in Nat \ {0} /\ Units(b + 1) = u + Gap(b) /\ u <= Gap(b) * p /\ Units(b + 1) \in Nat
  <2>1. Gap(b) \in Nat \ {0} /\ Units(b + 1) = u + Gap(b) /\ Units(b + 1) <= Gap(b) * p /\ Units(b + 1) \in Nat
    BY GapIs
  <2>2. Gap(b) * p \in Nat
    BY <1>1, <2>1
  <2>. QED  BY <1>3, <2>1, <2>2
<1>8. ASSUME b > 0
      PROVE  /\ Gap(b - 1) \in Nat \ {0} /\ u = Units(b - 1) + Gap(b - 1) /\ u <= Gap(b - 1) * p
             /\ Units(b - 1) \in Nat
  <2>1. b - 1 \in 0 .. InfBits - 1 /\ (b - 1) + 1 = b
    BY <1>8, Format
  <2>2. /\ Gap(b - 1) \in Nat \ {0} /\ Units((b - 1) + 1) = Units(b - 1) + Gap(b - 1)
        /\ Units((b - 1) + 1) <= Gap(b - 1) * p /\ Units(b - 1) \in Nat
    BY <2>1, GapIs
  <2>. QED  BY <2>1, <2>2
<1>9. Units(b) + Units(b + 1) = 2 * u + Gap(b) /\ 2 * u + Gap(b) \in Nat
  BY <1>3, <1>7
<1>10. b > 0 => /\ Units(b - 1) + Units(b) \in Nat
                /\ 2 * u = (Units(b - 1) + Units(b)) + Gap(b - 1)
  BY <1>3, <1>8
<1> HIDE DEF n, t, x, u, h, p, e
<1>11. LessThan(n, e, Units(b) + Units(b + 1))
  <2>1. (n * t) * h < (2 * u + Gap(b)) * x
    BY <1>1, <1>2, <1>3, <1>4, <1>7, NearerThanGap
  <2>. QED  BY <1>6, <1>9, <2>1
<1>12. ASSUME b > 0 PROVE MoreThan(n, e, Units(b - 1) + Units(b))
  <2> DEFINE g == Gap(b - 1)
             v == Units(b - 1) + Units(b)
  <2>1. (2 * u) * x < (n * t) * h + g * x
    BY <1>1, <1>2, <1>3, <1>4, <1>8, <1>12, NearerThanGap
  <2>2. g \in Nat \ {0} /\ v \in Nat /\ 2 * u = v + g
    BY <1>8, <1>10, <1>12
  <2> HIDE DEF g, v
  <2>3. (v + g) * x = v * x + g * x /\ v * x \in Nat /\ g * x \in Nat /\ (n * t) * h \in Nat
    <3>1. (n * t) * h \in Nat
      BY <1>1, <1>2, <1>4, Swapped
    <3>2. (v + g) * x = v * x + g * x /\ v * x \in Nat /\ g * x \in Nat
      BY <1>1, <2>2
    <3>. QED  BY <3>1, <3>2
  <2>4. v * x < (n * t) * h
    BY <2>1, <2>2, <2>3
  <2>. QED  BY <1>6, <2>2, <2>4 DEF v
<1>13. Nearest(n, e) = b
  BY <1>1, <1>2, <1>5, <1>11, <1>12, NearestBetween
<1>. QED  BY <1>13 DEF n, e

\* No number printed to the digits asked for is past the format.
LEMMA WithinReach ==
  ASSUME mode = "NEAREST_EVEN",
         NEW d \in Nat \ {0}, NEW s \in 0 .. UnitExp, NEW left \in -MaxDigits .. MaxDigits,
         NEW b \in 0 .. InfBits - 1, d * 2 ^ UnitExp = Units(b) * 10 ^ s,
         NEW m \in 1 .. MaxPrecision + 1,
         10 ^ (m - 1) <= RoundedTo(d, left), RoundedTo(d, left) < 10 ^ m
  PROVE  Reached(RoundedTo(d, left), left - s)
<1> DEFINE n == RoundedTo(d, left)
<1>1. /\ MaxDigits \in Nat /\ MaxPrecision + 1 < MaxDigits /\ MaxPrecision \in Nat
      /\ UnitExp \in Nat /\ UnitExp <= MaxDigits /\ s \in 0 .. MaxDigits /\ s \in Nat
      /\ m \in 0 .. MaxDigits /\ m - 1 \in 0 .. MaxDigits
      /\ SmallExp10 \in 0 .. MaxDigits /\ LargeExp10 \in 0 .. MaxDigits - 1
  BY Sizes, Reach
<1>2. \A k \in 0 .. MaxDigits : 10 ^ k \in Nat \ {0}
  BY Tens
\* The number is at least one unit.
<1>3. 10 ^ s <= d * 2 ^ UnitExp
  <2> DEFINE v == 2 ^ UnitExp
             w == Units(b)
             x == 10 ^ s
  <2>1. v \in Nat \ {0} /\ w \in Nat /\ x \in Nat \ {0} /\ d * v = w * x
    <3>1. b \in 0 .. InfBits
      BY Format
    <3>. QED  BY <1>1, <1>2, <3>1, Reach, MagnitudeType
  <2> HIDE DEF v, w, x
  <2>2. d * v \in Nat \ {0}
    BY <2>1
  <2>3. w # 0
    <3> SUFFICES ASSUME w = 0 PROVE FALSE
      OBVIOUS
    <3>1. 0 * x = 0
      BY <2>1
    <3>. QED  BY <2>1, <2>2, <3>1
  <2>4. x <= x * w /\ x * w = w * x
    BY <2>1, <2>3, Products
  <2>. QED  BY <2>1, <2>4 DEF v, x
<1>4. n \in Nat \ {0} /\ 2 ^ UnitExp \in Nat \ {0}
  <2>1. n \in Nat
    <3>1. CASE left > 0
      BY <3>1, RoundedNear
    <3>2. CASE ~ (left > 0)
      <4> DEFINE j == -left
      <4>1. j \in 0 .. MaxDigits
        BY <1>1, <3>2
      <4>2. n = d * 10 ^ j
        BY <3>2 DEF RoundedTo
      <4> HIDE DEF n, j
      <4>3. 10 ^ j \in Nat
        BY <1>2, <4>1
      <4>. QED  BY <4>2, <4>3
    <3>. QED  BY <3>1, <3>2
  <2>2. 10 ^ (m - 1) \in Nat \ {0} /\ 10 ^ (m - 1) <= n
    BY <1>1, <1>2
  <2>. QED  BY <2>1, <2>2, Reach
<1>5. CASE left > 0
  <2> DEFINE t == 10 ^ left
             top == 10 ^ m
  <2>1. left \in 1 .. MaxDigits /\ t \in Nat \ {0} /\ top \in Nat \ {0} /\ n < top
    BY <1>1, <1>2, <1>5
  <2>2. 2 * (n * t) <= 2 * d + t /\ 2 * d <= 2 * (n * t) + t
    BY <2>1, RoundedNear
  <2>3. d < top * t
    <3> HIDE DEF n, t, top
    <3>1. n * t + t <= top * t /\ n * t \in Nat /\ top * t \in Nat
      BY <1>4, <2>1, Products
    <3>. QED  BY <2>1, <2>2, <3>1
  <2>4. s - left <= SmallExp10
    BY <1>3, <1>5, <2>3, NotTooSmall
  <2>5. ASSUME left - s >= 0 PROVE n <= 2 * Units(InfBits) /\ left - s <= LargeExp10
    <3> DEFINE e == left - s
    <3>1. e \in 0 .. MaxDigits /\ s + e = left /\ s + e <= MaxDigits
      BY <1>1, <2>1, <2>5
    <3>2. n * t <= 2 * d
      <4>1. t <= n * t /\ n * t \in Nat
        <5> HIDE DEF n, t
        <5>1. t <= t * n /\ t * n = n * t /\ n * t \in Nat
          BY <1>4, <2>1, Products
        <5>. QED  BY <5>1
      <4>. QED  BY <2>1, <2>2, <4>1
    <3>3. n * 10 ^ (s + e) <= 2 * d
      BY <3>1, <3>2
    <3> HIDE DEF e, n
    <3>4. n <= 2 * Units(InfBits) /\ e <= LargeExp10
      BY <1>1, <1>4, <3>1, <3>3, NotTooLarge
    <3>. QED  BY <3>4 DEF e
  <2>. QED  BY <1>1, <2>1, <2>4, <2>5 DEF Reached
<1>6. CASE ~ (left > 0)
  <2> DEFINE j == -left
  <2>1. j \in 0 .. MaxDigits /\ n = d * 10 ^ (-left)
    BY <1>1, <1>6 DEF RoundedTo
  <2>2. s - left <= SmallExp10
    BY <1>3, <1>6, <2>1, NotTooSmall
  <2>3. ASSUME left - s >= 0 PROVE n <= 2 * Units(InfBits) /\ left - s <= LargeExp10
    <3>1. left = 0 /\ s = 0 /\ -left = 0 /\ 0 + 0 = 0
      BY <1>1, <1>6, <2>3
    <3>2. n = d /\ n * 10 ^ (0 + 0) <= 2 * d /\ 0 \in 0 .. MaxDigits /\ 0 + 0 <= MaxDigits
      BY <1>1, <2>1, <3>1, Tens
    <3>3. d * 2 ^ UnitExp = Units(b) * 10 ^ 0
      BY <3>1
    <3> HIDE DEF n
    <3>4. n <= 2 * Units(InfBits) /\ 0 <= LargeExp10
      BY <1>4, <3>2, <3>3, NotTooLarge
    <3>. QED  BY <3>1, <3>4
  <2>. QED  BY <1>1, <1>6, <2>2, <2>3 DEF Reached
<1>. QED  BY <1>5, <1>6

LEMMA ReadsBack ==
  ASSUME mode = "NEAREST_EVEN",
         NEW d \in Nat, NEW s \in 0 .. UnitExp, NEW left \in -MaxDigits .. MaxDigits,
         NEW b \in 0 .. InfBits - 1, d * 2 ^ UnitExp = Units(b) * 10 ^ s,
         NEW m \in 1 .. MaxPrecision + 1, 2 ^ Prec < 10 ^ (m - 1),
         NEW n \in Nat, n = RoundedTo(d, left),
         IF d = 0 THEN n = 0 /\ left - s = 1 - m ELSE 10 ^ (m - 1) <= n /\ n < 10 ^ m
  PROVE  Nearest(n, left - s) = b
<1>1. /\ MaxDigits \in Nat /\ MaxPrecision + 1 < MaxDigits /\ MaxPrecision \in Nat
      /\ UnitExp \in Nat /\ UnitExp <= MaxDigits /\ s \in 0 .. MaxDigits
      /\ SmallExp10 \in 0 .. MaxDigits /\ LargeExp10 \in 0 .. MaxDigits - 1 /\ MaxPrecision <= SmallExp10
  BY Sizes, Reach
<1>2. CASE d = 0
  <2> DEFINE e == left - s
             g == Gap(b)
  <2>1. n = 0 /\ e = 1 - m /\ e \in -SmallExp10 .. 0 /\ e \in Int
    BY <1>1, <1>2
  <2>2. Units(b) = 0
    <3> DEFINE u == Units(b)
               x == 10 ^ s
    <3>1. u \in Nat /\ x \in Nat \ {0} /\ u * x = 0
      <4>1. 0 * 2 ^ UnitExp = 0 /\ b \in 0 .. InfBits
        BY Reach, Format
      <4>. QED  BY <1>1, <1>2, <4>1, Tens, MagnitudeType
    <3> HIDE DEF u, x
    <3>2. u <= u * x
      BY <3>1, Products
    <3>3. u = 0
      BY <3>1, <3>2
    <3>. QED  BY <3>3 DEF u
  <2>3. b = 0
    <3> SUFFICES ASSUME b > 0 PROVE FALSE
      OBVIOUS
    <3>1. 0 \in 0 .. InfBits /\ b \in 0 .. InfBits
      BY Format
    <3>2. Units(0) < Units(b) /\ Units(0) \in Nat
      BY <3>1, MagnitudeOrder
    <3>. QED  BY <2>2, <3>2
  <2>4. g \in Nat \ {0} /\ Units(b) + Units(b + 1) = g
    <3>1. Gap(b) \in Nat \ {0} /\ Units(b + 1) = Units(b) + Gap(b)
      BY GapIs
    <3>. QED  BY <2>2, <3>1
  <2>5. Reached(0, e)
    <3>1. 0 <= 2 * Units(InfBits)
      <4>1. Units(InfBits) \in Nat
        BY Format, MagnitudeType
      <4>. QED  BY <4>1
    <3>. QED  BY <1>1, <2>1, <3>1 DEF Reached
  <2> HIDE DEF e, g
  <2>6. LessThan(0, e, g)
    <3>1. HalfUnit \in Nat /\ 0 * HalfUnit = 0
      BY Reach DEF HalfUnit
    <3>2. CASE e < 0
      <4> DEFINE t == 10 ^ (-e)
      <4>1. -e \in 0 .. MaxDigits
        BY <1>1, <2>1, <3>2
      <4>2. t \in Nat \ {0}
        BY <4>1, Tens
      <4>3. LessThan(0, e, g) <=> 0 * HalfUnit < g * t
        BY <3>2 DEF LessThan
      <4> HIDE DEF t
      <4>4. g <= g * t
        BY <2>4, <4>2, Products
      <4>5. g * t \in Nat
        BY <2>4, <4>2
      <4>. QED  BY <2>4, <3>1, <4>3, <4>4, <4>5
    <3>3. CASE e = 0
      <4>1. 10 ^ e = 1
        BY <1>1, <3>3, Tens
      <4>2. LessThan(0, e, g) <=> (0 * HalfUnit) * 10 ^ e < g
        BY <3>3 DEF LessThan
      <4>. QED  BY <2>4, <3>1, <4>1, <4>2
    <3>. QED  BY <2>1, <3>2, <3>3
  <2>7. Nearest(0, e) = b
    BY <2>1, <2>3, <2>4, <2>5, <2>6, NearestBetween
  <2>. QED  BY <2>1, <2>7 DEF e
<1>3. CASE d # 0
  <2>1. d \in Nat \ {0} /\ 10 ^ (m - 1) <= n /\ n < 10 ^ m
    BY <1>3
  <2>2. Reached(n, left - s)
    BY <2>1, WithinReach
  <2>3. CASE left > 0
    <3>1. left \in 1 .. MaxDigits
      BY <1>1, <2>3
    <3>2. 2 ^ Prec < n
      <4>1. 10 ^ (m - 1) \in Nat /\ 2 ^ Prec \in Nat
        <5>1. m - 1 \in 0 .. MaxDigits
          BY <1>1
        <5>. QED  BY <5>1, Tens, Reach
      <4>. QED  BY <2>1, <4>1
    <3>. QED  BY <1>1, <2>2, <3>1, <3>2, CutReadsBack
  <2>4. CASE ~ (left > 0)
    <3> DEFINE j == -left
    <3>1. j \in 0 .. MaxDigits /\ left - s = -(s + j)
      BY <1>1, <2>4
    <3>2. n = d * 10 ^ j
      BY <2>4 DEF RoundedTo
    <3> HIDE DEF j
    <3>3. s + j <= MaxDigits
      <4>1. left - s \in -SmallExp10 .. LargeExp10
        BY <2>2 DEF Reached
      <4>. QED  BY <1>1, <3>1, <4>1
    <3>. QED  BY <1>1, <2>2, <3>1, <3>2, <3>3, FilledReadsBack
  <2>. QED  BY <2>3, <2>4
<1>. QED  BY <1>2, <1>3

(***************************************************************************)
(* Enough digits of %e or %g, rounded to nearest, are those of no other    *)
(* number of the format: what ryu64_to_printf prints, read to nearest, is  *)
(* the double it was given, for every double, in every format and with     *)
(* every such precision.                                                   *)
(***************************************************************************)
THEOREM DigitsReadBack == TSpec => []EnoughDigitsReadBack
<1>1. IInv /\ ShapeInv /\ WorthInv /\ CutInv => EnoughDigitsReadBack
  <2> SUFFICES ASSUME IInv, ShapeInv, WorthInv, CutInv, InDecimal, kind # "f", mode = "NEAREST_EVEN",
                      Enough(SigDigits)
               PROVE  Nearest(rounded, exp10 - (SigDigits - 1)) = bits
    BY DEF EnoughDigitsReadBack
  <2>1. Printed /\ kind # "a"
    BY DEF InDecimal
  <2>2. /\ bits \in FiniteBits /\ kind \in {"e", "g"} /\ rounded \in Nat /\ Accepted
        /\ SigDigits \in 1 .. MaxDigits - 1 /\ Significand /\ places = SigDigits - 1 - exp10
    BY <2>1, PrintedFacts DEF Kinds
  <2>3. /\ digits \in Nat /\ scale \in Nat /\ exp10 \in Int /\ precision \in Int
    BY DEF IInv, TypeInv
  <2>4. /\ scale \in 0 .. UnitExp /\ digits * 2 ^ UnitExp = Units(bits) * 10 ^ scale
    BY <2>3, Format DEF WorthInv
  <2>5. LeftOut \in -MaxDigits .. MaxDigits
    BY DEF CutInv
  <2>6. /\ scale - places = LeftOut /\ LeftOut - scale = exp10 - (SigDigits - 1)
    BY <2>2, <2>3 DEF LeftOut
  <2>7. rounded = RoundedTo(digits, LeftOut)
    <3>1. rounded = Asked
      BY DEF IInv, RoundsAsAsked, AllDropped
    <3>. QED  BY <2>6, <3>1 DEF Asked
  <2>8. SigDigits \in 1 .. MaxPrecision + 1
    <3>1. Effective <= MaxPrecision /\ Effective \in Nat /\ MaxPrecision \in Nat
      BY <2>2, <2>3, Sizes, Reach DEF Accepted, Effective
    <3>2. SigDigits \in {Effective + 1, 1, Effective}
      BY <3>1 DEF SigDigits
    <3>. QED  BY <2>2, <3>1, <3>2
  <2>9. 2 ^ Prec < 10 ^ (SigDigits - 1)
    <3>1. 10 ^ (SigDigits - 1) \in Nat /\ 2 ^ Prec \in Nat
      <4>1. SigDigits - 1 \in 0 .. MaxDigits
        BY <2>2, Sizes
      <4>. QED  BY <4>1, Tens, Reach
    <3>. QED  BY <3>1 DEF Enough
  <2>10. IF digits = 0 THEN rounded = 0 /\ LeftOut - scale = 1 - SigDigits
         ELSE 10 ^ (SigDigits - 1) <= rounded /\ rounded < 10 ^ SigDigits
    BY <2>2, <2>6 DEF Significand
  <2>11. bits \in 0 .. InfBits - 1
    BY <2>2 DEF FiniteBits
  <2> DEFINE m == SigDigits
             left == LeftOut
  <2>12. /\ m \in 1 .. MaxPrecision + 1 /\ 2 ^ Prec < 10 ^ (m - 1) /\ left \in -MaxDigits .. MaxDigits
         /\ rounded = RoundedTo(digits, left) /\ left - scale = exp10 - (m - 1)
         /\ IF digits = 0 THEN rounded = 0 /\ left - scale = 1 - m
            ELSE 10 ^ (m - 1) <= rounded /\ rounded < 10 ^ m
    BY <2>5, <2>6, <2>7, <2>8, <2>9, <2>10
  <2> HIDE DEF m, left
  <2>13. Nearest(rounded, left - scale) = bits
    BY <2>2, <2>3, <2>4, <2>11, <2>12, ReadsBack
  <2>. QED  BY <2>12, <2>13 DEF m
<1>. QED  BY <1>1, Invariance, DigitsInvariance, DecimalIsExact, CutAlways, PTL
=============================================================================
